------------------------- MODULE BackpressureProofs -------------------------
(***************************************************************************)
(* The message buffer, for any number of drain tasks and any bounds.       *)
(* First the drain tasks: one at most takes frames from the backlog, and   *)
(* none are left behind in it; neither depends on what a frame is, so the  *)
(* invariant only says where the tasks are and what `draining` means.      *)
(* Then the loss that is announced.  Then, with what merging frames and    *)
(* taking a batch of them do, the way of the diffs: none is lost unseen or *)
(* processed twice, and those of each of the two ways keep their order.    *)
(***************************************************************************)
EXTENDS Backpressure, TLAPS, SequenceTheorems, WellFoundedInduction

Steps == {"none"} \cup Working \cup Finishing

(* Where tasks are; `draining` stands for the one task that may take frames; *)
(* and where the backlog has frames, some task or the callback sees to them. *)
TasksInv ==
    /\ at \in [Drainers -> Steps]
    /\ draining \in BOOLEAN
    /\ OneDrainer
    /\ NothingStuck

LEMMA InitTasks == Init => TasksInv
  BY DEF Init, TasksInv, OneDrainer, NothingStuck, Exclusive, Steps, Working, Finishing

(* Every step keeps the invariant: those outside the drain tasks leave the   *)
(* tasks that may take frames alone, and a task that ends or starts does so  *)
(* together with `draining`.                                                 *)
LEMMA TasksNext == TasksInv /\ [Next]_vars => TasksInv'
<1> SUFFICES ASSUME TasksInv, [Next]_vars PROVE TasksInv'
  OBVIOUS
<1> USE DEF Exclusive, Steps, Working, Finishing
<1>1. CASE Reconnect
  BY <1>1 DEF Reconnect, TasksInv, OneDrainer, NothingStuck, tasks
<1>2. CASE Enqueue
  BY <1>2 DEF Enqueue, TasksInv, OneDrainer, NothingStuck
<1>3. CASE AddToBacklog
  BY <1>3 DEF AddToBacklog, TasksInv, OneDrainer, NothingStuck
<1>4. CASE StartDraining
  <2>1. CASE draining
    BY <1>4, <2>1 DEF StartDraining, TasksInv, OneDrainer, NothingStuck
  <2>2. CASE ~draining
    <3>1. PICK d \in Drainers : at[d] = "none" /\ at' = [at EXCEPT ![d] = "take"]
      BY <1>4, <2>2 DEF StartDraining
    <3>2. draining' = TRUE
      BY <1>4 DEF StartDraining
    <3> QED
      BY <2>2, <3>1, <3>2 DEF TasksInv, OneDrainer, NothingStuck
  <2> QED
    BY <2>1, <2>2
<1>5. CASE \E d \in Drainers : DrainStep(d)
  <2> PICK d \in Drainers : DrainStep(d)
    BY <1>5
  <2>1. CASE DrainTake(d)
    BY <2>1 DEF DrainTake, Goto, TasksInv, OneDrainer, NothingStuck
  <2>2. CASE DrainSend(d)
    BY <2>2 DEF DrainSend, Goto, TasksInv, OneDrainer, NothingStuck
  <2>3. CASE DrainPush(d)
    BY <2>3 DEF DrainPush, Goto, TasksInv, OneDrainer, NothingStuck
  <2>4. CASE DrainClosed(d)
    BY <2>4 DEF DrainClosed, Goto, TasksInv, OneDrainer, NothingStuck
  <2>5. CASE DrainClear(d)
    BY <2>5 DEF DrainClear, Goto, TasksInv, OneDrainer, NothingStuck
  <2>6. CASE DrainStop(d)
    BY <2>6 DEF DrainStop, Goto, TasksInv, OneDrainer, NothingStuck
  <2>7. CASE DrainReset(d)
    BY <2>7 DEF DrainReset, Goto, TasksInv, OneDrainer, NothingStuck
  <2>8. CASE DrainRecheck(d)
    BY <2>8 DEF DrainRecheck, Goto, TasksInv, OneDrainer, NothingStuck
  <2>9. CASE DrainReswap(d)
    BY <2>9 DEF DrainReswap, Goto, TasksInv, OneDrainer, NothingStuck
  <2> QED
    BY <2>1, <2>2, <2>3, <2>4, <2>5, <2>6, <2>7, <2>8, <2>9 DEF DrainStep
<1>6. CASE Process
  BY <1>6 DEF Process, Goto, TasksInv, OneDrainer, NothingStuck
<1>7. CASE ReceiverEnds
  BY <1>7 DEF ReceiverEnds, TasksInv, OneDrainer, NothingStuck
<1>8. CASE UNCHANGED vars
  BY <1>8 DEF vars, tasks, TasksInv, OneDrainer, NothingStuck
<1> QED
  BY <1>1, <1>2, <1>3, <1>4, <1>5, <1>6, <1>7, <1>8 DEF Next

(* One task at most takes frames from the backlog, for any number of tasks: *)
(* the two swaps of `draining` in enqueue() and drain_backlog() suffice.     *)
THEOREM DrainersExclude == Spec => []OneDrainer
<1>1. TasksInv => OneDrainer
  BY DEF TasksInv
<1> QED
  BY <1>1, InitTasks, TasksNext, PTL DEF Spec

(* Frames in the backlog always have a task, or the callback, to see to      *)
(* them: letting go of `draining` before looking again loses no wakeup.      *)
THEOREM BacklogAttended == Spec => []NothingStuck
<1>1. TasksInv => NothingStuck
  BY DEF TasksInv
<1> QED
  BY <1>1, InitTasks, TasksNext, PTL DEF Spec

(***************************************************************************)
(* The first loss.  While frames are processed the only way to lose one is *)
(* the overflow of the backlog, and a drain task is at "closed" only when  *)
(* they are no longer; until the first connection has been cut nobody is   *)
(* taken to have been told, and there is no other connection.              *)
(***************************************************************************)
LossInv ==
    receiving =>
        /\ \A d \in Drainers : at[d] \notin {"closed", "clear"}
        /\ lost # {} => 1 \in announced
        /\ overflowNotified \/ cut \/ conn # 1 => 1 \in announced

LEMMA InitLoss == Init => LossInv
  BY DEF Init, LossInv

LEMMA LossNext == TasksInv /\ LossInv /\ [Next]_vars => LossInv'
<1> SUFFICES ASSUME TasksInv, LossInv, [Next]_vars PROVE LossInv'
  OBVIOUS
<1> USE DEF source
<1>1. CASE Reconnect
  BY <1>1 DEF Reconnect, LossInv, tasks
<1>2. CASE Enqueue
  BY <1>2 DEF Enqueue, LossInv
<1>3. CASE AddToBacklog
  BY <1>3 DEF AddToBacklog, LossInv, NotifyOverflow, AlreadyNotified
<1>4. CASE StartDraining
  BY <1>4 DEF StartDraining, LossInv, TasksInv
<1>5. CASE \E d \in Drainers : DrainStep(d)
  <2> PICK d \in Drainers : DrainStep(d)
    BY <1>5
  <2>1. CASE DrainTake(d) \/ DrainSend(d) \/ DrainRecheck(d) \/ DrainReswap(d)
    BY <2>1 DEF DrainTake, DrainSend, DrainRecheck, DrainReswap, Goto, LossInv, TasksInv
  <2>2. CASE DrainPush(d)
    BY <2>2 DEF DrainPush, Goto, LossInv, TasksInv
  <2>3. CASE DrainClosed(d) \/ DrainClear(d)
    BY <2>3 DEF DrainClosed, DrainClear, LossInv
  <2>4. CASE DrainStop(d) \/ DrainReset(d)
    BY <2>4 DEF DrainStop, DrainReset, Goto, LossInv, TasksInv
  <2> QED
    BY <2>1, <2>2, <2>3, <2>4 DEF DrainStep
<1>6. CASE Process
  BY <1>6 DEF Process, Goto, LossInv, TasksInv
<1>7. CASE ReceiverEnds
  BY <1>7 DEF ReceiverEnds, LossInv
<1>8. CASE UNCHANGED vars
  BY <1>8 DEF vars, tasks, LossInv
<1> QED
  BY <1>1, <1>2, <1>3, <1>4, <1>5, <1>6, <1>7, <1>8 DEF Next

(* As long as frames are processed, none is lost before the overflow handler *)
(* has cut the first connection (notify_overflow_once).                      *)
THEOREM FirstLossIsTold == Spec => []FirstLossAnnounced
<1>1. LossInv => FirstLossAnnounced
  BY DEF LossInv, FirstLossAnnounced
<1> QED
  BY <1>1, InitTasks, TasksNext, InitLoss, LossNext, PTL DEF Spec

-----------------------------------------------------------------------------
(***************************************************************************)
(* Frames and queues of frames.                                            *)
(***************************************************************************)

(* A set of naturals that is not empty has a least element. *)
LEMMA LeastElement ==
    ASSUME NEW S \in SUBSET Nat, S # {}
    PROVE  \E x \in S : \A y \in S : x <= y
<1>1. PICK x \in S : \A y \in S : ~ (<<y, x>> \in OpToRel(<, Nat))
  BY NatLessThanWellFounded, WFMin
<1>2. \A y \in S : ~ (y < x)
  BY <1>1 DEF OpToRel
<1> QED BY <1>2

(* A frame carries its diffs in the order they came in; the diffs of two sets *)
(* that are in the same lane, of those in D and those that are not, come in   *)
(* the order of the sets; and a queue of frames has both in order.            *)
Rising(f) == \A i, j \in 1 .. Len(f.items) : i < j => f.items[i] < f.items[j]
InLanes(S, T, D) == \A x \in S, y \in T : (x \in D <=> y \in D) => x < y
Under(S, T) == InLanes(S, T, {})
Line(frames, D) ==
    /\ \A i \in 1 .. Len(frames) : Rising(frames[i])
    /\ \A i, j \in 1 .. Len(frames) : i < j => InLanes(ItemsOf(frames[i]), ItemsOf(frames[j]), D)

LEMMA UnderIsLess == \A S, T : Under(S, T) <=> \A x \in S, y \in T : x < y
BY DEF Under, InLanes

LEMMA InLanesParts ==
    ASSUME NEW S, NEW T, NEW S2, NEW T2, NEW D
    PROVE  /\ InLanes(S, T, D) /\ S2 \subseteq S /\ T2 \subseteq T => InLanes(S2, T2, D)
           /\ InLanes(S, T, D) /\ InLanes(S2, T, D) => InLanes(S \cup S2, T, D)
           /\ InLanes(S, T, D) /\ InLanes(S, T2, D) => InLanes(S, T \cup T2, D)
           /\ Under(S, T) => InLanes(S, T, D)
           /\ S = {} \/ T = {} => InLanes(S, T, D)
BY DEF InLanes, Under

(* Whether two sets are in order only depends on the lanes of their members. *)
LEMMA InLanesSame ==
    ASSUME NEW S, NEW T, NEW D, NEW E, \A x \in S \cup T : x \in D <=> x \in E, InLanes(S, T, D)
    PROVE  InLanes(S, T, E)
BY DEF InLanes

LEMMA HeldMember == \A s, x : x \in Held(s) <=> \E i \in 1 .. Len(s) : x \in ItemsOf(s[i])
BY DEF Held

LEMMA HeldEmpty == Held(<<>>) = {} /\ \A D : Line(<<>>, D)
<1>1. 1 .. Len(<<>>) = {}
  OBVIOUS
<1> QED BY <1>1 DEF Held, Line

LEMMA LineSame ==
    ASSUME NEW s \in Seq(Frames), NEW D, NEW E, \A x \in Held(s) : x \in D <=> x \in E, Line(s, D)
    PROVE  Line(s, E)
<1>1. ASSUME NEW i \in 1 .. Len(s), NEW j \in 1 .. Len(s), i < j
      PROVE  InLanes(ItemsOf(s[i]), ItemsOf(s[j]), E)
  <2>1. \A x \in ItemsOf(s[i]) \cup ItemsOf(s[j]) : x \in D <=> x \in E
    BY HeldMember
  <2>2. InLanes(ItemsOf(s[i]), ItemsOf(s[j]), D)
    BY <1>1 DEF Line
  <2> QED BY <2>1, <2>2, InLanesSame
<1> QED BY <1>1 DEF Line

LEMMA FrameFacts ==
    ASSUME NEW f \in Frames
    PROVE  /\ f.items \in Seq(Items) /\ Len(f.items) \in Nat
           /\ \A i \in 1 .. Len(f.items) : f.items[i] \in Items
           /\ ItemsOf(f) \subseteq Items
           /\ f.items = <<>> => ItemsOf(f) = {} /\ Rising(f)
<1>1. f.items \in Seq(Items)
  BY DEF Frames
<1>2. Len(f.items) \in Nat /\ \A i \in 1 .. Len(f.items) : f.items[i] \in Items
  BY <1>1, LenProperties
<1>3. f.items = <<>> => Len(f.items) = 0
  OBVIOUS
<1> QED BY <1>1, <1>2, <1>3 DEF ItemsOf, Rising

LEMMA NoFrameFacts == NoFrame \in Frames /\ ItemsOf(NoFrame) = {} /\ Rising(NoFrame)
<1>1. NoFrame \in Frames /\ NoFrame.items = <<>>
  BY DEF NoFrame, Frames
<1> QED BY <1>1, FrameFacts

LEMMA OneItemFrame ==
    ASSUME NEW m \in BOOLEAN, NEW n \in Items
    PROVE  LET f == [merges |-> m, items |-> <<n>>]
           IN  f \in Frames /\ ItemsOf(f) = {n} /\ Rising(f)
<1> DEFINE f == [merges |-> m, items |-> <<n>>]
<1>1. f \in Frames /\ f.items = <<n>>
  BY DEF Frames
<1>2. Len(<<n>>) = 1 /\ <<n>>[1] = n
  OBVIOUS
<1>3. 1 .. Len(f.items) = {1} /\ f.items[1] = n
  BY <1>1, <1>2
<1> QED BY <1>1, <1>3 DEF ItemsOf, Rising

(* Merging two frames keeps their diffs, and their order. *)
LEMMA MergedFrame ==
    ASSUME NEW f \in Frames, NEW g \in Frames
    PROVE  /\ Merged(f, g) \in Frames
           /\ ItemsOf(Merged(f, g)) = ItemsOf(f) \cup ItemsOf(g)
           /\ Rising(f) /\ Rising(g) /\ Under(ItemsOf(f), ItemsOf(g)) => Rising(Merged(f, g))
<1> DEFINE a == f.items  b == g.items  c == a \o b
<1>1. a \in Seq(Items) /\ b \in Seq(Items) /\ Len(a) \in Nat /\ Len(b) \in Nat
  BY FrameFacts
<1>2. /\ c \in Seq(Items) /\ Len(c) = Len(a) + Len(b)
      /\ \A i \in 1 .. Len(a) + Len(b) : c[i] = IF i <= Len(a) THEN a[i] ELSE b[i - Len(a)]
  BY <1>1, ConcatProperties
<1>3. Merged(f, g) \in Frames /\ Merged(f, g).items = c
  BY <1>2 DEF Merged, Frames
<1> HIDE DEF a, b, c
<1>4. \A i \in 1 .. Len(a) : i \in 1 .. Len(c) /\ c[i] = a[i]
  BY <1>1, <1>2
<1>5. ASSUME NEW i \in 1 .. Len(b)
      PROVE  i + Len(a) \in 1 .. Len(c) /\ c[i + Len(a)] = b[i]
  <2>1. /\ i + Len(a) \in 1 .. Len(a) + Len(b) /\ ~ (i + Len(a) <= Len(a))
        /\ (i + Len(a)) - Len(a) = i
    BY <1>1
  <2> QED BY <1>2, <2>1
<1>6. \A i \in 1 .. Len(c) : \/ i \in 1 .. Len(a) /\ c[i] = a[i]
                             \/ i - Len(a) \in 1 .. Len(b) /\ c[i] = b[i - Len(a)] /\ i > Len(a)
  <2> SUFFICES ASSUME NEW i \in 1 .. Len(c)
               PROVE  \/ i \in 1 .. Len(a) /\ c[i] = a[i]
                      \/ i - Len(a) \in 1 .. Len(b) /\ c[i] = b[i - Len(a)] /\ i > Len(a)
    OBVIOUS
  <2>1. i \in 1 .. Len(a) + Len(b)
    BY <1>2
  <2>2. CASE i <= Len(a)
    BY <1>1, <1>2, <2>1, <2>2
  <2>3. CASE ~ (i <= Len(a))
    <3>1. c[i] = b[i - Len(a)]
      BY <1>2, <2>1, <2>3
    <3>2. i - Len(a) \in 1 .. Len(b) /\ i > Len(a)
      BY <1>1, <2>1, <2>3
    <3> QED BY <3>1, <3>2
  <2> QED BY <2>2, <2>3
<1>7. ItemsOf(Merged(f, g)) = {c[i] : i \in 1 .. Len(c)}
  BY <1>3 DEF ItemsOf
<1>8. {c[i] : i \in 1 .. Len(c)} = {a[i] : i \in 1 .. Len(a)} \cup {b[i] : i \in 1 .. Len(b)}
  <2>1. ASSUME NEW i \in 1 .. Len(c)
        PROVE  c[i] \in {a[k] : k \in 1 .. Len(a)} \cup {b[k] : k \in 1 .. Len(b)}
    BY <1>6
  <2>2. ASSUME NEW i \in 1 .. Len(a) PROVE a[i] \in {c[k] : k \in 1 .. Len(c)}
    BY <1>4
  <2>3. ASSUME NEW i \in 1 .. Len(b) PROVE b[i] \in {c[k] : k \in 1 .. Len(c)}
    BY <1>5
  <2> QED BY <2>1, <2>2, <2>3
<1>9. ASSUME Rising(f), Rising(g), Under(ItemsOf(f), ItemsOf(g))
      PROVE  Rising(Merged(f, g))
  <2>1. \A i \in 1 .. Len(a), j \in 1 .. Len(b) : a[i] < b[j]
    BY <1>9, UnderIsLess DEF ItemsOf, a, b
  <2>2. \A i, j \in 1 .. Len(a) : i < j => a[i] < a[j]
    BY <1>9 DEF Rising, a
  <2>3. \A i, j \in 1 .. Len(b) : i < j => b[i] < b[j]
    BY <1>9 DEF Rising, b
  <2>4. ASSUME NEW i \in 1 .. Len(c), NEW j \in 1 .. Len(c), i < j
        PROVE  c[i] < c[j]
    <3>1. CASE i \in 1 .. Len(a) /\ j \in 1 .. Len(a)
      BY <1>4, <2>2, <2>4, <3>1
    <3>2. CASE i \in 1 .. Len(a) /\ j \notin 1 .. Len(a)
      BY <1>4, <1>6, <2>1, <2>4, <3>2
    <3>3. CASE i \notin 1 .. Len(a) /\ j \notin 1 .. Len(a)
      <4>1. /\ i - Len(a) \in 1 .. Len(b) /\ c[i] = b[i - Len(a)]
            /\ j - Len(a) \in 1 .. Len(b) /\ c[j] = b[j - Len(a)]
        BY <1>6, <3>3
      <4>2. i - Len(a) < j - Len(a)
        BY <1>1, <2>4
      <4> QED BY <2>3, <4>1, <4>2
    <3>4. CASE i \notin 1 .. Len(a) /\ j \in 1 .. Len(a)
      BY <1>1, <1>6, <2>4, <3>4
    <3> QED BY <3>1, <3>2, <3>3, <3>4
  <2> QED BY <1>3, <2>4 DEF Rising
<1> QED BY <1>3, <1>7, <1>8, <1>9 DEF ItemsOf, a, b

LEMMA AppendFrame ==
    ASSUME NEW s \in Seq(Frames), NEW f \in Frames
    PROVE  /\ Append(s, f) \in Seq(Frames) /\ Len(Append(s, f)) = Len(s) + 1
           /\ Held(Append(s, f)) = Held(s) \cup ItemsOf(f)
           /\ \A D : Line(s, D) /\ Rising(f) /\ InLanes(Held(s), ItemsOf(f), D)
                         => Line(Append(s, f), D)
<1> DEFINE t == Append(s, f)
<1>1. /\ t \in Seq(Frames) /\ Len(t) = Len(s) + 1 /\ Len(s) \in Nat
      /\ (\A i \in 1 .. Len(s) : t[i] = s[i]) /\ t[Len(s) + 1] = f
  BY AppendProperties, LenProperties
<1> HIDE DEF t
<1>2. \A i \in 1 .. Len(t) : (i \in 1 .. Len(s) /\ t[i] = s[i]) \/ (i = Len(s) + 1 /\ t[i] = f)
  BY <1>1
<1>3. ASSUME NEW x PROVE x \in Held(t) <=> x \in Held(s) \cup ItemsOf(f)
  <2>1. ASSUME x \in Held(t) PROVE x \in Held(s) \cup ItemsOf(f)
    BY <1>2, <2>1, HeldMember
  <2>2. ASSUME x \in Held(s) PROVE x \in Held(t)
    <3>1. PICK i \in 1 .. Len(s) : x \in ItemsOf(s[i])
      BY <2>2, HeldMember
    <3>2. i \in 1 .. Len(t) /\ t[i] = s[i]
      BY <1>1
    <3> QED BY <3>1, <3>2, HeldMember
  <2>3. ASSUME x \in ItemsOf(f) PROVE x \in Held(t)
    <3>1. Len(s) + 1 \in 1 .. Len(t)
      BY <1>1
    <3> QED BY <1>1, <2>3, <3>1, HeldMember
  <2> QED BY <2>1, <2>2, <2>3
<1>4. ASSUME NEW D, Line(s, D), Rising(f), InLanes(Held(s), ItemsOf(f), D)
      PROVE  Line(t, D)
  <2>1. \A i \in 1 .. Len(t) : Rising(t[i])
    BY <1>2, <1>4 DEF Line
  <2>2. ASSUME NEW i \in 1 .. Len(t), NEW j \in 1 .. Len(t), i < j
        PROVE  InLanes(ItemsOf(t[i]), ItemsOf(t[j]), D)
    <3>1. i \in 1 .. Len(s) /\ t[i] = s[i]
      BY <1>1, <1>2, <2>2
    <3>2. CASE j \in 1 .. Len(s) /\ t[j] = s[j]
      BY <1>4, <2>2, <3>1, <3>2 DEF Line
    <3>3. CASE t[j] = f
      <4>1. ItemsOf(s[i]) \subseteq Held(s)
        BY <3>1, HeldMember
      <4> QED BY <1>4, <3>1, <3>3, <4>1, InLanesParts
    <3> QED BY <1>2, <3>2, <3>3
  <2> QED BY <2>1, <2>2 DEF Line
<1> QED BY <1>1, <1>3, <1>4 DEF t

(* Taking the first k frames of a queue. *)
FirstOf(s, k) == UNION {ItemsOf(s[i]) : i \in 1 .. k}

LEMMA RestOfLine ==
    ASSUME NEW s \in Seq(Frames), NEW k \in 0 .. Len(s)
    PROVE  LET t == SubSeq(s, k + 1, Len(s))
           IN  /\ t \in Seq(Frames) /\ Len(t) = Len(s) - k
               /\ Held(s) = FirstOf(s, k) \cup Held(t)
               /\ \A D : Line(s, D) => Line(t, D) /\ InLanes(FirstOf(s, k), Held(t), D)
<1> DEFINE t == SubSeq(s, k + 1, Len(s))
<1>1. Len(s) \in Nat /\ \A i \in 1 .. Len(s) : s[i] \in Frames
  BY LenProperties
<1>2. /\ t \in Seq(Frames) /\ Len(t) = Len(s) - k
      /\ \A i \in 1 .. Len(t) : i + k \in 1 .. Len(s) /\ t[i] = s[i + k]
  <2>1. k + 1 \in Int /\ Len(s) \in Int /\ \A i \in (k + 1) .. Len(s) : s[i] \in Frames
    BY <1>1
  <2>2. /\ t \in Seq(Frames) /\ Len(t) = IF k + 1 <= Len(s) THEN Len(s) - (k + 1) + 1 ELSE 0
        /\ \A i \in 1 .. Len(s) - (k + 1) + 1 : t[i] = s[k + 1 + i - 1]
    BY <2>1, SubSeqProperties
  <2>3. Len(t) = Len(s) - k
    BY <1>1, <2>2
  <2>4. ASSUME NEW i \in 1 .. Len(t) PROVE i + k \in 1 .. Len(s) /\ t[i] = s[i + k]
    <3>1. i \in 1 .. Len(s) - (k + 1) + 1 /\ k + 1 + i - 1 = i + k /\ i + k \in 1 .. Len(s)
      BY <1>1, <2>3
    <3> QED BY <2>2, <3>1
  <2> QED BY <2>2, <2>3, <2>4
<1> HIDE DEF t
<1>3. ASSUME NEW x PROVE x \in Held(s) <=> x \in FirstOf(s, k) \cup Held(t)
  <2>1. ASSUME x \in Held(s) PROVE x \in FirstOf(s, k) \cup Held(t)
    <3>1. PICK i \in 1 .. Len(s) : x \in ItemsOf(s[i])
      BY <2>1, HeldMember
    <3>2. CASE i <= k
      <4>1. i \in 1 .. k
        BY <1>1, <3>2
      <4> QED BY <3>1, <4>1 DEF FirstOf
    <3>3. CASE i > k
      <4>1. i - k \in 1 .. Len(t) /\ (i - k) + k = i
        BY <1>1, <1>2, <3>3
      <4>2. x \in ItemsOf(t[i - k])
        BY <1>2, <3>1, <4>1
      <4> QED BY <4>1, <4>2, HeldMember
    <3> QED BY <1>1, <3>2, <3>3
  <2>2. ASSUME x \in FirstOf(s, k) PROVE x \in Held(s)
    <3>1. PICK i \in 1 .. k : x \in ItemsOf(s[i])
      BY <2>2 DEF FirstOf
    <3>2. i \in 1 .. Len(s)
      BY <1>1
    <3> QED BY <3>1, <3>2, HeldMember
  <2>3. ASSUME x \in Held(t) PROVE x \in Held(s)
    <3>1. PICK i \in 1 .. Len(t) : x \in ItemsOf(t[i])
      BY <2>3, HeldMember
    <3> QED BY <1>2, <3>1, HeldMember
  <2> QED BY <2>1, <2>2, <2>3
<1>4. ASSUME NEW D, Line(s, D) PROVE Line(t, D) /\ InLanes(FirstOf(s, k), Held(t), D)
  <2>1. \A i \in 1 .. Len(t) : Rising(t[i])
    BY <1>2, <1>4 DEF Line
  <2>2. ASSUME NEW i \in 1 .. Len(t), NEW j \in 1 .. Len(t), i < j
        PROVE  InLanes(ItemsOf(t[i]), ItemsOf(t[j]), D)
    <3>1. i + k < j + k
      BY <1>1, <1>2, <2>2
    <3> QED BY <1>2, <1>4, <3>1 DEF Line
  <2>3. ASSUME NEW x \in FirstOf(s, k), NEW y \in Held(t), x \in D <=> y \in D
        PROVE  x < y
    <3>1. PICK i \in 1 .. k : x \in ItemsOf(s[i])
      BY DEF FirstOf
    <3>2. PICK j \in 1 .. Len(t) : y \in ItemsOf(t[j])
      BY HeldMember
    <3>3. i \in 1 .. Len(s) /\ j + k \in 1 .. Len(s) /\ i < j + k /\ y \in ItemsOf(s[j + k])
      BY <1>1, <1>2, <3>2
    <3>4. InLanes(ItemsOf(s[i]), ItemsOf(s[j + k]), D)
      BY <1>4, <3>3 DEF Line
    <3> QED BY <2>3, <3>1, <3>3, <3>4 DEF InLanes
  <2> QED BY <2>1, <2>2, <2>3 DEF Line, InLanes
<1> QED BY <1>2, <1>3, <1>4 DEF t

LEMMA TailOfLine ==
    ASSUME NEW s \in Seq(Frames), s # <<>>
    PROVE  /\ Head(s) \in Frames /\ Tail(s) \in Seq(Frames) /\ Len(Tail(s)) = Len(s) - 1
           /\ Held(s) = ItemsOf(Head(s)) \cup Held(Tail(s))
           /\ \A D : Line(s, D) => /\ Rising(Head(s)) /\ Line(Tail(s), D)
                                   /\ InLanes(ItemsOf(Head(s)), Held(Tail(s)), D)
<1>1. Len(s) \in Nat /\ Len(s) > 0
  BY LenProperties, EmptySeq
<1>2. Tail(s) = SubSeq(s, 1 + 1, Len(s)) /\ 1 \in 0 .. Len(s) /\ Head(s) = s[1] /\ 1 \in 1 .. Len(s)
  BY <1>1, TailIsSubSeq
<1>3. Head(s) \in Frames
  BY HeadTailProperties
<1>4. FirstOf(s, 1) = ItemsOf(Head(s))
  <2>1. 1 .. 1 = {1}
    OBVIOUS
  <2> QED BY <1>2, <2>1 DEF FirstOf
<1>5. \A D : Line(s, D) => Rising(Head(s))
  BY <1>2 DEF Line
<1> QED BY <1>2, <1>3, <1>4, <1>5, RestOfLine

(* A frame merged into the last one of a queue. *)
LEMMA MergedIntoLast ==
    ASSUME NEW s \in Seq(Frames), NEW f \in Frames, Len(s) > 0
    PROVE  LET t == [s EXCEPT ![Len(s)] = Merged(@, f)]
           IN  /\ t \in Seq(Frames) /\ Len(t) = Len(s)
               /\ Held(t) = Held(s) \cup ItemsOf(f)
               /\ Line(s, {}) /\ Rising(f) /\ Under(Held(s), ItemsOf(f)) => Line(t, {})
<1> DEFINE n == Len(s)  m == Merged(s[n], f)  t == [s EXCEPT ![n] = m]
<1>1. n \in 1 .. Len(s) /\ Len(s) \in Nat /\ s[n] \in Frames
  BY LenProperties
<1>2. m \in Frames /\ ItemsOf(m) = ItemsOf(s[n]) \cup ItemsOf(f)
      /\ (Rising(s[n]) /\ Rising(f) /\ Under(ItemsOf(s[n]), ItemsOf(f)) => Rising(m))
  BY <1>1, MergedFrame
<1>3. t = [s EXCEPT ![Len(s)] = Merged(@, f)]
  OBVIOUS
<1>4. /\ t \in Seq(Frames) /\ Len(t) = Len(s)
      /\ \A j \in 1 .. Len(s) : t[j] = IF j = n THEN m ELSE s[j]
  BY <1>1, <1>2, ExceptSeq
<1> HIDE DEF n, m, t
<1>5. ASSUME NEW x PROVE x \in Held(t) <=> x \in Held(s) \cup ItemsOf(f)
  <2>1. x \in Held(t) <=> \E i \in 1 .. Len(s) : x \in ItemsOf(t[i])
    BY <1>4, HeldMember
  <2>2. x \in Held(s) <=> \E i \in 1 .. Len(s) : x \in ItemsOf(s[i])
    BY HeldMember
  <2> QED BY <1>1, <1>2, <1>4, <2>1, <2>2
<1>6. ASSUME Line(s, {}), Rising(f), Under(Held(s), ItemsOf(f)) PROVE Line(t, {})
  <2>1. ItemsOf(s[n]) \subseteq Held(s)
    BY <1>1, HeldMember
  <2>2. Under(ItemsOf(s[n]), ItemsOf(f)) /\ Rising(s[n])
    BY <1>1, <1>6, <2>1, UnderIsLess DEF Line
  <2>3. \A i \in 1 .. Len(t) : Rising(t[i])
    BY <1>2, <1>4, <1>6, <2>2 DEF Line
  <2>4. ASSUME NEW i \in 1 .. Len(t), NEW j \in 1 .. Len(t), i < j
        PROVE  InLanes(ItemsOf(t[i]), ItemsOf(t[j]), {})
    <3>1. t[i] = s[i] /\ i \in 1 .. Len(s)
      BY <1>1, <1>4, <2>4 DEF n
    <3>2. CASE j # n
      BY <1>4, <1>6, <2>4, <3>1, <3>2 DEF Line
    <3>3. CASE j = n
      <4>1. InLanes(ItemsOf(s[i]), ItemsOf(s[n]), {})
        BY <1>1, <1>6, <2>4, <3>1, <3>3 DEF Line
      <4>2. ItemsOf(s[i]) \subseteq Held(s)
        BY <3>1, HeldMember
      <4>3. InLanes(ItemsOf(s[i]), ItemsOf(f), {})
        BY <1>6, <4>2 DEF Under, InLanes
      <4> QED BY <1>1, <1>2, <1>4, <3>1, <3>3, <4>1, <4>3, InLanesParts
    <3> QED BY <3>2, <3>3
  <2> QED BY <2>3, <2>4 DEF Line
<1> QED BY <1>3, <1>4, <1>5, <1>6

(* What is processed, as a sequence of diffs. *)
DiffsOf(s) == {s[i] : i \in 1 .. Len(s)}
Ordered(s, D) ==
    \A i, j \in 1 .. Len(s) : i < j /\ (s[i] \in D <=> s[j] \in D) => s[i] < s[j]

LEMMA FrameProcessed ==
    ASSUME NEW s \in Seq(Items), NEW f \in Frames
    PROVE  /\ s \o f.items \in Seq(Items)
           /\ DiffsOf(s \o f.items) = DiffsOf(s) \cup ItemsOf(f)
           /\ \A D : Ordered(s, D) /\ Rising(f) /\ InLanes(DiffsOf(s), ItemsOf(f), D)
                         => Ordered(s \o f.items, D)
<1> DEFINE b == f.items  c == s \o b
<1>1. b \in Seq(Items) /\ Len(s) \in Nat /\ Len(b) \in Nat
  BY FrameFacts, LenProperties
<1>2. /\ c \in Seq(Items) /\ Len(c) = Len(s) + Len(b)
      /\ \A i \in 1 .. Len(s) + Len(b) : c[i] = IF i <= Len(s) THEN s[i] ELSE b[i - Len(s)]
  BY <1>1, ConcatProperties
<1>3. ItemsOf(f) = {b[i] : i \in 1 .. Len(b)}
  BY DEF ItemsOf
<1> HIDE DEF b, c
<1>4. \A i \in 1 .. Len(s) : i \in 1 .. Len(c) /\ c[i] = s[i]
  BY <1>1, <1>2
<1>5. ASSUME NEW i \in 1 .. Len(b)
      PROVE  i + Len(s) \in 1 .. Len(c) /\ c[i + Len(s)] = b[i]
  <2>1. /\ i + Len(s) \in 1 .. Len(s) + Len(b) /\ ~ (i + Len(s) <= Len(s))
        /\ (i + Len(s)) - Len(s) = i
    BY <1>1
  <2> QED BY <1>2, <2>1
<1>6. ASSUME NEW i \in 1 .. Len(c)
      PROVE  \/ i \in 1 .. Len(s) /\ c[i] = s[i]
             \/ i - Len(s) \in 1 .. Len(b) /\ c[i] = b[i - Len(s)] /\ i > Len(s)
  <2>1. i \in 1 .. Len(s) + Len(b)
    BY <1>2
  <2>2. CASE i <= Len(s)
    BY <1>1, <1>2, <2>1, <2>2
  <2>3. CASE ~ (i <= Len(s))
    <3>1. c[i] = b[i - Len(s)]
      BY <1>2, <2>1, <2>3
    <3>2. i - Len(s) \in 1 .. Len(b) /\ i > Len(s)
      BY <1>1, <2>1, <2>3
    <3> QED BY <3>1, <3>2
  <2> QED BY <2>2, <2>3
<1>7. DiffsOf(c) = DiffsOf(s) \cup ItemsOf(f)
  <2>1. ASSUME NEW i \in 1 .. Len(c) PROVE c[i] \in DiffsOf(s) \cup ItemsOf(f)
    BY <1>3, <1>6 DEF DiffsOf
  <2>2. ASSUME NEW i \in 1 .. Len(s) PROVE s[i] \in DiffsOf(c)
    BY <1>4 DEF DiffsOf
  <2>3. ASSUME NEW i \in 1 .. Len(b) PROVE b[i] \in DiffsOf(c)
    BY <1>5 DEF DiffsOf
  <2> QED BY <1>3, <2>1, <2>2, <2>3 DEF DiffsOf
<1>8. ASSUME NEW D, Ordered(s, D), Rising(f), InLanes(DiffsOf(s), ItemsOf(f), D)
      PROVE  Ordered(c, D)
  <2>1. \A i, j \in 1 .. Len(b) : i < j => b[i] < b[j]
    BY <1>8 DEF Rising, b
  <2>2. \A i \in 1 .. Len(s), j \in 1 .. Len(b) : (s[i] \in D <=> b[j] \in D) => s[i] < b[j]
    BY <1>3, <1>8 DEF InLanes, DiffsOf
  <2>3. ASSUME NEW i \in 1 .. Len(c), NEW j \in 1 .. Len(c), i < j, c[i] \in D <=> c[j] \in D
        PROVE  c[i] < c[j]
    <3>1. CASE i \in 1 .. Len(s) /\ j \in 1 .. Len(s)
      BY <1>4, <1>8, <2>3, <3>1 DEF Ordered
    <3>2. CASE i \in 1 .. Len(s) /\ j \notin 1 .. Len(s)
      BY <1>4, <1>6, <2>2, <2>3, <3>2
    <3>3. CASE i \notin 1 .. Len(s) /\ j \notin 1 .. Len(s)
      <4>1. /\ i - Len(s) \in 1 .. Len(b) /\ c[i] = b[i - Len(s)]
            /\ j - Len(s) \in 1 .. Len(b) /\ c[j] = b[j - Len(s)]
        BY <1>6, <3>3
      <4>2. i - Len(s) < j - Len(s)
        BY <1>1, <2>3
      <4> QED BY <2>1, <4>1, <4>2
    <3>4. CASE i \notin 1 .. Len(s) /\ j \in 1 .. Len(s)
      BY <1>1, <1>6, <2>3, <3>4
    <3> QED BY <3>1, <3>2, <3>3, <3>4
  <2> QED BY <2>3 DEF Ordered
<1> QED BY <1>2, <1>7, <1>8 DEF b, c

-----------------------------------------------------------------------------
(***************************************************************************)
(* The batch a drain task takes: BatchOf is defined by recursion over the  *)
(* number of frames.  That a function obeys its recursive definition, and  *)
(* what it computes for each number, follow from there being no least      *)
(* number for which they do not.                                           *)
(***************************************************************************)
BatchStep(g, k) ==
    IF k = 0 THEN NoFrame ELSE IF k = 1 THEN backlog[1] ELSE Merged(g[k - 1], backlog[k])

LEMMA BatchOfStep == BatchOf = [k \in 0 .. BacklogMax |-> BatchStep(BatchOf, k)]
<1> DEFINE Fits(g, n) == g = [k \in 0 .. n |-> BatchStep(g, k)]
           Bad == {n \in Nat : ~ \E g : Fits(g, n)}
<1>1. Bad = {}
  <2> SUFFICES ASSUME Bad # {} PROVE FALSE
    OBVIOUS
  <2>1. PICK n \in Bad : \A m \in Bad : n <= m
    BY LeastElement, Bad \in SUBSET Nat
  <2>2. n # 0
    <3> SUFFICES ASSUME n = 0 PROVE FALSE
      OBVIOUS
    <3> DEFINE g == [k \in 0 .. 0 |-> NoFrame]
    <3>1. \A k \in 0 .. 0 : BatchStep(g, k) = NoFrame
      BY DEF BatchStep
    <3>2. Fits(g, 0)
      BY <3>1
    <3> QED BY <3>2, <2>1
  <2>3. n - 1 \in Nat /\ n - 1 \notin Bad /\ n \in Nat
    BY <2>1, <2>2
  <2>4. PICK g : Fits(g, n - 1)
    BY <2>3
  <2> DEFINE h == [k \in 0 .. n |-> IF k < n THEN g[k] ELSE BatchStep(g, n)]
  <2>5. \A k \in 0 .. (n - 1) : g[k] = BatchStep(g, k)
    BY <2>4
  <2>6. ASSUME NEW k \in 0 .. n PROVE h[k] = BatchStep(h, k)
    <3>1. k # 0 => k - 1 \in 0 .. n /\ k - 1 < n
      BY <2>3
    <3>2. k # 0 => h[k - 1] = g[k - 1]
      BY <3>1
    <3>3. BatchStep(h, k) = BatchStep(g, k)
      BY <3>2 DEF BatchStep
    <3>4. CASE k < n
      <4>1. k \in 0 .. (n - 1)
        BY <2>3, <3>4
      <4> QED BY <2>5, <3>3, <3>4, <4>1
    <3>5. CASE ~ (k < n)
      <4>1. k = n
        BY <2>3, <3>5
      <4> QED BY <2>3, <3>3, <4>1
    <3> QED BY <3>4, <3>5
  <2>7. Fits(h, n)
    BY <2>6
  <2> QED BY <2>1, <2>7
<1>2. BacklogMax \in Nat
  BY BackpressureAssumption
<1>3. \E g : Fits(g, BacklogMax)
  BY <1>1, <1>2
<1>4. \E g : g = [k \in 0 .. BacklogMax |->
                    IF k = 0 THEN NoFrame ELSE IF k = 1 THEN backlog[1] ELSE Merged(g[k - 1], backlog[k])]
  BY <1>3 DEF BatchStep
<1>5. BatchOf = [k \in 0 .. BacklogMax |->
                    IF k = 0 THEN NoFrame ELSE IF k = 1 THEN backlog[1] ELSE Merged(BatchOf[k - 1], backlog[k])]
  BY <1>4 DEF BatchOf
<1> QED BY <1>5 DEF BatchStep

(* The batch has what the frames it is made of had, in order. *)
LEMMA BatchOfFrames ==
    ASSUME backlog \in Seq(Frames), Len(backlog) <= BacklogMax,
           NEW n \in 1 .. Len(backlog)
    PROVE  /\ BatchOf[n] \in Frames
           /\ ItemsOf(BatchOf[n]) = FirstOf(backlog, n)
           /\ Line(backlog, {}) => Rising(BatchOf[n])
<1> DEFINE Good(k) == /\ BatchOf[k] \in Frames
                      /\ ItemsOf(BatchOf[k]) = FirstOf(backlog, k)
                      /\ Line(backlog, {}) => Rising(BatchOf[k])
           Bad == {k \in 1 .. Len(backlog) : ~ Good(k)}
<1>1. Len(backlog) \in Nat /\ BacklogMax \in Nat /\ \A i \in 1 .. Len(backlog) : backlog[i] \in Frames
  BY BackpressureAssumption, LenProperties
<1>2. ASSUME NEW k \in 1 .. Len(backlog) PROVE BatchOf[k] = BatchStep(BatchOf, k)
  <2>1. k \in 0 .. BacklogMax
    BY <1>1
  <2> QED BY <2>1, BatchOfStep
<1>3. Bad = {}
  <2> SUFFICES ASSUME Bad # {} PROVE FALSE
    OBVIOUS
  <2>1. Bad \in SUBSET Nat
    BY <1>1
  <2>2. PICK k \in Bad : \A m \in Bad : k <= m
    BY <2>1, LeastElement
  <2>3. k \in 1 .. Len(backlog) /\ ~ Good(k)
    BY <2>2
  <2>4. k # 1
    <3> SUFFICES ASSUME k = 1 PROVE Good(k)
      BY <2>3
    <3>1. BatchOf[k] = backlog[1] /\ backlog[1] \in Frames
      BY <1>1, <1>2, <2>3 DEF BatchStep
    <3>2. 1 .. k = {1}
      OBVIOUS
    <3>3. FirstOf(backlog, k) = ItemsOf(backlog[1])
      BY <3>2 DEF FirstOf
    <3>4. Line(backlog, {}) => Rising(backlog[1])
      BY <2>3 DEF Line
    <3> QED BY <3>1, <3>3, <3>4
  <2>5. k - 1 \in 1 .. Len(backlog) /\ k - 1 \notin Bad
    BY <1>1, <2>2, <2>3, <2>4
  <2>6. Good(k - 1)
    BY <2>5
  <2>7. BatchOf[k] = Merged(BatchOf[k - 1], backlog[k]) /\ backlog[k] \in Frames
    BY <1>1, <1>2, <2>3, <2>4 DEF BatchStep
  <2>8. /\ BatchOf[k] \in Frames
        /\ ItemsOf(BatchOf[k]) = FirstOf(backlog, k - 1) \cup ItemsOf(backlog[k])
    BY <2>6, <2>7, MergedFrame
  <2>9. FirstOf(backlog, k) = FirstOf(backlog, k - 1) \cup ItemsOf(backlog[k])
    <3>1. 1 .. k = (1 .. (k - 1)) \cup {k}
      BY <1>1, <2>3
    <3> QED BY <3>1 DEF FirstOf
  <2>10. ASSUME Line(backlog, {}) PROVE Rising(BatchOf[k])
    <3>1. Rising(BatchOf[k - 1]) /\ Rising(backlog[k])
      BY <2>3, <2>6, <2>10 DEF Line
    <3>2. ASSUME NEW x \in FirstOf(backlog, k - 1), NEW y \in ItemsOf(backlog[k]) PROVE x < y
      <4>1. PICK i \in 1 .. (k - 1) : x \in ItemsOf(backlog[i])
        BY DEF FirstOf
      <4>2. i \in 1 .. Len(backlog) /\ i < k
        BY <1>1, <2>3
      <4>3. InLanes(ItemsOf(backlog[i]), ItemsOf(backlog[k]), {})
        BY <2>3, <2>10, <4>2 DEF Line
      <4> QED BY <4>1, <4>3 DEF InLanes
    <3>3. Under(ItemsOf(BatchOf[k - 1]), ItemsOf(backlog[k]))
      BY <2>6, <3>2, UnderIsLess
    <3> QED BY <2>6, <2>7, <3>1, <3>3, MergedFrame
  <2> QED BY <2>3, <2>8, <2>9, <2>10
<1> QED BY <1>3

(* A batch has at least one frame of a backlog that has any. *)
LEMMA BatchLenInRange ==
    ASSUME backlog \in Seq(Frames), backlog # <<>>
    PROVE  BatchLen \in 1 .. Len(backlog)
<1> DEFINE fits(k) == \A i \in 2 .. k : Merges(backlog[1], backlog[i])
           Able == {k \in 1 .. Len(backlog) : k <= BatchMax /\ fits(k)}
           Left == {Len(backlog) - k : k \in Able}
<1>1. Len(backlog) \in Nat /\ Len(backlog) > 0 /\ BatchMax \in Nat \ {0}
  BY BackpressureAssumption, LenProperties, EmptySeq
<1>2. 1 \in Able
  <2>1. 2 .. 1 = {} /\ 1 \in 1 .. Len(backlog) /\ 1 <= BatchMax
    BY <1>1
  <2> QED BY <2>1
<1> HIDE DEF fits
<1>3. Left \in SUBSET Nat /\ Left # {}
  BY <1>1, <1>2
<1>4. PICK l \in Left : \A m \in Left : l <= m
  BY <1>3, LeastElement
<1>5. PICK k \in Able : l = Len(backlog) - k
  BY <1>4
<1>6. ASSUME NEW j \in 1 .. Len(backlog), j <= BatchMax /\ fits(j) PROVE j <= k
  <2>1. j \in Able
    BY <1>6
  <2>2. Len(backlog) - k <= Len(backlog) - j
    BY <1>4, <1>5, <2>1
  <2> QED BY <1>1, <1>5, <2>2
<1>7. \E n \in 1 .. Len(backlog) :
          /\ n <= BatchMax /\ fits(n)
          /\ \A j \in 1 .. Len(backlog) : j <= BatchMax /\ fits(j) => j <= n
  BY <1>5, <1>6
<1> QED BY <1>7 DEF BatchLen, fits

(* Whatever frames hold is a diff. *)
LEMMA HeldInItems ==
    ASSUME NEW s \in Seq(Frames)
    PROVE  Held(s) \subseteq Items
<1>1. \A i \in 1 .. Len(s) : s[i] \in Frames
  BY LenProperties
<1> QED BY <1>1, FrameFacts, HeldMember

-----------------------------------------------------------------------------
(***************************************************************************)
(* Types.                                                                  *)
(***************************************************************************)
LEMMA InitType == Init => TypeOK
<1> SUFFICES ASSUME Init PROVE TypeOK
  OBVIOUS
<1>1. channel \in Seq(Frames) /\ backlog \in Seq(Frames) /\ delivered \in Seq(Items)
  BY EmptySeq DEF Init
<1>2. Len(backlog) <= BacklogMax /\ received \in 0 .. MaxItems /\ conn \in 1 .. MaxConns
  BY BackpressureAssumption DEF Init
<1>3. frame \in Frames /\ batch \in [Drainers -> Frames]
  BY NoFrameFacts DEF Init
<1>4. at \in [Drainers -> {"none"} \cup Working \cup Finishing]
  BY DEF Init
<1>5. /\ {receiving, draining, overflowNotified, cut} \subseteq BOOLEAN
      /\ producer \in {"idle", "full", "swap"}
      /\ {lost, direct} \subseteq SUBSET Items /\ announced \subseteq 1 .. MaxConns
  BY DEF Init
<1> QED BY <1>1, <1>2, <1>3, <1>4, <1>5 DEF TypeOK

LEMMA NewItem == received \in 0 .. MaxItems /\ received < MaxItems => received + 1 \in Items
BY BackpressureAssumption DEF Items

LEMMA TypeNext == TypeOK /\ [Next]_vars => TypeOK'
<1> SUFFICES ASSUME TypeOK, [Next]_vars PROVE TypeOK'
  OBVIOUS
<1> USE DEF TypeOK
<1>1. CASE Reconnect
  <2>1. conn' \in 1 .. MaxConns /\ cut' \in BOOLEAN
    <3>1. conn \in 1 .. MaxConns /\ conn < MaxConns /\ conn' = conn + 1 /\ cut' = FALSE
      BY <1>1 DEF Reconnect
    <3>2. MaxConns \in Nat
      BY BackpressureAssumption
    <3>3. \A c, m \in Nat : c < m => c + 1 \in 1 .. m
      OBVIOUS
    <3>4. conn \in Nat
      BY <3>1, <3>2
    <3> QED BY <3>1, <3>2, <3>3, <3>4
  <2> QED BY <1>1, <2>1 DEF Reconnect, tasks
<1>2. CASE Enqueue
  <2>1. PICK m \in BOOLEAN :
          LET new == [merges |-> m, items |-> <<received + 1>>] IN
          \/ /\ lost' = lost \cup ItemsOf(new)
             /\ UNCHANGED <<channel, direct, producer, frame>>
          \/ /\ channel' = Append(channel, new)
             /\ direct' = direct \cup ItemsOf(new)
             /\ UNCHANGED <<lost, producer, frame>>
          \/ /\ frame' = new /\ producer' = "full"
             /\ UNCHANGED <<channel, lost, direct>>
    BY <1>2 DEF Enqueue
  <2> DEFINE new == [merges |-> m, items |-> <<received + 1>>]
  <2>2. received + 1 \in Items /\ received' \in 0 .. MaxItems
    BY <1>2, NewItem, BackpressureAssumption DEF Enqueue, Items
  <2>3. new \in Frames /\ ItemsOf(new) = {received + 1}
    BY <2>2, OneItemFrame
  <2> HIDE DEF new
  <2>4. /\ channel' = channel \/ channel' = Append(channel, new)
        /\ lost' = lost \/ lost' = lost \cup ItemsOf(new)
        /\ direct' = direct \/ direct' = direct \cup ItemsOf(new)
        /\ (producer' = producer /\ frame' = frame) \/ (producer' = "full" /\ frame' = new)
    BY <2>1 DEF new
  <2>5. channel' \in Seq(Frames)
    <3>1. channel \in Seq(Frames) /\ Append(channel, new) \in Seq(Frames)
      BY <2>3, AppendFrame
    <3> QED BY <2>4, <3>1
  <2>6. {lost', direct'} \subseteq SUBSET Items
    BY <2>2, <2>3, <2>4
  <2>7. producer' \in {"idle", "full", "swap"} /\ frame' \in Frames
    BY <2>3, <2>4
  <2>8. UNCHANGED <<receiving, backlog, draining, overflowNotified, at, batch,
                    conn, cut, delivered, announced>>
    BY <1>2 DEF Enqueue
  <2> QED BY <2>2, <2>5, <2>6, <2>7, <2>8
<1>3. CASE AddToBacklog
  <2>1. backlog' \in Seq(Frames) /\ Len(backlog') <= BacklogMax /\ lost' \in SUBSET Items
    <3>1. Len(backlog) \in Nat /\ BacklogMax \in Nat \ {0}
      BY BackpressureAssumption, LenProperties
    <3>2. CASE /\ Len(backlog) > 0
               /\ backlog' = [backlog EXCEPT ![Len(backlog)] = Merged(@, frame)] /\ lost' = lost
      BY <3>2, MergedIntoLast
    <3>3. CASE ~Full /\ backlog' = Append(backlog, frame) /\ lost' = lost
      BY <3>1, <3>3, AppendFrame DEF Full
    <3>4. CASE /\ Full /\ backlog' = Append(Tail(backlog), frame)
               /\ lost' = lost \cup ItemsOf(Head(backlog))
      <4>1. backlog # <<>> /\ Len(backlog) = BacklogMax
        BY <3>1, <3>4, EmptySeq DEF Full
      <4>2. /\ Tail(backlog) \in Seq(Frames) /\ Head(backlog) \in Frames
            /\ Len(Tail(backlog)) = Len(backlog) - 1
        BY <4>1, TailOfLine
      <4> QED BY <3>1, <3>4, <4>1, <4>2, AppendFrame, FrameFacts
    <3> QED BY <1>3, <3>2, <3>3, <3>4 DEF AddToBacklog
  <2>2. /\ {overflowNotified', cut'} \subseteq BOOLEAN /\ announced' \subseteq 1 .. MaxConns
        /\ producer' = "swap" /\ frame' = NoFrame
    BY <1>3 DEF AddToBacklog, NotifyOverflow, AlreadyNotified
  <2>3. UNCHANGED <<channel, receiving, draining, at, batch, received, conn, delivered, direct>>
    BY <1>3 DEF AddToBacklog
  <2> QED BY <2>1, <2>2, <2>3, NoFrameFacts
<1>4. CASE StartDraining
  BY <1>4 DEF StartDraining, source, Working
<1>5. CASE \E d \in Drainers : DrainStep(d)
  <2> PICK d \in Drainers : DrainStep(d)
    BY <1>5
  <2>1. CASE DrainTake(d)
    <3>1. CASE backlog = <<>>
      BY <2>1, <3>1 DEF DrainTake, Goto, source, Finishing
    <3>2. CASE backlog # <<>>
      <4>1. BatchLen \in 1 .. Len(backlog) /\ Len(backlog) \in Nat
        BY <3>2, BatchLenInRange, LenProperties
      <4>2. BatchOf[BatchLen] \in Frames
        BY <4>1, BatchOfFrames
      <4>3. LET t == SubSeq(backlog, BatchLen + 1, Len(backlog))
            IN  t \in Seq(Frames) /\ Len(t) = Len(backlog) - BatchLen
        BY <4>1, RestOfLine
      <4>4. /\ backlog' = SubSeq(backlog, BatchLen + 1, Len(backlog))
            /\ batch' = [batch EXCEPT ![d] = BatchOf[BatchLen]]
            /\ at' = [at EXCEPT ![d] = "send"]
        BY <2>1, <3>2 DEF DrainTake, Goto
      <4>5. backlog' \in Seq(Frames) /\ Len(backlog') <= BacklogMax
        BY <4>1, <4>3, <4>4, BackpressureAssumption
      <4>6. UNCHANGED <<channel, receiving, draining, overflowNotified, producer, frame,
                        source, delivered, lost, direct, announced>>
        BY <2>1 DEF DrainTake
      <4> QED BY <4>2, <4>4, <4>5, <4>6 DEF source, Working
    <3> QED BY <3>1, <3>2
  <2>2. CASE DrainSend(d)
    <3>1. batch[d] \in Frames
      OBVIOUS
    <3>2. channel' \in Seq(Frames) /\ batch' \in [Drainers -> Frames]
      BY <2>2, <3>1, AppendFrame, NoFrameFacts DEF DrainSend
    <3>3. at' \in [Drainers -> {"none"} \cup Working \cup Finishing]
      BY <2>2 DEF DrainSend, Goto, Working, Finishing
    <3>4. UNCHANGED <<receiving, backlog, draining, overflowNotified, producer, frame,
                      source, delivered, lost, direct, announced>>
      BY <2>2 DEF DrainSend
    <3> QED BY <3>2, <3>3, <3>4 DEF source
  <2>3. CASE DrainPush(d)
    <3>1. batch[d] \in Frames /\ ItemsOf(batch[d]) \subseteq Items
      BY FrameFacts
    <3>2. channel' \in Seq(Frames) /\ batch' \in [Drainers -> Frames] /\ lost' \in SUBSET Items
      BY <2>3, <3>1, AppendFrame, NoFrameFacts DEF DrainPush
    <3>3. at' \in [Drainers -> {"none"} \cup Working \cup Finishing]
      BY <2>3 DEF DrainPush, Goto, Working
    <3>4. UNCHANGED <<receiving, backlog, draining, overflowNotified, producer, frame,
                      source, delivered, direct, announced>>
      BY <2>3 DEF DrainPush
    <3> QED BY <3>2, <3>3, <3>4 DEF source
  <2>4. CASE DrainClosed(d)
    <3>1. batch[d] \in Frames /\ ItemsOf(batch[d]) \subseteq Items
      BY FrameFacts
    <3> QED BY <2>4, <3>1, NoFrameFacts DEF DrainClosed, Goto, Finishing, source
  <2>5. CASE DrainClear(d)
    <3>1. Held(backlog) \subseteq Items
      BY HeldInItems
    <3>2. lost' \in SUBSET Items /\ backlog' \in Seq(Frames) /\ Len(backlog') <= BacklogMax
      BY <2>5, <3>1, BackpressureAssumption DEF DrainClear
    <3> QED BY <2>5, <3>2 DEF DrainClear, Goto, source
  <2>6. CASE DrainStop(d) \/ DrainReset(d) \/ DrainRecheck(d) \/ DrainReswap(d)
    <3>1. at' \in [Drainers -> {"none"} \cup Working \cup Finishing]
      BY <2>6 DEF DrainStop, DrainReset, DrainRecheck, DrainReswap, Goto, Working, Finishing
    <3>2. {draining', overflowNotified'} \subseteq BOOLEAN
      BY <2>6 DEF DrainStop, DrainReset, DrainRecheck, DrainReswap
    <3>3. UNCHANGED <<channel, receiving, backlog, producer, frame, batch,
                      source, delivered, lost, direct, announced>>
      BY <2>6 DEF DrainStop, DrainReset, DrainRecheck, DrainReswap
    <3> QED BY <3>1, <3>2, <3>3 DEF source
  <2> QED
    BY <2>1, <2>2, <2>3, <2>4, <2>5, <2>6 DEF DrainStep
<1>6. CASE Process
  <2>1. Head(channel) \in Frames /\ Tail(channel) \in Seq(Frames)
    BY <1>6, TailOfLine DEF Process
  <2>2. channel' \in Seq(Frames) /\ delivered' \in Seq(Items)
    BY <1>6, <2>1, FrameProcessed DEF Process
  <2>3. at' \in [Drainers -> {"none"} \cup Working \cup Finishing]
    BY <1>6 DEF Process, Goto, Working
  <2>4. UNCHANGED <<receiving, backlog, draining, overflowNotified, producer, frame, batch,
                    source, lost, direct, announced>>
    BY <1>6 DEF Process
  <2> QED BY <2>2, <2>3, <2>4 DEF source
<1>7. CASE ReceiverEnds
  <2>1. Held(channel) \subseteq Items
    BY HeldInItems
  <2>2. lost' \in SUBSET Items /\ channel' \in Seq(Frames) /\ receiving' \in BOOLEAN
    BY <1>7, <2>1, EmptySeq DEF ReceiverEnds
  <2>3. at' \in [Drainers -> {"none"} \cup Working \cup Finishing]
    BY <1>7 DEF ReceiverEnds, Finishing
  <2> QED BY <1>7, <2>2, <2>3 DEF ReceiverEnds, source
<1>8. CASE UNCHANGED vars
  BY <1>8 DEF vars, tasks, source
<1> QED
  BY <1>1, <1>2, <1>3, <1>4, <1>5, <1>6, <1>7, <1>8 DEF Next

(* The variables of the message buffer have their types. *)
THEOREM BufferTyped == Spec => []TypeOK
BY InitType, TypeNext, PTL DEF Spec

-----------------------------------------------------------------------------
(***************************************************************************)
(* The way of the diffs.  P is processed, C in the channel, T taken by a   *)
(* drain task, B in the backlog, F with the callback and L lost; the first *)
(* n have been received, and those in D went to the channel directly.      *)
(* That no diff is in two places follows from the order they are in.       *)
(***************************************************************************)
Flow(P, C, T, B, F, L, D, n) ==
    /\ n \in Nat
    /\ P \cup C \cup T \cup B \cup F \cup L = 1 .. n
    /\ L \cap (P \cup C \cup T \cup B \cup F) = {}
    /\ D \subseteq 1 .. n
    /\ (T \cup B \cup F) \cap D = {}
    /\ InLanes(P, C, D)
    /\ Under((P \cup C) \ D, T \cup B \cup F)
    /\ Under(T, B)
    /\ Under(T \cup B, F)

LEMMA FlowArrives ==
    ASSUME NEW P, NEW C, NEW T, NEW B, NEW L, NEW D, NEW n, Flow(P, C, T, B, {}, L, D, n)
    PROVE  /\ Flow(P, C, T, B, {n + 1}, L, D, n + 1)
           /\ Flow(P, C \cup {n + 1}, T, B, {}, L, D \cup {n + 1}, n + 1)
           /\ Flow(P, C, T, B, {}, L \cup {n + 1}, D, n + 1)
<1>1. /\ n \in Nat /\ 1 .. (n + 1) = (1 .. n) \cup {n + 1} /\ n + 1 \notin 1 .. n
      /\ \A x \in 1 .. n : x < n + 1
  BY DEF Flow
<1>2. /\ P \subseteq 1 .. n /\ C \subseteq 1 .. n /\ T \subseteq 1 .. n
      /\ B \subseteq 1 .. n /\ L \subseteq 1 .. n /\ D \subseteq 1 .. n
  BY DEF Flow
<1>3. /\ P \cup C \cup T \cup B \cup L = 1 .. n /\ L \cap (P \cup C \cup T \cup B) = {}
      /\ (T \cup B) \cap D = {} /\ InLanes(P, C, D) /\ Under((P \cup C) \ D, T \cup B)
      /\ Under(T, B)
  BY DEF Flow, Under, InLanes
<1>4. Flow(P, C, T, B, {n + 1}, L, D, n + 1)
  <2>1. /\ n + 1 \in Nat
        /\ P \cup C \cup T \cup B \cup {n + 1} \cup L = 1 .. (n + 1)
        /\ L \cap (P \cup C \cup T \cup B \cup {n + 1}) = {}
        /\ D \subseteq 1 .. (n + 1)
        /\ (T \cup B \cup {n + 1}) \cap D = {}
    BY <1>1, <1>2, <1>3
  <2>2. Under((P \cup C) \ D, T \cup B \cup {n + 1}) /\ Under(T \cup B, {n + 1})
    BY <1>1, <1>2, <1>3 DEF Under, InLanes
  <2> QED BY <1>3, <2>1, <2>2 DEF Flow
<1>5. Flow(P, C \cup {n + 1}, T, B, {}, L, D \cup {n + 1}, n + 1)
  <2>1. /\ n + 1 \in Nat
        /\ P \cup (C \cup {n + 1}) \cup T \cup B \cup {} \cup L = 1 .. (n + 1)
        /\ L \cap (P \cup (C \cup {n + 1}) \cup T \cup B \cup {}) = {}
        /\ D \cup {n + 1} \subseteq 1 .. (n + 1)
        /\ (T \cup B \cup {}) \cap (D \cup {n + 1}) = {}
    BY <1>1, <1>2, <1>3
  <2>2. InLanes(P, C \cup {n + 1}, D \cup {n + 1})
    BY <1>1, <1>2, <1>3 DEF InLanes
  <2>3. /\ Under((P \cup (C \cup {n + 1})) \ (D \cup {n + 1}), T \cup B \cup {})
        /\ Under(T \cup B, {})
    BY <1>3 DEF Under, InLanes
  <2> QED BY <1>3, <2>1, <2>2, <2>3 DEF Flow
<1>6. Flow(P, C, T, B, {}, L \cup {n + 1}, D, n + 1)
  <2>1. /\ n + 1 \in Nat
        /\ P \cup C \cup T \cup B \cup {} \cup (L \cup {n + 1}) = 1 .. (n + 1)
        /\ (L \cup {n + 1}) \cap (P \cup C \cup T \cup B \cup {}) = {}
        /\ D \subseteq 1 .. (n + 1)
        /\ (T \cup B \cup {}) \cap D = {}
    BY <1>1, <1>2, <1>3
  <2>2. Under((P \cup C) \ D, T \cup B \cup {}) /\ Under(T \cup B, {})
    BY <1>3 DEF Under, InLanes
  <2> QED BY <1>3, <2>1, <2>2 DEF Flow
<1> QED BY <1>4, <1>5, <1>6

LEMMA FlowApart ==
    ASSUME NEW P, NEW C, NEW T, NEW B, NEW F, NEW L, NEW D, NEW n, Flow(P, C, T, B, F, L, D, n)
    PROVE  /\ P \cap C = {} /\ (P \cup C) \cap (T \cup B \cup F) = {}
           /\ T \cap B = {} /\ (T \cup B) \cap F = {}
<1>1. P \cup C \cup T \cup B \cup F \subseteq Nat
  BY DEF Flow
<1>2. \A x \in Nat : ~ (x < x)
  OBVIOUS
<1>3. P \cap C = {}
  BY <1>1, <1>2 DEF Flow, InLanes
<1>4. (P \cup C) \cap (T \cup B \cup F) = {}
  BY <1>1, <1>2 DEF Flow, Under, InLanes
<1>5. T \cap B = {} /\ (T \cup B) \cap F = {}
  BY <1>1, <1>2 DEF Flow, Under, InLanes
<1> QED BY <1>3, <1>4, <1>5

(* What the callback does with a frame that found the channel full. *)
LEMMA FlowKept ==
    ASSUME NEW P, NEW C, NEW T, NEW B, NEW F, NEW L, NEW D, NEW n, Flow(P, C, T, B, F, L, D, n),
           NEW H, NEW R, B = H \cup R, Under(H, R)
    PROVE  /\ Flow(P, C, T, B \cup F, {}, L, D, n)
           /\ Flow(P, C, T, R \cup F, {}, L \cup H, D, n)
<1>1. H \cap R = {} /\ H \cap F = {} /\ H \cap (P \cup C \cup T) = {}
  <2>1. H \subseteq Nat /\ \A x \in Nat : ~ (x < x)
    BY DEF Flow
  <2>2. H \cap R = {}
    BY <2>1 DEF Under, InLanes
  <2> QED BY <2>2, FlowApart
<1>2. Flow(P, C, T, B \cup F, {}, L, D, n)
  BY DEF Flow, Under, InLanes
<1>3. /\ P \cup C \cup T \cup (R \cup F) \cup {} \cup (L \cup H) = 1 .. n
      /\ (L \cup H) \cap (P \cup C \cup T \cup (R \cup F) \cup {}) = {}
      /\ (T \cup (R \cup F) \cup {}) \cap D = {}
  BY <1>1 DEF Flow
<1>4. /\ Under((P \cup C) \ D, T \cup (R \cup F) \cup {}) /\ Under(T, R \cup F)
      /\ Under(T \cup (R \cup F), {})
  BY DEF Flow, Under, InLanes
<1> QED BY <1>2, <1>3, <1>4 DEF Flow

(* What a drain task does. *)
LEMMA FlowDrained ==
    ASSUME NEW P, NEW C, NEW T, NEW B, NEW F, NEW L, NEW D, NEW n, Flow(P, C, T, B, F, L, D, n)
    PROVE  /\ Flow(P, C \cup T, {}, B, F, L, D, n)
           /\ Flow(P, C, {}, B, F, L \cup T, D, n)
           /\ Flow(P, C, T, {}, F, L \cup B, D, n)
           /\ \A H, R : T = {} /\ B = H \cup R /\ Under(H, R) => Flow(P, C, H, R, F, L, D, n)
           /\ InLanes(C, T, D)
<1>a. /\ P \cap C = {} /\ (P \cup C) \cap (T \cup B \cup F) = {}
      /\ T \cap B = {} /\ (T \cup B) \cap F = {}
  BY FlowApart
<1>b. P \cup C \cup T \cup B \cup F \cup L = 1 .. n /\ L \cap (P \cup C \cup T \cup B \cup F) = {}
      /\ (T \cup B \cup F) \cap D = {}
  BY DEF Flow
<1>1. Flow(P, C \cup T, {}, B, F, L, D, n)
  <2>1. /\ P \cup (C \cup T) \cup {} \cup B \cup F \cup L = 1 .. n
        /\ L \cap (P \cup (C \cup T) \cup {} \cup B \cup F) = {}
        /\ ({} \cup B \cup F) \cap D = {}
    BY DEF Flow
  <2>2. InLanes(P, C \cup T, D)
    BY DEF Flow, Under, InLanes
  <2>3. Under((P \cup (C \cup T)) \ D, {} \cup B \cup F)
    BY DEF Flow, Under, InLanes
  <2>4. Under({}, B) /\ Under({} \cup B, F)
    BY DEF Flow, Under, InLanes
  <2> QED BY <2>1, <2>2, <2>3, <2>4 DEF Flow
<1>2. Flow(P, C, {}, B, F, L \cup T, D, n)
  <2>1. /\ P \cup C \cup {} \cup B \cup F \cup (L \cup T) = 1 .. n
        /\ (L \cup T) \cap (P \cup C \cup {} \cup B \cup F) = {}
        /\ ({} \cup B \cup F) \cap D = {}
    BY <1>a, <1>b
  <2>2. Under((P \cup C) \ D, {} \cup B \cup F) /\ Under({}, B) /\ Under({} \cup B, F)
    BY DEF Flow, Under, InLanes
  <2> QED BY <2>1, <2>2 DEF Flow
<1>3. Flow(P, C, T, {}, F, L \cup B, D, n)
  <2>1. /\ P \cup C \cup T \cup {} \cup F \cup (L \cup B) = 1 .. n
        /\ (L \cup B) \cap (P \cup C \cup T \cup {} \cup F) = {}
        /\ (T \cup {} \cup F) \cap D = {}
    BY <1>a, <1>b
  <2>2. Under((P \cup C) \ D, T \cup {} \cup F) /\ Under(T, {}) /\ Under(T \cup {}, F)
    BY DEF Flow, Under, InLanes
  <2> QED BY <2>1, <2>2 DEF Flow
<1>4. ASSUME NEW H, NEW R, T = {}, B = H \cup R, Under(H, R) PROVE Flow(P, C, H, R, F, L, D, n)
  <2>1. H \cup R = T \cup B /\ P \cup C \cup H \cup R \cup F \cup L = 1 .. n
    BY <1>4 DEF Flow
  <2>2. Under((P \cup C) \ D, H \cup R \cup F) /\ Under(H \cup R, F)
    BY <2>1 DEF Flow
  <2>3. L \cap (P \cup C \cup H \cup R \cup F) = {} /\ (H \cup R \cup F) \cap D = {}
    BY <2>1 DEF Flow
  <2> QED BY <1>4, <2>1, <2>2, <2>3 DEF Flow
<1>5. InLanes(C, T, D)
  BY DEF Flow, Under, InLanes
<1> QED BY <1>1, <1>2, <1>3, <1>4, <1>5

(* What the task that processes messages does. *)
LEMMA FlowProcessed ==
    ASSUME NEW P, NEW C, NEW T, NEW B, NEW F, NEW L, NEW D, NEW n, Flow(P, C, T, B, F, L, D, n)
    PROVE  /\ \A H, R : C = H \cup R /\ InLanes(H, R, D) => Flow(P \cup H, R, T, B, F, L, D, n)
           /\ Flow(P, {}, T, B, F, L \cup C, D, n)
<1>a. /\ P \cap C = {} /\ (P \cup C) \cap (T \cup B \cup F) = {}
      /\ T \cap B = {} /\ (T \cup B) \cap F = {}
  BY FlowApart
<1>b. P \cup C \cup T \cup B \cup F \cup L = 1 .. n /\ L \cap (P \cup C \cup T \cup B \cup F) = {}
      /\ (T \cup B \cup F) \cap D = {}
  BY DEF Flow
<1>1. ASSUME NEW H, NEW R, C = H \cup R, InLanes(H, R, D)
      PROVE  Flow(P \cup H, R, T, B, F, L, D, n)
  <2>1. (P \cup H) \cup R = P \cup C
    BY <1>1
  <2>2. InLanes(P \cup H, R, D)
    BY <1>1 DEF Flow, InLanes
  <2> QED BY <2>1, <2>2 DEF Flow
<1>2. Flow(P, {}, T, B, F, L \cup C, D, n)
  <2>1. /\ P \cup {} \cup T \cup B \cup F \cup (L \cup C) = 1 .. n
        /\ (L \cup C) \cap (P \cup {} \cup T \cup B \cup F) = {}
    BY <1>a, <1>b
  <2>2. InLanes(P, {}, D) /\ Under((P \cup {}) \ D, T \cup B \cup F)
    BY DEF Flow, Under, InLanes
  <2> QED BY <2>1, <2>2 DEF Flow
<1> QED BY <1>1, <1>2

-----------------------------------------------------------------------------
(***************************************************************************)
(* The buffer keeps the way of the diffs.                                  *)
(***************************************************************************)
Taken == UNION {ItemsOf(batch[d]) : d \in Drainers}

(* A frame is in the hands of the callback, or of a drain task, only between *)
(* the step that takes it and the one that passes it on.                     *)
HandsInv ==
    /\ producer # "full" => frame.items = <<>>
    /\ \A d \in Drainers :
          at[d] \notin {"send", "waiting", "granted", "closed"} => batch[d].items = <<>>

QueuesInv ==
    /\ Line(channel, direct) /\ Line(backlog, {})
    /\ Rising(frame) /\ \A d \in Drainers : Rising(batch[d])
    /\ Ordered(delivered, direct)

FlowInv ==
    /\ HandsInv
    /\ QueuesInv
    /\ Flow(Processed, Held(channel), Taken, Held(backlog), ItemsOf(frame), lost, direct, received)

LEMMA InitFlow == Init => FlowInv
<1> SUFFICES ASSUME Init PROVE FlowInv
  OBVIOUS
<1>1. /\ Held(channel) = {} /\ Held(backlog) = {} /\ ItemsOf(frame) = {} /\ Taken = {}
      /\ lost = {} /\ direct = {} /\ received = 0
  BY HeldEmpty, NoFrameFacts DEF Init, Taken
<1>2. Len(delivered) = 0
  BY EmptySeq DEF Init
<1>3. Processed = {} /\ Ordered(delivered, direct)
  BY <1>2 DEF Processed, Ordered
<1>4. HandsInv
  BY DEF Init, HandsInv, NoFrame
<1>5. QueuesInv
  BY <1>3, HeldEmpty, NoFrameFacts DEF Init, QueuesInv
<1>6. Flow({}, {}, {}, {}, {}, {}, {}, 0)
  <2>1. 1 .. 0 = {} /\ 0 \in Nat
    OBVIOUS
  <2> QED BY <2>1 DEF Flow, Under, InLanes
<1> QED BY <1>1, <1>3, <1>4, <1>5, <1>6 DEF FlowInv

(* Only the task that takes frames from the backlog has one. *)
LEMMA TakenByOne ==
    ASSUME TypeOK, OneDrainer, HandsInv, NEW d \in Drainers, Exclusive(d)
    PROVE  /\ Taken = ItemsOf(batch[d])
           /\ \A e \in Drainers : e # d => ItemsOf(batch[e]) = {}
<1>1. \A e \in Drainers : e # d => ItemsOf(batch[e]) = {}
  <2> SUFFICES ASSUME NEW e \in Drainers, e # d PROVE ItemsOf(batch[e]) = {}
    OBVIOUS
  <2>1. ~ Exclusive(e)
    BY DEF OneDrainer
  <2>2. at[e] \notin {"send", "waiting", "granted", "closed"}
    BY <2>1 DEF Exclusive, Working
  <2>3. batch[e].items = <<>> /\ batch[e] \in Frames
    BY <2>2 DEF HandsInv, TypeOK
  <2> QED BY <2>3, FrameFacts
<1> QED BY <1>1 DEF Taken

LEMMA TakenAfter ==
    ASSUME TypeOK, OneDrainer, HandsInv, NEW d \in Drainers, Exclusive(d),
           NEW f, batch' = [batch EXCEPT ![d] = f]
    PROVE  Taken' = ItemsOf(f)
<1>1. batch'[d] = f /\ \A e \in Drainers : e # d => batch'[e] = batch[e]
  BY DEF TypeOK
<1>2. \A e \in Drainers : e # d => ItemsOf(batch'[e]) = {}
  BY <1>1, TakenByOne
<1> QED BY <1>1, <1>2 DEF Taken

(* A step that leaves every frame where it is. *)
LEMMA FlowSame ==
    ASSUME FlowInv, UNCHANGED <<channel, backlog, frame, batch, delivered, lost, direct, received>>,
           HandsInv'
    PROVE  FlowInv'
<1>1. /\ Processed' = Processed /\ Held(channel)' = Held(channel) /\ Taken' = Taken
      /\ Held(backlog)' = Held(backlog) /\ ItemsOf(frame)' = ItemsOf(frame)
  BY DEF Processed, Held, Taken, ItemsOf
<1>2. QueuesInv'
  BY DEF FlowInv, QueuesInv, Line, Rising, Ordered, InLanes, ItemsOf
<1> QED BY <1>1, <1>2 DEF FlowInv

LEMMA FlowEnqueue ==
    ASSUME TypeOK, FlowInv, Enqueue
    PROVE  FlowInv'
<1> DEFINE n == received
<1>1. PICK m \in BOOLEAN :
        LET new == [merges |-> m, items |-> <<received + 1>>] IN
        \/ /\ lost' = lost \cup ItemsOf(new)
           /\ UNCHANGED <<channel, direct, producer, frame>>
        \/ /\ channel' = Append(channel, new)
           /\ direct' = direct \cup ItemsOf(new)
           /\ UNCHANGED <<lost, producer, frame>>
        \/ /\ frame' = new /\ producer' = "full"
           /\ UNCHANGED <<channel, lost, direct>>
  BY DEF Enqueue
<1> DEFINE new == [merges |-> m, items |-> <<received + 1>>]
<1>2. received + 1 \in Items
  BY NewItem DEF TypeOK, Enqueue
<1>3. new \in Frames /\ ItemsOf(new) = {received + 1} /\ Rising(new)
  BY <1>2, OneItemFrame
<1> HIDE DEF new
<1>4. /\ producer = "idle" /\ received' = received + 1
      /\ UNCHANGED <<backlog, at, batch, delivered>>
  BY DEF Enqueue
<1>5. frame.items = <<>> /\ ItemsOf(frame) = {}
  BY <1>4, FrameFacts DEF FlowInv, HandsInv, TypeOK
<1>6. /\ Processed' = Processed /\ Taken' = Taken /\ Held(backlog)' = Held(backlog)
  BY <1>4 DEF Processed, Taken, Held
<1>7. Flow(Processed, Held(channel), Taken, Held(backlog), {}, lost, direct, received)
  BY <1>5 DEF FlowInv
<1>8. \/ /\ lost' = lost \cup ItemsOf(new)
         /\ UNCHANGED <<channel, direct, producer, frame>>
      \/ /\ channel' = Append(channel, new)
         /\ direct' = direct \cup ItemsOf(new)
         /\ UNCHANGED <<lost, producer, frame>>
      \/ /\ frame' = new /\ producer' = "full"
         /\ UNCHANGED <<channel, lost, direct>>
  BY <1>1 DEF new
<1>9. CASE /\ lost' = lost \cup ItemsOf(new)
           /\ UNCHANGED <<channel, direct, producer, frame>>
  <2>1. HandsInv' /\ QueuesInv'
    BY <1>4, <1>9 DEF FlowInv, HandsInv, QueuesInv
  <2>2. Held(channel)' = Held(channel) /\ ItemsOf(frame)' = {}
    BY <1>5, <1>9 DEF Held
  <2>3. Flow(Processed, Held(channel), Taken, Held(backlog), {}, lost \cup {received + 1}, direct,
             received + 1)
    BY <1>7, FlowArrives
  <2> QED BY <1>3, <1>4, <1>6, <1>9, <2>1, <2>2, <2>3 DEF FlowInv
<1>10. CASE /\ channel' = Append(channel, new)
            /\ direct' = direct \cup ItemsOf(new)
            /\ UNCHANGED <<lost, producer, frame>>
  <2>1. HandsInv'
    BY <1>4, <1>10 DEF FlowInv, HandsInv
  <2>2. channel \in Seq(Frames) /\ Held(channel)' = Held(channel) \cup {received + 1}
    BY <1>3, <1>10, AppendFrame DEF TypeOK
  <2>3. /\ received + 1 \notin Held(channel) \cup Processed
        /\ \A x \in Held(channel) : x < received + 1
    BY <1>7 DEF Flow
  <2>4. Line(channel, direct)
    BY DEF FlowInv, QueuesInv
  <2>5. \A x \in Held(channel) : x \in direct <=> x \in direct'
    BY <1>3, <1>10, <2>3
  <2>6. Line(channel, direct')
    BY <2>2, <2>4, <2>5, LineSame
  <2>7. InLanes(Held(channel), ItemsOf(new), direct')
    BY <1>3, <2>3 DEF InLanes
  <2>8. Line(channel', direct')
    BY <1>3, <1>10, <2>2, <2>6, <2>7, AppendFrame
  <2>9. Ordered(delivered', direct')
    <3>1. \A i \in 1 .. Len(delivered) : delivered[i] \in direct <=> delivered[i] \in direct'
      BY <1>3, <1>10, <2>3 DEF Processed
    <3>2. Ordered(delivered, direct)
      BY DEF FlowInv, QueuesInv
    <3> QED BY <1>4, <3>1, <3>2 DEF Ordered
  <2>10. QueuesInv'
    BY <1>4, <1>10, <2>8, <2>9 DEF FlowInv, QueuesInv
  <2>11. Flow(Processed, Held(channel) \cup {received + 1}, Taken, Held(backlog), {}, lost,
              direct \cup {received + 1}, received + 1)
    BY <1>7, FlowArrives
  <2>12. ItemsOf(frame)' = {}
    BY <1>5, <1>10
  <2> QED BY <1>3, <1>4, <1>6, <1>10, <2>1, <2>2, <2>10, <2>11, <2>12 DEF FlowInv
<1>11. CASE /\ frame' = new /\ producer' = "full"
            /\ UNCHANGED <<channel, lost, direct>>
  <2>1. HandsInv'
    BY <1>4, <1>11 DEF FlowInv, HandsInv
  <2>2. QueuesInv'
    BY <1>3, <1>4, <1>11 DEF FlowInv, QueuesInv
  <2>3. Flow(Processed, Held(channel), Taken, Held(backlog), {received + 1}, lost, direct,
             received + 1)
    BY <1>7, FlowArrives
  <2>4. Held(channel)' = Held(channel) /\ ItemsOf(frame)' = {received + 1}
    BY <1>3, <1>11
  <2> QED BY <1>4, <1>6, <1>11, <2>1, <2>2, <2>3, <2>4 DEF FlowInv
<1> QED BY <1>8, <1>9, <1>10, <1>11

LEMMA FlowAddToBacklog ==
    ASSUME TypeOK, FlowInv, AddToBacklog
    PROVE  FlowInv'
<1>1. /\ backlog \in Seq(Frames) /\ Len(backlog) \in Nat /\ frame \in Frames
      /\ BacklogMax \in Nat \ {0}
  BY LenProperties, BackpressureAssumption DEF TypeOK
<1>2. /\ producer' = "swap" /\ frame' = NoFrame
      /\ UNCHANGED <<channel, at, batch, received, delivered, direct>>
  BY DEF AddToBacklog
<1>3. HandsInv'
  BY <1>2 DEF FlowInv, HandsInv, NoFrame
<1>4. /\ Flow(Processed, Held(channel), Taken, Held(backlog), ItemsOf(frame), lost, direct, received)
      /\ Line(backlog, {}) /\ Rising(frame)
  BY DEF FlowInv, QueuesInv
<1>5. Under(Held(backlog), ItemsOf(frame))
  BY <1>4 DEF Flow, Under, InLanes
<1>6. /\ Processed' = Processed /\ Taken' = Taken /\ Held(channel)' = Held(channel)
      /\ ItemsOf(frame)' = {}
  BY <1>2, NoFrameFacts DEF Processed, Taken, Held
<1>7. ASSUME Line(backlog', {}) PROVE QueuesInv'
  BY <1>2, <1>7, NoFrameFacts DEF FlowInv, QueuesInv
<1>8. Held(backlog) = {} \cup Held(backlog) /\ Under({}, Held(backlog))
  BY DEF Under, InLanes
<1>9. Flow(Processed, Held(channel), Taken, Held(backlog) \cup ItemsOf(frame), {}, lost, direct, received)
  BY <1>4, <1>8, FlowKept
<1>10. CASE /\ Len(backlog) > 0
            /\ backlog' = [backlog EXCEPT ![Len(backlog)] = Merged(@, frame)] /\ lost' = lost
  <2>1. Held(backlog)' = Held(backlog) \cup ItemsOf(frame) /\ Line(backlog', {})
    BY <1>1, <1>4, <1>5, <1>10, MergedIntoLast
  <2> QED BY <1>2, <1>3, <1>6, <1>7, <1>9, <1>10, <2>1 DEF FlowInv
<1>11. CASE backlog' = Append(backlog, frame) /\ lost' = lost
  <2>1. Held(backlog)' = Held(backlog) \cup ItemsOf(frame) /\ Line(backlog', {})
    BY <1>1, <1>4, <1>5, <1>11, AppendFrame DEF Under
  <2> QED BY <1>2, <1>3, <1>6, <1>7, <1>9, <1>11, <2>1 DEF FlowInv
<1>12. CASE /\ Full /\ backlog' = Append(Tail(backlog), frame)
            /\ lost' = lost \cup ItemsOf(Head(backlog))
  <2>1. backlog # <<>>
    BY <1>1, <1>12, EmptySeq DEF Full
  <2>2. /\ Tail(backlog) \in Seq(Frames)
        /\ Held(backlog) = ItemsOf(Head(backlog)) \cup Held(Tail(backlog))
        /\ Line(Tail(backlog), {})
        /\ Under(ItemsOf(Head(backlog)), Held(Tail(backlog)))
    BY <1>1, <1>4, <2>1, TailOfLine DEF Under
  <2>3. InLanes(Held(Tail(backlog)), ItemsOf(frame), {})
    BY <1>5, <2>2 DEF Under, InLanes
  <2>4. Held(backlog)' = Held(Tail(backlog)) \cup ItemsOf(frame) /\ Line(backlog', {})
    BY <1>1, <1>4, <1>12, <2>2, <2>3, AppendFrame
  <2>5. Flow(Processed, Held(channel), Taken, Held(Tail(backlog)) \cup ItemsOf(frame), {},
             lost \cup ItemsOf(Head(backlog)), direct, received)
    BY <1>4, <2>2, FlowKept
  <2> QED BY <1>2, <1>3, <1>6, <1>7, <1>12, <2>4, <2>5 DEF FlowInv
<1> QED BY <1>10, <1>11, <1>12 DEF AddToBacklog

LEMMA FlowDrainTake ==
    ASSUME TypeOK, OneDrainer, FlowInv, NEW d \in Drainers, DrainTake(d)
    PROVE  FlowInv'
<1>1. at[d] = "take" /\ Exclusive(d)
  BY DEF DrainTake, Exclusive, Working
<1>2. at \in [Drainers -> {"none"} \cup Working \cup Finishing] /\ batch \in [Drainers -> Frames]
  BY DEF TypeOK
<1>3. UNCHANGED <<channel, producer, frame, source, delivered, lost, direct>>
  BY DEF DrainTake
<1>4. CASE backlog = <<>>
  <2>1. at' = [at EXCEPT ![d] = "stop"] /\ UNCHANGED <<backlog, batch>>
    BY <1>4 DEF DrainTake, Goto
  <2>2. HandsInv'
    BY <1>1, <1>2, <1>3, <2>1 DEF FlowInv, HandsInv
  <2> QED BY <1>3, <2>1, <2>2, FlowSame DEF source
<1>5. CASE backlog # <<>>
  <2>1. /\ batch' = [batch EXCEPT ![d] = BatchOf[BatchLen]]
        /\ backlog' = SubSeq(backlog, BatchLen + 1, Len(backlog))
        /\ at' = [at EXCEPT ![d] = "send"]
    BY <1>5 DEF DrainTake, Goto
  <2>2. /\ backlog \in Seq(Frames) /\ Len(backlog) <= BacklogMax /\ Len(backlog) \in Nat
        /\ Line(backlog, {})
    BY LenProperties DEF TypeOK, FlowInv, QueuesInv
  <2>3. BatchLen \in 1 .. Len(backlog) /\ BatchLen \in 0 .. Len(backlog)
    BY <1>5, <2>2, BatchLenInRange
  <2>4. /\ ItemsOf(BatchOf[BatchLen]) = FirstOf(backlog, BatchLen)
        /\ Rising(BatchOf[BatchLen])
    BY <2>2, <2>3, BatchOfFrames
  <2>5. /\ Held(backlog) = FirstOf(backlog, BatchLen) \cup Held(backlog)'
        /\ Line(backlog', {})
        /\ Under(FirstOf(backlog, BatchLen), Held(backlog)')
    BY <2>1, <2>2, <2>3, RestOfLine DEF Under
  <2>6. Taken' = FirstOf(backlog, BatchLen)
    BY <1>1, <2>1, <2>4, TakenAfter DEF FlowInv
  <2>7. batch[d].items = <<>> /\ ItemsOf(batch[d]) = {}
    BY <1>1, <1>2, FrameFacts DEF FlowInv, HandsInv
  <2>8. Taken = {}
    BY <1>1, <2>7, TakenByOne DEF FlowInv
  <2>9. Flow(Processed, Held(channel), FirstOf(backlog, BatchLen), Held(backlog)', ItemsOf(frame), lost,
             direct, received)
    BY <2>5, <2>8, FlowDrained DEF FlowInv
  <2>10. HandsInv'
    BY <1>2, <1>3, <2>1 DEF FlowInv, HandsInv
  <2>11. QueuesInv'
    <3>1. \A e \in Drainers : Rising(batch'[e])
      BY <1>2, <2>1, <2>4 DEF FlowInv, QueuesInv
    <3> QED BY <1>3, <2>5, <3>1 DEF FlowInv, QueuesInv
  <2>12. Processed' = Processed /\ Held(channel)' = Held(channel) /\ ItemsOf(frame)' = ItemsOf(frame)
    BY <1>3 DEF Processed, Held
  <2> QED BY <1>3, <2>6, <2>9, <2>10, <2>11, <2>12 DEF FlowInv, source
<1> QED BY <1>4, <1>5

(* A drain task lets go of its frame: into the channel, or for good. *)
LEMMA FlowHandedOn ==
    ASSUME TypeOK, OneDrainer, FlowInv, NEW d \in Drainers, Exclusive(d), NEW step,
           step \notin {"send", "waiting", "granted", "closed"},
           batch' = [batch EXCEPT ![d] = NoFrame], at' = [at EXCEPT ![d] = step],
           UNCHANGED <<backlog, producer, frame, source, delivered, direct>>,
           \/ channel' = Append(channel, batch[d]) /\ lost' = lost
           \/ channel' = channel /\ lost' = lost \cup ItemsOf(batch[d])
    PROVE  FlowInv'
<1>1. /\ at \in [Drainers -> {"none"} \cup Working \cup Finishing] /\ batch \in [Drainers -> Frames]
      /\ channel \in Seq(Frames)
  BY DEF TypeOK
<1>2. HandsInv'
  BY <1>1 DEF FlowInv, HandsInv, NoFrame
<1>3. Taken = ItemsOf(batch[d]) /\ Taken' = {}
  BY TakenByOne, TakenAfter, NoFrameFacts DEF FlowInv
<1>4. Flow(Processed, Held(channel), Taken, Held(backlog), ItemsOf(frame), lost, direct, received)
  BY DEF FlowInv
<1>5. /\ Processed' = Processed /\ Held(backlog)' = Held(backlog)
      /\ ItemsOf(frame)' = ItemsOf(frame) /\ received' = received
  BY DEF Processed, Held, source
<1>6. \A e \in Drainers : Rising(batch'[e])
  BY <1>1, NoFrameFacts DEF FlowInv, QueuesInv
<1>7. CASE channel' = Append(channel, batch[d]) /\ lost' = lost
  <2>1. Rising(batch[d]) /\ Line(channel, direct) /\ InLanes(Held(channel), Taken, direct)
    BY <1>4, FlowDrained DEF FlowInv, QueuesInv
  <2>2. Held(channel)' = Held(channel) \cup Taken /\ Line(channel', direct)
    BY <1>1, <1>3, <1>7, <2>1, AppendFrame
  <2>3. QueuesInv'
    BY <1>6, <2>2 DEF FlowInv, QueuesInv
  <2>4. Flow(Processed, Held(channel) \cup Taken, {}, Held(backlog), ItemsOf(frame), lost, direct, received)
    BY <1>4, FlowDrained
  <2> QED BY <1>2, <1>3, <1>5, <1>7, <2>2, <2>3, <2>4 DEF FlowInv
<1>8. CASE channel' = channel /\ lost' = lost \cup ItemsOf(batch[d])
  <2>1. QueuesInv'
    BY <1>6, <1>8 DEF FlowInv, QueuesInv
  <2>2. Flow(Processed, Held(channel), {}, Held(backlog), ItemsOf(frame), lost \cup Taken, direct, received)
    BY <1>4, FlowDrained
  <2> QED BY <1>2, <1>3, <1>5, <1>8, <2>1, <2>2 DEF FlowInv
<1> QED BY <1>7, <1>8

LEMMA FlowDrainStep ==
    ASSUME TypeOK, OneDrainer, FlowInv, NEW d \in Drainers, DrainStep(d)
    PROVE  FlowInv'
<1> USE DEF source
<1>1. at \in [Drainers -> {"none"} \cup Working \cup Finishing] /\ batch \in [Drainers -> Frames]
  BY DEF TypeOK
<1>2. CASE DrainTake(d)
  BY <1>2, FlowDrainTake
<1>3. CASE DrainSend(d)
  <2>1. at[d] = "send" /\ Exclusive(d)
    BY <1>3 DEF DrainSend, Exclusive, Working
  <2>2. CASE receiving /\ HasRoom
    <3>1. /\ batch' = [batch EXCEPT ![d] = NoFrame] /\ at' = [at EXCEPT ![d] = "take"]
          /\ channel' = Append(channel, batch[d]) /\ lost' = lost
          /\ UNCHANGED <<backlog, producer, frame, source, delivered, direct>>
      BY <1>3, <2>2 DEF DrainSend, Goto
    <3> QED BY <2>1, <3>1, FlowHandedOn
  <2>3. CASE ~ (receiving /\ HasRoom)
    <3>1. /\ at' = [at EXCEPT ![d] = "waiting"] \/ at' = [at EXCEPT ![d] = "closed"]
          /\ UNCHANGED <<channel, backlog, producer, frame, batch, source, delivered, lost, direct>>
      BY <1>3, <2>3 DEF DrainSend, Goto
    <3>2. HandsInv'
      BY <1>1, <2>1, <3>1 DEF FlowInv, HandsInv
    <3> QED BY <3>1, <3>2, FlowSame
  <2> QED BY <2>2, <2>3
<1>4. CASE DrainPush(d)
  <2>1. at[d] = "granted" /\ Exclusive(d)
    BY <1>4 DEF DrainPush, Exclusive, Working
  <2>2. /\ batch' = [batch EXCEPT ![d] = NoFrame] /\ at' = [at EXCEPT ![d] = "take"]
        /\ \/ channel' = Append(channel, batch[d]) /\ lost' = lost
           \/ channel' = channel /\ lost' = lost \cup ItemsOf(batch[d])
        /\ UNCHANGED <<backlog, producer, frame, source, delivered, direct>>
    BY <1>4 DEF DrainPush, Goto
  <2> QED BY <2>1, <2>2, FlowHandedOn
<1>5. CASE DrainClosed(d)
  <2>1. at[d] = "closed" /\ Exclusive(d)
    BY <1>5 DEF DrainClosed, Exclusive
  <2>2. /\ batch' = [batch EXCEPT ![d] = NoFrame] /\ at' = [at EXCEPT ![d] = "clear"]
        /\ channel' = channel /\ lost' = lost \cup ItemsOf(batch[d])
        /\ UNCHANGED <<backlog, producer, frame, source, delivered, direct>>
    BY <1>5 DEF DrainClosed, Goto
  <2> QED BY <2>1, <2>2, FlowHandedOn
<1>6. CASE DrainClear(d)
  <2>1. /\ at[d] = "clear" /\ lost' = lost \cup Held(backlog) /\ backlog' = <<>>
        /\ at' = [at EXCEPT ![d] = "none"]
        /\ UNCHANGED <<channel, producer, frame, batch, source, delivered, direct>>
    BY <1>6 DEF DrainClear, Goto
  <2>2. HandsInv'
    BY <1>1, <2>1 DEF FlowInv, HandsInv
  <2>3. QueuesInv'
    BY <2>1, HeldEmpty DEF FlowInv, QueuesInv
  <2>4. Flow(Processed, Held(channel), Taken, {}, ItemsOf(frame), lost \cup Held(backlog), direct, received)
    BY FlowDrained DEF FlowInv
  <2>5. /\ Processed' = Processed /\ Held(channel)' = Held(channel) /\ Taken' = Taken
        /\ ItemsOf(frame)' = ItemsOf(frame) /\ Held(backlog)' = {}
    BY <2>1, HeldEmpty DEF Processed, Held, Taken
  <2> QED BY <2>1, <2>2, <2>3, <2>4, <2>5 DEF FlowInv
<1>7. CASE DrainStop(d) \/ DrainReset(d) \/ DrainRecheck(d) \/ DrainReswap(d)
  <2>1. /\ at[d] \in {"stop", "reset", "recheck", "reswap"}
        /\ at' \in [Drainers -> {"none"} \cup Working \cup Finishing]
        /\ at'[d] \in {"reset", "recheck", "reswap", "take", "none"}
        /\ \A e \in Drainers \ {d} : at'[e] = at[e]
        /\ UNCHANGED <<channel, backlog, producer, frame, batch, source, delivered, lost, direct>>
    BY <1>1, <1>7 DEF DrainStop, DrainReset, DrainRecheck, DrainReswap, Goto, Working, Finishing
  <2>2. HandsInv'
    BY <2>1 DEF FlowInv, HandsInv
  <2> QED BY <2>1, <2>2, FlowSame
<1> QED BY <1>2, <1>3, <1>4, <1>5, <1>6, <1>7 DEF DrainStep

LEMMA FlowProcess ==
    ASSUME TypeOK, FlowInv, Process
    PROVE  FlowInv'
<1>1. /\ at \in [Drainers -> {"none"} \cup Working \cup Finishing] /\ channel \in Seq(Frames)
      /\ delivered \in Seq(Items) /\ channel # <<>>
  BY DEF TypeOK, Process
<1>2. /\ delivered' = delivered \o Head(channel).items /\ channel' = Tail(channel)
      /\ UNCHANGED <<backlog, producer, frame, batch, source, lost, direct>>
  BY DEF Process
<1>3. HandsInv'
  <2>1. \A e \in Drainers : at'[e] = at[e] \/ (at[e] = "waiting" /\ at'[e] = "granted")
    BY <1>1 DEF Process, Goto
  <2> QED BY <1>2, <2>1 DEF FlowInv, HandsInv
<1>4. /\ Line(channel, direct) /\ Ordered(delivered, direct)
      /\ Flow(Processed, Held(channel), Taken, Held(backlog), ItemsOf(frame), lost, direct, received)
  BY DEF FlowInv, QueuesInv
<1>5. /\ Head(channel) \in Frames /\ Rising(Head(channel)) /\ Line(channel', direct)
      /\ Held(channel) = ItemsOf(Head(channel)) \cup Held(channel)'
      /\ InLanes(ItemsOf(Head(channel)), Held(channel)', direct)
  BY <1>1, <1>2, <1>4, TailOfLine
<1>6. Processed = DiffsOf(delivered) /\ Processed' = DiffsOf(delivered')
  BY DEF Processed, DiffsOf
<1>7. InLanes(DiffsOf(delivered), ItemsOf(Head(channel)), direct)
  BY <1>4, <1>5, <1>6 DEF Flow, InLanes
<1>8. Ordered(delivered', direct) /\ Processed' = Processed \cup ItemsOf(Head(channel))
  BY <1>1, <1>2, <1>4, <1>5, <1>6, <1>7, FrameProcessed
<1>9. QueuesInv'
  BY <1>2, <1>5, <1>8 DEF FlowInv, QueuesInv
<1>10. Flow(Processed', Held(channel)', Taken, Held(backlog), ItemsOf(frame), lost, direct, received)
  BY <1>4, <1>5, <1>8, FlowProcessed
<1>11. /\ Taken' = Taken /\ Held(backlog)' = Held(backlog) /\ ItemsOf(frame)' = ItemsOf(frame)
  BY <1>2 DEF Taken, Held
<1> QED BY <1>2, <1>3, <1>9, <1>10, <1>11 DEF FlowInv, source

LEMMA FlowReceiverEnds ==
    ASSUME TypeOK, FlowInv, ReceiverEnds
    PROVE  FlowInv'
<1>1. /\ lost' = lost \cup Held(channel) /\ channel' = <<>>
      /\ at' = [d \in Drainers |-> IF at[d] = "waiting" THEN "closed" ELSE at[d]]
      /\ UNCHANGED <<backlog, producer, frame, batch, source, delivered, direct>>
  BY DEF ReceiverEnds
<1>2. HandsInv'
  BY <1>1 DEF FlowInv, HandsInv
<1>3. QueuesInv'
  BY <1>1, HeldEmpty DEF FlowInv, QueuesInv
<1>4. Flow(Processed, {}, Taken, Held(backlog), ItemsOf(frame), lost \cup Held(channel), direct, received)
  BY FlowProcessed DEF FlowInv
<1>5. /\ Processed' = Processed /\ Held(channel)' = {} /\ Taken' = Taken
      /\ Held(backlog)' = Held(backlog) /\ ItemsOf(frame)' = ItemsOf(frame)
  BY <1>1, HeldEmpty DEF Processed, Held, Taken
<1> QED BY <1>1, <1>2, <1>3, <1>4, <1>5 DEF FlowInv, source

LEMMA FlowNext == TypeOK /\ OneDrainer /\ FlowInv /\ [Next]_vars => FlowInv'
<1> SUFFICES ASSUME TypeOK, OneDrainer, FlowInv, [Next]_vars PROVE FlowInv'
  OBVIOUS
<1>1. CASE Reconnect
  <2>1. UNCHANGED <<channel, backlog, producer, frame, at, batch, delivered, lost, direct, received>>
    BY <1>1 DEF Reconnect, tasks
  <2>2. HandsInv'
    BY <2>1 DEF FlowInv, HandsInv
  <2> QED BY <2>1, <2>2, FlowSame
<1>2. CASE Enqueue
  BY <1>2, FlowEnqueue
<1>3. CASE AddToBacklog
  BY <1>3, FlowAddToBacklog
<1>4. CASE StartDraining
  <2>1. /\ producer = "swap" /\ producer' = "idle"
        /\ at' = at \/ \E d \in Drainers : at[d] = "none" /\ at' = [at EXCEPT ![d] = "take"]
        /\ UNCHANGED <<channel, backlog, frame, batch, delivered, lost, direct, received>>
    BY <1>4 DEF StartDraining, source
  <2>2. at \in [Drainers -> {"none"} \cup Working \cup Finishing]
    BY DEF TypeOK
  <2>3. HandsInv'
    BY <2>1, <2>2 DEF FlowInv, HandsInv
  <2> QED BY <2>1, <2>3, FlowSame
<1>5. CASE \E d \in Drainers : DrainStep(d)
  BY <1>5, FlowDrainStep
<1>6. CASE Process
  BY <1>6, FlowProcess
<1>7. CASE ReceiverEnds
  BY <1>7, FlowReceiverEnds
<1>8. CASE UNCHANGED vars
  <2>1. UNCHANGED <<channel, backlog, producer, frame, at, batch, delivered, lost, direct, received>>
    BY <1>8 DEF vars, tasks, source
  <2>2. HandsInv'
    BY <2>1 DEF FlowInv, HandsInv
  <2> QED BY <2>1, <2>2, FlowSame
<1> QED
  BY <1>1, <1>2, <1>3, <1>4, <1>5, <1>6, <1>7, <1>8 DEF Next

(* Diffs are processed in the order they came in, those that went through   *)
(* the backlog among themselves and those that went to the channel directly *)
(* among themselves, however the callback, the drain tasks and an end of    *)
(* the processing task interleave.                                          *)
THEOREM LanesInOrder == Spec => []TwoLanes
<1>1. FlowInv => TwoLanes
  BY DEF FlowInv, QueuesInv, Ordered, TwoLanes
<1>2. TasksInv => OneDrainer
  BY DEF TasksInv
<1> QED
  BY <1>1, <1>2, InitTasks, TasksNext, InitType, TypeNext, InitFlow, FlowNext, PTL DEF Spec

(* Every diff received is in exactly one place, and is processed once at     *)
(* most: no interleaving loses one unseen or has it in two places.           *)
THEOREM DiffsConserved == Spec => []Conserved
<1>1. FlowInv /\ TypeOK => Conserved
  <2> SUFFICES ASSUME FlowInv, TypeOK PROVE Conserved
    OBVIOUS
  <2> DEFINE C == Held(channel)  B == Held(backlog)  H == InHand  P == Processed
             places == <<C, B, H, P, lost>>
  <2>1. Flow(P, C, Taken, B, ItemsOf(frame), lost, direct, received) /\ H = ItemsOf(frame) \cup Taken
    BY DEF FlowInv, InHand, Taken
  <2>2. /\ P \cup C \cup B \cup H \cup lost = 1 .. received
        /\ lost \cap (P \cup C \cup B \cup H) = {}
    BY <2>1 DEF Flow
  <2>3. P \cap C = {} /\ (P \cup C) \cap (B \cup H) = {} /\ H \cap B = {}
    BY <2>1, FlowApart
  <2>4. \A i, j \in 1 .. Len(delivered) : i # j => delivered[i] # delivered[j]
    <3>1. Len(delivered) \in Nat /\ \A i \in 1 .. Len(delivered) : delivered[i] \in Nat
      <4>1. delivered \in Seq(Items) /\ Items \subseteq Nat
        BY DEF TypeOK, Items
      <4> QED BY <4>1, LenProperties
    <3>2. \A i, j \in 1 .. Len(delivered) : i < j => delivered[i] # delivered[j]
      <4>1. Ordered(delivered, direct)
        BY DEF FlowInv, QueuesInv
      <4>2. \A x \in Nat : ~ (x < x)
        OBVIOUS
      <4> QED BY <3>1, <4>1, <4>2 DEF Ordered
    <3>3. \A i, j \in 1 .. Len(delivered) : i # j => i < j \/ j < i
      BY <3>1
    <3> QED BY <3>2, <3>3
  <2> HIDE DEF C, B, H, P
  <2>5. /\ places[1] = C /\ places[2] = B /\ places[3] = H /\ places[4] = P /\ places[5] = lost
        /\ 1 .. 5 = {1, 2, 3, 4, 5}
    OBVIOUS
  <2> HIDE DEF places
  <2>6. UNION {places[i] : i \in 1 .. 5} = C \cup B \cup H \cup P \cup lost
    BY <2>5
  <2>7. \A i, j \in 1 .. 5 : i # j => places[i] \cap places[j] = {}
    BY <2>2, <2>3, <2>5
  <2> QED BY <2>2, <2>4, <2>6, <2>7 DEF Conserved, places, C, B, H, P
<1>2. TasksInv => OneDrainer
  BY DEF TasksInv
<1> QED
  BY <1>1, <1>2, InitTasks, TasksNext, InitType, TypeNext, InitFlow, FlowNext, PTL DEF Spec
=============================================================================
