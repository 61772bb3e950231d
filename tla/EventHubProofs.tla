--------------------------- MODULE EventHubProofs ---------------------------
(***************************************************************************)
(* Proofs about EventHub for any set of publishers and readers, any items, *)
(* and any journal size.                                                   *)
(***************************************************************************)
EXTENDS EventHub, TLAPS, SequenceTheorems, FiniteSetTheorems, WellFoundedInduction

(* A nonempty set of naturals has a first element. *)
LEMMA FirstOfNat ==
    ASSUME NEW S \in SUBSET Nat, S # {}
    PROVE  IsFirst(FirstOf(S), S)
<1>1. PICK i \in S : \A k \in S : ~ (<<k, i>> \in OpToRel(<, Nat))
  BY NatLessThanWellFounded, WFMin
<1>2. \A k \in S : ~ (k < i)
  BY <1>1 DEF OpToRel
<1>3. IsFirst(i, S)
  BY <1>2 DEF IsFirst
<1> QED BY <1>3 DEF FirstOf, IsFirst

(* Appending an event to a journal. *)
LEMMA AppendEvent ==
    ASSUME NEW lg \in Seq(Events), NEW e \in Events
    PROVE  /\ Append(lg, e) \in Seq(Events)
           /\ Len(Append(lg, e)) = Len(lg) + 1
           /\ \A i \in 1 .. Len(lg) : Append(lg, e)[i] = lg[i]
           /\ Append(lg, e)[Len(lg) + 1] = e
OBVIOUS

(***************************************************************************)
(* Type correctness, one step per action.                                  *)
(***************************************************************************)
LEMMA InitTypeOK == Init => TypeOK
<1> SUFFICES ASSUME Init PROVE TypeOK OBVIOUS
<1>1. closing \in Seq(CloseSteps) BY DEF Init, CloseOf, CloseSteps, Journals
<1>2. log \in [Journals -> Seq(Events)] BY DEF Init
<1>3. pub \in [Publishers -> PubStates] BY DEF Init, PubStates, Idle
<1>4. \A j \in Journals : head[j] <= Len(log[j])
  BY DEF Init
<1> QED BY <1>1, <1>2, <1>3, <1>4 DEF Init, TypeOK

(* What a publisher's record holds at each of its steps, and what it may become. *)
LEMMA PubFields ==
    ASSUME TypeOK, NEW p \in Publishers
    PROVE  /\ pub[p].at \in {"dedup", "seq"} => pub[p].item \in Items
           /\ pub[p].at \in {"check", "push", "notify"} =>
                 pub[p].event \in Events /\ pub[p].journal \in Journals
<1>1. pub[p] \in PubStates BY DEF TypeOK
<1> QED BY <1>1 DEF PubStates, Idle

LEMMA PubRecords ==
    /\ Idle \in PubStates
    /\ \A a \in {"dedup", "seq"}, item \in Items : [at |-> a, item |-> item] \in PubStates
    /\ \A a \in {"check", "push", "notify"}, e \in Events, j \in Journals :
          [at |-> a, event |-> e, journal |-> j] \in PubStates
BY DEF PubStates

LEMMA ContinueType ==
    ASSUME TypeOK, NEW p \in Publishers, pub[p].at \in {"check", "push", "notify"}
    PROVE  Continue(p) \in PubStates
BY PubFields, PubRecords DEF Continue, After, Journals

LEMMA PublishKeepsType ==
    ASSUME TypeOK, NEW p \in Publishers,
           PublishBegin(p) \/ PublishDedup(p) \/ PublishTakeSeq(p) \/ PublishCheck(p)
             \/ PublishNotify(p)
    PROVE  TypeOK'
<1>0. /\ pub[p].at \in {"dedup", "seq"} => pub[p].item \in Items
      /\ pub[p].at \in {"check", "push", "notify"} =>
            pub[p].event \in Events /\ pub[p].journal \in Journals
  BY PubFields
<1> USE DEF TypeOK, readerVars, logVars
<1>1. CASE PublishBegin(p)
  <2>1. pub' \in [Publishers -> PubStates]
    BY <1>1, PubRecords DEF PublishBegin, Items
  <2> QED BY <1>1, <2>1 DEF PublishBegin
<1>2. CASE PublishDedup(p)
  <2>0. pub[p].item \in Items
    BY <1>0, <1>2 DEF PublishDedup
  <2>1. pub' \in [Publishers -> PubStates]
    BY <1>2, <2>0, PubRecords DEF PublishDedup
  <2>2. emitted' \subseteq Items
    BY <1>2, <2>0 DEF PublishDedup, Remember
  <2> QED BY <1>2, <2>1, <2>2 DEF PublishDedup
<1>3. CASE PublishTakeSeq(p)
  <2>0. pub[p].item \in Items
    BY <1>0, <1>3 DEF PublishTakeSeq
  <2>1. [seq |-> nextSeq + 1, item |-> pub[p].item] \in Events
    BY <2>0 DEF Events
  <2>2. pub' \in [Publishers -> PubStates]
    BY <1>3, <2>1, PubRecords DEF PublishTakeSeq, Journals
  <2> QED BY <1>3, <2>2 DEF PublishTakeSeq
<1>4. CASE PublishCheck(p)
  <2>1. pub' \in [Publishers -> PubStates]
    BY <1>0, <1>4, PubRecords, ContinueType DEF PublishCheck, At
  <2> QED BY <1>4, <2>1 DEF PublishCheck
<1>5. CASE PublishNotify(p)
  <2>1. pub' \in [Publishers -> PubStates]
    BY <1>5, ContinueType DEF PublishNotify
  <2> QED BY <1>5, <2>1 DEF PublishNotify, NotifyWaiters
<1> QED BY <1>1, <1>2, <1>3, <1>4, <1>5

(* The critical section of a journal's publish, the names of its LETs made  *)
(* visible: event e makes lg of the log of j, trimming moves the head to t1,  *)
(* the limit on the retained events moves it to t2, and trimming to t3.       *)
PushOutcome(p, j, e, lg, t1, t2, t3) ==
    /\ pub[p].journal = j /\ pub[p].event = e
    /\ Len(lg) = Len(log[j]) + 1
    /\ \A i \in 1 .. Len(log[j]) : lg[i] = log[j][i]
    /\ lg[Len(log[j]) + 1] = e
    /\ head[j] <= t1 /\ t1 <= t2 /\ t2 <= t3 /\ t3 <= Len(lg)
    /\ t2 = Limited(lg, t1)
    /\ TrimsTo(lg, head[j], Valid(j, invalid), t1)
    /\ \A r \in Valid(j, invalid), i \in t1 + 1 .. t2 :
          invalid'[r] = 0 => lg[i].seq <= lastSeen[r]
    /\ \A r \in Readers : invalid'[r] = 0 => invalid[r] = 0
    /\ \A r \in Readers : invalid'[r] = invalid[r] \/
          \E i \in t1 + 1 .. t2 :
             r \in Valid(j, invalid) /\ lastSeen[r] < lg[i].seq /\ invalid'[r] = lg[i].seq
    /\ TrimsTo(lg, t2, Valid(j, invalid'), t3)
    /\ log' = [log EXCEPT ![j] = lg]
    /\ head' = [head EXCEPT ![j] = t3]
    /\ pub' = [pub EXCEPT ![p] = At(p, "notify")]
    /\ invalid' \in [Readers -> Nat]

LEMMA PushEffect ==
    ASSUME TypeOK, NEW p \in Publishers, PublishPush(p)
    PROVE  \E j \in Journals, e \in Events, lg \in Seq(Events), t1, t2, t3 \in Nat :
              PushOutcome(p, j, e, lg, t1, t2, t3)
<1> DEFINE j == pub[p].journal
           e == pub[p].event
           lg == Append(log[j], e)
           hit(r, a, b) == Taken(r, lg, a, b)
<1>1. j \in Journals /\ e \in Events
  BY PubFields DEF PublishPush
<1>2. log[j] \in Seq(Events) /\ Len(log[j]) \in Nat /\ head[j] \in Nat
  BY <1>1 DEF TypeOK
<1>3. /\ lg \in Seq(Events)
      /\ Len(lg) = Len(log[j]) + 1
      /\ \A i \in 1 .. Len(log[j]) : lg[i] = log[j][i]
      /\ lg[Len(log[j]) + 1] = e
  BY <1>1, <1>2, AppendEvent
<1>4. PICK t1 \in head[j] .. Len(lg) :
        LET t2 == Limited(lg, t1) IN
        /\ TrimsTo(lg, head[j], Valid(j, invalid), t1)
        /\ invalid' = [r \in Readers |->
              IF r \in Valid(j, invalid) /\ hit(r, t1, t2) # {}
              THEN lg[FirstOf(hit(r, t1, t2))].seq
              ELSE invalid[r]]
        /\ \E t3 \in t2 .. Len(lg) :
              /\ TrimsTo(lg, t2, Valid(j, invalid'), t3)
              /\ head' = [head EXCEPT ![j] = t3]
  BY DEF PublishPush
<1> DEFINE t2 == Limited(lg, t1)
<1>5. t1 \in Nat /\ t2 \in Nat /\ t2 >= t1 /\ t2 <= Len(lg)
  BY <1>2, <1>3, HubAssumption DEF Limited
<1>6. \A i \in t1 + 1 .. t2 : lg[i].seq \in Nat
  <2>1. \A i \in t1 + 1 .. t2 : i \in 1 .. Len(lg)
    BY <1>3, <1>5
  <2>2. \A i \in 1 .. Len(lg) : lg[i] \in Events
    BY <1>3, ElementOfSeq
  <2> QED BY <2>1, <2>2 DEF Events
<1> HIDE DEF t2, lg
<1>7. ASSUME NEW r \in Readers, hit(r, t1, t2) # {}
      PROVE  FirstOf(hit(r, t1, t2)) \in hit(r, t1, t2)
  <2>1. hit(r, t1, t2) \in SUBSET Nat BY <1>5 DEF Taken
  <2> HIDE DEF hit
  <2> QED BY <2>1, <1>7, FirstOfNat DEF IsFirst
<1>8. \A r \in Readers : hit(r, t1, t2) # {} =>
        /\ lg[FirstOf(hit(r, t1, t2))].seq \in Nat
        /\ lg[FirstOf(hit(r, t1, t2))].seq # 0
  <2> TAKE r \in Readers
  <2> HAVE hit(r, t1, t2) # {}
  <2>1. FirstOf(hit(r, t1, t2)) \in hit(r, t1, t2)
    BY <1>7
  <2> DEFINE i == FirstOf(hit(r, t1, t2))
  <2> HIDE DEF i
  <2>2. i \in t1 + 1 .. t2 /\ lastSeen[r] < lg[i].seq
    BY <2>1 DEF i, Taken
  <2>3. lastSeen[r] \in Nat /\ lg[i].seq \in Nat
    BY <2>2, <1>6 DEF TypeOK
  <2> QED BY <2>2, <2>3 DEF i
<1> HIDE DEF hit
<1>9. invalid' \in [Readers -> Nat]
  BY <1>4, <1>8 DEF TypeOK, t2, lg
<1>10. \A r \in Readers : invalid'[r] = 0 => invalid[r] = 0
  BY <1>4, <1>8 DEF TypeOK, t2, lg, Valid
<1>11. \A r \in Valid(j, invalid), i \in t1 + 1 .. t2 :
         invalid'[r] = 0 => lg[i].seq <= lastSeen[r]
  <2> TAKE r \in Valid(j, invalid), i \in t1 + 1 .. t2
  <2> HAVE invalid'[r] = 0
  <2>1. r \in Readers BY DEF Valid
  <2>2. hit(r, t1, t2) = {}
    BY <1>4, <1>8, <2>1 DEF t2, lg
  <2>3. ~ (lastSeen[r] < lg[i].seq)
    BY <2>2 DEF hit, Taken
  <2>4. lastSeen[r] \in Nat /\ lg[i].seq \in Nat
    BY <2>1, <1>6 DEF TypeOK
  <2> QED BY <2>3, <2>4
<1>12. log' = [log EXCEPT ![j] = lg] /\ pub' = [pub EXCEPT ![p] = At(p, "notify")]
  BY DEF PublishPush, lg
<1>13. PICK t3 \in t2 .. Len(lg) :
              /\ TrimsTo(lg, head[j], Valid(j, invalid), t1)
              /\ TrimsTo(lg, t2, Valid(j, invalid'), t3)
              /\ head' = [head EXCEPT ![j] = t3]
  BY <1>4 DEF t2, lg
<1>14. t3 \in Nat /\ t2 <= t3 /\ t3 <= Len(lg) /\ head[j] <= t1
  BY <1>2, <1>3, <1>5, <1>13
<1>15. ASSUME NEW r \in Readers, invalid'[r] # invalid[r]
       PROVE  \E i \in t1 + 1 .. t2 :
                 r \in Valid(j, invalid) /\ lastSeen[r] < lg[i].seq /\ invalid'[r] = lg[i].seq
  <2>1. /\ r \in Valid(j, invalid) /\ hit(r, t1, t2) # {}
        /\ invalid'[r] = lg[FirstOf(hit(r, t1, t2))].seq
    BY <1>4, <1>15 DEF t2, lg
  <2>2. FirstOf(hit(r, t1, t2)) \in hit(r, t1, t2)
    BY <1>7, <2>1 
  <2> QED BY <2>1, <2>2 DEF hit, Taken
<1>16. t2 = Limited(lg, t1)
  BY DEF t2
<1>17. PushOutcome(p, j, e, lg, t1, t2, t3)
  BY <1>3, <1>5, <1>9, <1>10, <1>11, <1>12, <1>13, <1>14, <1>15, <1>16 DEF PushOutcome
<1> HIDE DEF j, e
<1> QED BY <1>1, <1>3, <1>5, <1>14, <1>17

LEMMA PushKeepsType ==
    ASSUME TypeOK, NEW p \in Publishers, PublishPush(p)
    PROVE  TypeOK'
<1>0. PICK j \in Journals, e \in Events, lg \in Seq(Events), t1, t2, t3 \in Nat :
        PushOutcome(p, j, e, lg, t1, t2, t3)
  BY PushEffect
<1>1. /\ pub[p].journal = j /\ pub[p].event = e
      /\ log' = [log EXCEPT ![j] = lg]
      /\ head' = [head EXCEPT ![j] = t3]
      /\ t3 <= Len(lg)
      /\ pub' = [pub EXCEPT ![p] = At(p, "notify")]
      /\ invalid' \in [Readers -> Nat]
  BY <1>0 DEF PushOutcome
<1>2. pub' \in [Publishers -> PubStates]
  <2>1. At(p, "notify") \in PubStates
    BY <1>1, PubRecords DEF At
  <2> QED BY <1>1, <2>1 DEF TypeOK
<1>3. log' \in [Journals -> Seq(Events)]
  BY <1>1 DEF TypeOK
<1>4. head' \in [Journals -> Nat] /\ \A k \in Journals : head'[k] <= Len(log'[k])
  BY <1>1 DEF TypeOK
<1> QED
  BY <1>1, <1>2, <1>3, <1>4 DEF TypeOK, PublishPush

LEMMA ReaderKeepsType ==
    ASSUME TypeOK, NEW r \in Readers,
           Subscribe(r) \/ RecvArm(r) \/ RecvLook(r) \/ RecvWake(r) \/ DropStream(r)
    PROVE  TypeOK'
<1> DEFINE j == JournalOf[r]
<1>0. j \in Journals /\ log[j] \in Seq(Events) /\ Len(log[j]) \in Nat /\ head[j] \in Nat
  BY HubAssumption DEF TypeOK
<1>a. \A i \in 1 .. Len(log[j]) : log[j][i].seq \in Nat
  <2>1. \A i \in 1 .. Len(log[j]) : log[j][i] \in Events
    BY <1>0, ElementOfSeq
  <2> QED BY <2>1 DEF Events
<1>b. head[j] <= Len(log[j])
  BY <1>0 DEF TypeOK
<1> USE DEF TypeOK, pubVars, logVars
<1>1. CASE Subscribe(r)
  <2>1. TailCursor(j) \in Nat
    BY <1>0, <1>a, <1>b DEF TailCursor
  <2> QED BY <1>1, <1>0, <2>1 DEF Subscribe
<1>2. CASE RecvArm(r)
  BY <1>2 DEF RecvArm
<1>3. CASE RecvLook(r)
  <2>1. \A i \in Unseen(r) : i \in Nat /\ log[j][i].seq \in Nat
    BY <1>0, <1>a DEF Unseen
  <2>2. CASE RecvLagged(r)
    BY <1>3, <2>2 DEF RecvLook, RecvLagged, RecvReturn
  <2>3. CASE RecvEvent(r)
    BY <1>3, <2>1, <2>3 DEF RecvLook, RecvEvent, RecvReturn
  <2>4. CASE RecvClosed(r)
    BY <1>3, <2>4 DEF RecvLook, RecvClosed, RecvReturn
  <2>5. CASE RecvWait(r)
    BY <1>3, <2>5 DEF RecvLook, RecvWait
  <2> QED BY <1>3, <2>2, <2>3, <2>4, <2>5 DEF RecvLook
<1>4. CASE RecvWake(r)
  BY <1>4 DEF RecvWake
<1>5. CASE DropStream(r)
  <2>1. head' \in [Journals -> Nat] /\ \A k \in Journals : head'[k] <= Len(log[k])
    BY <1>0, <1>5 DEF DropStream
  <2> QED BY <1>5, <2>1 DEF DropStream
<1> QED BY <1>1, <1>2, <1>3, <1>4, <1>5

LEMMA CloseKeepsType == ASSUME TypeOK, CloseStep PROVE TypeOK'
<1>1. closing' \in Seq(CloseSteps)
  BY HeadTailProperties DEF TypeOK, CloseStep
<1>2. woken' \in [Readers -> BOOLEAN]
  BY DEF TypeOK, CloseStep, NotifyWaiters
<1> QED BY <1>1, <1>2 DEF TypeOK, CloseStep, logVars

LEMMA NextKeepsType == TypeOK /\ [Next]_vars => TypeOK'
<1> SUFFICES ASSUME TypeOK, [Next]_vars PROVE TypeOK' OBVIOUS
<1>1. CASE UNCHANGED vars
  BY <1>1 DEF vars, pubVars, logVars, readerVars, TypeOK
<1>2. CASE Next
  BY <1>2, PublishKeepsType, PushKeepsType, ReaderKeepsType, CloseKeepsType DEF Next
<1> QED BY <1>1, <1>2

(* The variables of the hub always have their types. *)
THEOREM TypeCorrect == Spec => []TypeOK
BY InitTypeOK, NextKeepsType, PTL DEF Spec

(***************************************************************************)
(* A journal with a single publisher loses nothing silently.  The reason   *)
(* is that its log is sorted: the publisher takes a sequence number and    *)
(* writes the event before it takes another.  What that needs to be        *)
(* inductive is what a publisher still has to write (StillToWrite) and     *)
(* that this is ahead of everything in the journal, cursors included.      *)
(***************************************************************************)
StillToWrite(p, j) ==
    \/ pub[p].at \in {"check", "push"} /\ pub[p].journal = j
    \/ pub[p].at \in {"check", "push", "notify"} /\ After(pub[p].journal, pub[p].event.item) = j

SeqBounds ==
    /\ \A j \in Journals : \A i \in 1 .. Len(log[j]) : log[j][i].seq \in 1 .. nextSeq
    /\ \A p \in Publishers :
          pub[p].at \in {"check", "push", "notify"} => pub[p].event.seq \in 1 .. nextSeq

OwnItems ==
    \A p \in Publishers :
        /\ pub[p].at \in {"dedup", "seq"} => pub[p].item \in Emits[p]
        /\ pub[p].at \in {"check", "push", "notify"} =>
              /\ pub[p].event.item \in Emits[p]
              /\ pub[p].journal \in {"all", After("all", pub[p].event.item)}

CursorsInLog ==
    \A r \in Readers : lastSeen[r] = 0 \/
        \E i \in 1 .. Len(LogOf(r)) : lastSeen[r] = LogOf(r)[i].seq

Sorted(j) == \A i, k \in 1 .. Len(log[j]) : i < k => log[j][i].seq < log[j][k].seq

Ahead(j) == \A p \in Publishers : StillToWrite(p, j) =>
    \A i \in 1 .. Len(log[j]) : log[j][i].seq < pub[p].event.seq

LosslessInv ==
    /\ SeqBounds
    /\ OwnItems
    /\ CursorsInLog
    /\ \A j \in Journals : SingleWriter(j) => Sorted(j) /\ Ahead(j) /\ NothingSkippedIn(j)

LEMMA LosslessInit == Init => LosslessInv
<1> SUFFICES ASSUME Init PROVE LosslessInv OBVIOUS
<1>1. \A j \in Journals : log[j] = <<>> /\ Len(log[j]) = 0
  BY DEF Init
<1>2. SeqBounds /\ OwnItems /\ CursorsInLog
  BY <1>1 DEF Init, SeqBounds, OwnItems, CursorsInLog, Idle
<1>3. \A j \in Journals : Sorted(j) /\ Ahead(j) /\ NothingSkippedIn(j)
  BY <1>1 DEF Init, Sorted, Ahead, StillToWrite, Idle, NothingSkippedIn, Reading
<1> QED BY <1>2, <1>3 DEF LosslessInv

(* A publisher that still has to write a journal is one that writes it. *)
LEMMA StillToWriteWrites ==
    ASSUME OwnItems, NEW p \in Publishers, NEW j \in Journals, StillToWrite(p, j)
    PROVE  Writes(p, j)
BY DEF OwnItems, StillToWrite, Writes, After, Journals

(* The steps of a publisher that leave the journals alone. *)
LEMMA LosslessPublish ==
    ASSUME TypeOK, LosslessInv, NEW p \in Publishers,
           PublishBegin(p) \/ PublishDedup(p) \/ PublishTakeSeq(p) \/ PublishCheck(p)
             \/ PublishNotify(p)
    PROVE  LosslessInv'
<1> USE DEF LosslessInv, logVars, readerVars
<1>1. UNCHANGED <<log, head, sub, lastSeen, invalid, base, got>>
  BY DEF PublishBegin, PublishDedup, PublishTakeSeq, PublishCheck, PublishNotify
<1>2. nextSeq \in Nat /\ nextSeq' \in Nat /\ nextSeq <= nextSeq'
  BY DEF TypeOK, PublishBegin, PublishDedup, PublishTakeSeq, PublishCheck, PublishNotify
<1>3. \A q \in Publishers \ {p} : pub'[q] = pub[q]
  BY DEF TypeOK, PublishBegin, PublishDedup, PublishTakeSeq, PublishCheck, PublishNotify
<1>4. CursorsInLog' /\ \A j \in Journals : SingleWriter(j) => Sorted(j)' /\ NothingSkippedIn(j)'
  BY <1>1 DEF CursorsInLog, LogOf, Sorted, NothingSkippedIn, Reading, Skipped,
              SinceSubscribed, Retained
<1>5. \A j \in Journals : \A i \in 1 .. Len(log[j]) : log'[j][i].seq \in 1 .. nextSeq'
  BY <1>1, <1>2 DEF SeqBounds
<1>6. /\ pub'[p].at \in {"check", "push", "notify"} => pub'[p].event.seq \in 1 .. nextSeq'
      /\ pub'[p].at \in {"dedup", "seq"} => pub'[p].item \in Emits[p]
      /\ pub'[p].at \in {"check", "push", "notify"} =>
            /\ pub'[p].event.item \in Emits[p]
            /\ pub'[p].journal \in {"all", After("all", pub'[p].event.item)}
      /\ \A j \in Journals : StillToWrite(p, j)' =>
            \/ StillToWrite(p, j) /\ pub'[p].event = pub[p].event
            \/ pub'[p].event.seq = nextSeq + 1
  <2>1. CASE PublishBegin(p)
    BY <2>1 DEF PublishBegin, TypeOK, StillToWrite
  <2>2. CASE PublishDedup(p)
    BY <2>2 DEF PublishDedup, TypeOK, StillToWrite, OwnItems, Idle
  <2>3. CASE PublishTakeSeq(p)
    BY <2>3, <1>2 DEF PublishTakeSeq, TypeOK, OwnItems
  <2>4. CASE PublishCheck(p)
    BY <2>4 DEF PublishCheck, TypeOK, StillToWrite, SeqBounds, OwnItems, Idle, Continue,
                At, After, Journals
  <2>5. CASE PublishNotify(p)
    BY <2>5 DEF PublishNotify, TypeOK, StillToWrite, SeqBounds, OwnItems, Idle, Continue,
                After, Journals
  <2> QED BY <2>1, <2>2, <2>3, <2>4, <2>5
<1>7. SeqBounds'
  BY <1>1, <1>2, <1>3, <1>5, <1>6 DEF SeqBounds
<1>8. OwnItems'
  BY <1>3, <1>6 DEF OwnItems
<1>9. ASSUME NEW j \in Journals, SingleWriter(j) PROVE Ahead(j)'
  <2> SUFFICES ASSUME NEW q \in Publishers, StillToWrite(q, j)',
                      NEW i \in 1 .. Len(log[j])
               PROVE  log[j][i].seq < pub'[q].event.seq
    BY <1>1 DEF Ahead
  <2>1. CASE q # p
    BY <2>1, <1>3, <1>9 DEF Ahead, StillToWrite
  <2>2. CASE q = p
    BY <2>2, <1>2, <1>6, <1>9 DEF Ahead, SeqBounds
  <2> QED BY <2>1, <2>2
<1> QED BY <1>4, <1>7, <1>8, <1>9

(* Writing an event to a journal: the case the theorem is about. *)
LEMMA LosslessPush ==
    ASSUME TypeOK, LosslessInv, NEW p \in Publishers, PublishPush(p)
    PROVE  LosslessInv'
<1>0. PICK j \in Journals, e \in Events, lg \in Seq(Events), t1, t2, t3 \in Nat :
        PushOutcome(p, j, e, lg, t1, t2, t3)
  BY PushEffect
<1> DEFINE n == Len(log[j])
<1>a. /\ pub[p].journal = j /\ pub[p].event = e
      /\ log' = [log EXCEPT ![j] = lg]
      /\ pub' = [pub EXCEPT ![p] = At(p, "notify")]
  BY <1>0 DEF PushOutcome
<1>1. /\ Len(log[j]) = n
      /\ Len(lg) = n + 1
      /\ \A i \in 1 .. n : lg[i] = log[j][i]
      /\ lg[n + 1] = e
  BY <1>0 DEF PushOutcome
<1>2. /\ head[j] <= t1 /\ t1 <= t2 /\ t2 <= t3 /\ t3 <= Len(lg)
      /\ TrimsTo(lg, head[j], Valid(j, invalid), t1)
      /\ \A r \in Valid(j, invalid), i \in t1 + 1 .. t2 :
            invalid'[r] = 0 => lg[i].seq <= lastSeen[r]
      /\ \A r \in Readers : invalid'[r] = 0 => invalid[r] = 0
      /\ TrimsTo(lg, t2, Valid(j, invalid'), t3)
  BY <1>0 DEF PushOutcome
<1>3. head' = [head EXCEPT ![j] = t3]
  BY <1>0 DEF PushOutcome
<1>4. n \in Nat /\ head[j] \in Nat /\ head[j] <= n /\ nextSeq \in Nat
  BY DEF TypeOK
<1>5. /\ log'[j] = lg /\ head'[j] = t3
      /\ \A k \in Journals \ {j} : log'[k] = log[k] /\ head'[k] = head[k]
  BY <1>a, <1>3 DEF TypeOK
<1>6. /\ pub[p].at = "push" /\ pub'[p].at = "notify"
      /\ pub'[p].journal = j /\ pub'[p].event = e
      /\ \A q \in Publishers \ {p} : pub'[q] = pub[q]
      /\ UNCHANGED <<nextSeq, sub, lastSeen, base, got>>
  <2>1. pub[p].at = "push" /\ UNCHANGED <<nextSeq, sub, lastSeen, base, got>>
    BY DEF PublishPush
  <2>2. pub \in [Publishers -> PubStates]
    BY DEF TypeOK
  <2> QED BY <2>1, <2>2, <1>a DEF At
<1>7. e.seq \in 1 .. nextSeq
  BY <1>a, <1>6 DEF LosslessInv, SeqBounds
<1> HIDE DEF n
<1>8. SeqBounds'
  <2>1. \A i \in 1 .. n : log[j][i].seq \in 1 .. nextSeq
    BY <1>1 DEF LosslessInv, SeqBounds
  <2>2. \A i \in 1 .. Len(lg) : lg[i].seq \in 1 .. nextSeq
    BY <2>1, <1>1, <1>4, <1>7
  <2> QED BY <2>2, <1>5, <1>6, <1>7 DEF LosslessInv, SeqBounds
<1>9. OwnItems'
  BY <1>a, <1>6 DEF LosslessInv, OwnItems
<1>10. CursorsInLog'
  <2> SUFFICES ASSUME NEW r \in Readers, lastSeen[r] # 0
               PROVE  \E i \in 1 .. Len(log'[JournalOf[r]]) :
                         lastSeen[r] = log'[JournalOf[r]][i].seq
    BY <1>6 DEF CursorsInLog, LogOf
  <2>1. JournalOf[r] \in Journals
    BY HubAssumption
  <2>2. PICK i \in 1 .. Len(log[JournalOf[r]]) : lastSeen[r] = log[JournalOf[r]][i].seq
    BY DEF LosslessInv, CursorsInLog, LogOf
  <2>3. CASE JournalOf[r] = j
    BY <2>2, <2>3, <1>1, <1>4, <1>5
  <2>4. CASE JournalOf[r] # j
    BY <2>1, <2>2, <2>4, <1>5
  <2> QED BY <2>3, <2>4
<1>11. ASSUME NEW k \in Journals, SingleWriter(k), k # j
       PROVE  Sorted(k)' /\ Ahead(k)' /\ NothingSkippedIn(k)'
  <2>1. Sorted(k) /\ Ahead(k) /\ NothingSkippedIn(k)
    BY <1>11 DEF LosslessInv
  <2>2. Sorted(k)'
    BY <2>1, <1>5, <1>11 DEF Sorted
  <2>3. Ahead(k)'
    <3>1. \A q \in Publishers : StillToWrite(q, k)' =>
            StillToWrite(q, k) /\ pub'[q].event = pub[q].event
      BY <1>a, <1>6 DEF StillToWrite
    <3> QED BY <3>1, <2>1, <1>5, <1>11 DEF Ahead
  <2>4. NothingSkippedIn(k)'
    BY <2>1, <1>2, <1>5, <1>6, <1>11
       DEF NothingSkippedIn, Reading, Skipped, SinceSubscribed, Retained, LogOf
  <2> QED BY <2>2, <2>3, <2>4
<1>12. ASSUME SingleWriter(j)
       PROVE  Sorted(j)' /\ Ahead(j)' /\ NothingSkippedIn(j)'
  <2>1. Sorted(j) /\ Ahead(j) /\ NothingSkippedIn(j)
    BY <1>1, <1>12 DEF LosslessInv
  <2>2. StillToWrite(p, j)
    BY <1>a, <1>6 DEF StillToWrite
  <2>3. \A i \in 1 .. n : log[j][i].seq < e.seq
    BY <2>1, <2>2, <1>a, <1>1 DEF Ahead
  <2>4. \A i \in 1 .. n : log[j][i].seq \in Nat
    BY <1>1 DEF LosslessInv, SeqBounds
  <2>5. Sorted(j)'
    <3> SUFFICES ASSUME NEW i \in 1 .. n + 1, NEW k \in 1 .. n + 1, i < k
                 PROVE  lg[i].seq < lg[k].seq
      BY <1>1, <1>5 DEF Sorted
    <3>1. i \in 1 .. n
      BY <1>4
    <3>2. CASE k \in 1 .. n
      BY <3>1, <3>2, <2>1, <1>1 DEF Sorted
    <3>3. CASE k = n + 1
      BY <3>1, <3>3, <2>3, <1>1
    <3> QED BY <3>2, <3>3, <1>4
  <2>6. \A q \in Publishers : ~ StillToWrite(q, j)'
    <3> SUFFICES ASSUME NEW q \in Publishers, StillToWrite(q, j)' PROVE FALSE
      OBVIOUS
    <3>1. q # p
      BY <1>6, <1>1 DEF StillToWrite, After, Journals
    <3>2. StillToWrite(q, j)
      BY <3>1, <1>6 DEF StillToWrite
    <3>3. Writes(q, j) /\ Writes(p, j)
      BY <3>2, <2>2, <1>1, StillToWriteWrites DEF LosslessInv
    <3> QED BY <3>1, <3>3, <1>12 DEF SingleWriter
  <2>7. Ahead(j)'
    BY <2>6 DEF Ahead
  <2>8. NothingSkippedIn(j)'
    <3>0. \A r \in Readers : JournalOf[r] = j =>
            /\ LogOf(r)' = lg
            /\ SinceSubscribed(r)' = base[r] + 1 .. n + 1
            /\ Retained(r)' = t3 + 1 .. n + 1
      BY <1>1, <1>5, <1>6 DEF SinceSubscribed, Retained, LogOf
    <3> SUFFICES ASSUME NEW r \in Readers, JournalOf[r] = j, sub[r] = "live",
                        invalid'[r] = 0, NEW i \in base[r] + 1 .. n + 1, i \notin got[r]
                 PROVE  i \in t3 + 1 .. n + 1 /\ ~ (lg[i].seq <= lastSeen[r])
      BY <3>0, <1>6 DEF NothingSkippedIn, Reading, Skipped
    <3>1. invalid[r] = 0 /\ r \in Valid(j, invalid) /\ r \in Valid(j, invalid')
      BY <1>2 DEF Valid
    <3>a. lastSeen[r] \in Nat /\ base[r] \in Nat
      BY DEF TypeOK
    <3>b. i \in 1 .. n + 1
      BY <3>a
    <3>2. lastSeen[r] \in Nat /\ base[r] \in Nat /\ lg[i].seq \in Nat
      BY <3>a, <3>b, <2>4, <1>1, <1>4, <1>7
    <3>3. lg[i].seq > lastSeen[r]
      <4>1. CASE i = n + 1
        <5>1. lastSeen[r] = 0 \/ \E m \in 1 .. n : lastSeen[r] = log[j][m].seq
          BY <1>1 DEF LosslessInv, CursorsInLog, LogOf
        <5> QED BY <4>1, <5>1, <2>3, <1>1, <1>7, <1>4, <3>2
      <4>2. CASE i # n + 1
        <5>1. i \in 1 .. n
          BY <4>2, <3>2, <1>4
        <5>2. ~ (log[j][i].seq <= lastSeen[r])
          BY <5>1, <2>1, <3>1, <1>1 DEF NothingSkippedIn, Reading, Skipped, SinceSubscribed, LogOf
        <5> QED BY <5>1, <5>2, <1>1, <2>4, <3>2
      <4> QED BY <4>1, <4>2
    <3>4. i > head[j]
      <4>1. CASE i = n + 1
        BY <4>1, <1>4
      <4>2. CASE i # n + 1
        <5>1. i \in 1 .. n
          BY <4>2, <3>2, <1>4
        <5>2. i \in Retained(r)
          BY <5>1, <2>1, <3>1, <1>1 DEF NothingSkippedIn, Reading, Skipped, SinceSubscribed, LogOf
        <5> QED BY <5>2, <1>4 DEF Retained
      <4> QED BY <4>1, <4>2
    <3>5. ~ (lg[i].seq <= lastSeen[r])
      BY <3>2, <3>3
    <3>6. i \notin head[j] + 1 .. t1
      BY <1>2, <3>1, <3>5 DEF TrimsTo
    <3>7. i \notin t1 + 1 .. t2
      BY <1>2, <3>1, <3>5
    <3>8. i \notin t2 + 1 .. t3
      BY <1>2, <3>1, <3>5 DEF TrimsTo
    <3>9. i \in Nat
      BY <3>2
    <3> QED BY <3>5, <3>4, <3>6, <3>7, <3>8, <3>9, <1>4
  <2> QED BY <2>5, <2>7, <2>8
<1> QED BY <1>8, <1>9, <1>10, <1>11, <1>12 DEF LosslessInv, SingleWriter, Writes

(* The steps of a reader. *)
LEMMA LosslessReader ==
    ASSUME TypeOK, LosslessInv, NEW r \in Readers,
           Subscribe(r) \/ RecvArm(r) \/ RecvLook(r) \/ RecvWake(r) \/ DropStream(r)
    PROVE  LosslessInv'
<1> DEFINE j == JournalOf[r]
           n == Len(log[j])
<1>1. UNCHANGED <<nextSeq, pub, log, invalid>>
  BY DEF Subscribe, RecvArm, RecvLook, RecvWake, DropStream, pubVars, logVars
<1>2. /\ j \in Journals /\ n \in Nat /\ head[j] \in Nat /\ head[j] <= n
      /\ log[j] \in Seq(Events)
  BY HubAssumption DEF TypeOK
<1>3. SeqBounds' /\ OwnItems' /\ \A k \in Journals : Sorted(k)' = Sorted(k) /\ Ahead(k)' = Ahead(k)
  BY <1>1 DEF LosslessInv, SeqBounds, OwnItems, Sorted, Ahead, StillToWrite
<1>4. \A q \in Readers \ {r} : /\ sub'[q] = sub[q] /\ lastSeen'[q] = lastSeen[q]
                               /\ base'[q] = base[q] /\ got'[q] = got[q]
  BY DEF TypeOK, Subscribe, RecvArm, RecvLook, RecvLagged, RecvEvent, RecvClosed, RecvWait,
         RecvWake, DropStream
<1>5. lastSeen'[r] = lastSeen[r] \/ lastSeen'[r] = 0
        \/ \E i \in 1 .. n : lastSeen'[r] = log[j][i].seq
  <2>1. CASE Subscribe(r)
    <3>1. lastSeen'[r] = TailCursor(j)
      BY <2>1 DEF Subscribe, TypeOK
    <3>2. head[j] # n => n \in 1 .. n
      BY <1>2
    <3> QED BY <3>1, <3>2 DEF TailCursor
  <2>2. CASE RecvLook(r) /\ RecvEvent(r)
    BY <2>2, <1>2 DEF RecvEvent, IsFirst, Unseen, TypeOK
  <2> QED BY <2>1, <2>2 DEF RecvArm, RecvLook, RecvLagged, RecvClosed, RecvWait, RecvWake,
                           DropStream
<1>6. CursorsInLog'
  BY <1>1, <1>4, <1>5 DEF LosslessInv, CursorsInLog, LogOf
<1>7. ASSUME NEW k \in Journals, SingleWriter(k) PROVE NothingSkippedIn(k)'
  <2>1. NothingSkippedIn(k) /\ Sorted(k)
    BY <1>7 DEF LosslessInv
  <2>a. \A i \in 1 .. Len(log[k]) : log[k][i].seq \in Nat
    BY DEF LosslessInv, SeqBounds
  <2> SUFFICES ASSUME NEW q \in Readers, JournalOf[q] = k, Reading(q)' PROVE Skipped(q)' = {}
    BY DEF NothingSkippedIn
  <2>2. Skipped(q)' = {} \/ Subscribe(r) \/ RecvLook(r) \/ DropStream(r)
    <3>1. CASE RecvArm(r) \/ RecvWake(r)
      BY <3>1, <2>1 DEF RecvArm, RecvWake, NothingSkippedIn, Reading, Skipped, SinceSubscribed,
                        Retained, LogOf, logVars
    <3> QED BY <3>1
  <2>3. CASE Subscribe(r)
    <3>1. CASE q = r
      <4>1. SinceSubscribed(q)' = {}
        BY <3>1, <2>3, <1>1, <1>2 DEF Subscribe, SinceSubscribed, LogOf, TypeOK
      <4> QED BY <4>1 DEF Skipped
    <3>2. CASE q # r
      BY <3>2, <2>1, <2>3, <1>1, <1>4
         DEF Subscribe, NothingSkippedIn, Reading, Skipped, SinceSubscribed, Retained, LogOf,
             logVars
    <3> QED BY <3>1, <3>2
  <2>4. CASE RecvLook(r)
    <3>1. head' = head /\ sub' = sub /\ base' = base
      BY <2>4 DEF RecvLook, logVars
    <3>2. CASE q # r \/ ~ RecvEvent(r)
      <4>1. lastSeen'[q] = lastSeen[q] /\ got'[q] = got[q]
        BY <3>2, <2>4, <1>4 DEF RecvLook, RecvLagged, RecvClosed, RecvWait
      <4> QED BY <4>1, <3>1, <2>1, <1>1
              DEF NothingSkippedIn, Reading, Skipped, SinceSubscribed, Retained, LogOf
    <3>3. CASE q = r /\ RecvEvent(r)
      <4>1. PICK i \in Unseen(r) :
              /\ IsFirst(i, Unseen(r))
              /\ lastSeen' = [lastSeen EXCEPT ![r] = log[j][i].seq]
              /\ got' = [got EXCEPT ![r] = @ \cup {i}]
        BY <3>3 DEF RecvEvent
      <4>2. lastSeen'[r] = log[j][i].seq /\ got'[r] = got[r] \cup {i}
        BY <4>1 DEF TypeOK
      <4>3. SinceSubscribed(q)' = SinceSubscribed(q) /\ Retained(q)' = Retained(q)
              /\ LogOf(q)' = LogOf(q)
        BY <3>1, <1>1 DEF SinceSubscribed, Retained, LogOf
      <4>4. Skipped(q) = {}
        BY <2>1, <3>1, <1>1 DEF NothingSkippedIn, Reading
      <4>5. ASSUME NEW m \in SinceSubscribed(q), m \notin got'[r]
            PROVE  m \in Retained(q) /\ ~ (log[j][m].seq <= lastSeen'[r])
        <5>1. m \in Retained(q) /\ ~ (log[j][m].seq <= lastSeen[r])
          BY <3>3, <4>2, <4>4, <4>5 DEF Skipped, LogOf
        <5>2. m \in head[j] + 1 .. n /\ m \in 1 .. n
          BY <5>1, <3>3, <1>2 DEF Retained, LogOf
        <5>3. lastSeen[r] \in Nat /\ log[j][m].seq \in Nat
          BY <5>2, <3>3, <2>a DEF TypeOK
        <5>4. m \in Unseen(r)
          BY <5>1, <5>2, <5>3 DEF Unseen
        <5>5. i < m /\ i \in 1 .. n
          BY <5>4, <4>1, <4>2, <4>5, <1>2, <5>2 DEF IsFirst, Unseen
        <5>6. log[j][i].seq < log[j][m].seq
          BY <5>2, <5>5, <3>3, <2>1 DEF Sorted
        <5>7. log[j][i].seq \in Nat
          BY <5>5, <3>3, <2>a
        <5> QED BY <5>1, <5>3, <5>6, <5>7, <4>2
      <4> QED BY <3>3, <4>3, <4>5 DEF Skipped, LogOf
    <3> QED BY <3>2, <3>3
  <2>5. CASE DropStream(r)
    <3>1. UNCHANGED <<lastSeen, base, got>> /\ sub' = [sub EXCEPT ![r] = "dropped"]
      BY <2>5 DEF DropStream
    <3>2. q # r /\ Reading(q)
      BY <3>1, <1>1 DEF Reading, TypeOK
    <3>3. Skipped(q) = {}
      BY <2>1, <3>2 DEF NothingSkippedIn
    <3>4. CASE k # j
      BY <3>1, <3>3, <3>4, <1>1, <2>5
         DEF DropStream, Skipped, SinceSubscribed, Retained, LogOf, TypeOK
    <3>5. CASE k = j
      <4>1. PICK t \in head[j] .. n :
              /\ TrimsTo(log[j], head[j], Valid(j, invalid) \ {r}, t)
              /\ head' = [head EXCEPT ![j] = t]
        BY <2>5 DEF DropStream
      <4>2. head'[j] = t /\ t \in Nat
        BY <4>1, <1>2 DEF TypeOK
      <4>3. q \in Valid(j, invalid) \ {r}
        BY <3>2, <3>5 DEF Valid, Reading
      <4>4. ASSUME NEW m \in SinceSubscribed(q), m \notin got[q]
            PROVE  m \in t + 1 .. n /\ ~ (log[j][m].seq <= lastSeen[q])
        <5>1. m \in head[j] + 1 .. n /\ ~ (log[j][m].seq <= lastSeen[q])
          BY <3>3, <3>5, <4>4 DEF Skipped, LogOf, Retained
        <5>2. m \notin head[j] + 1 .. t
          BY <5>1, <4>1, <4>3 DEF TrimsTo
        <5> QED BY <5>1, <5>2, <4>2, <1>2
      <4> QED BY <4>2, <4>4, <3>1, <3>5, <1>1 DEF Skipped, SinceSubscribed, Retained, LogOf
    <3> QED BY <3>4, <3>5
  <2> QED BY <2>2, <2>3, <2>4, <2>5
<1> QED BY <1>3, <1>6, <1>7 DEF LosslessInv, SingleWriter, Writes

LEMMA LosslessClose == ASSUME TypeOK, LosslessInv, CloseStep PROVE LosslessInv'
<1>1. UNCHANGED <<nextSeq, pub, log, head, sub, lastSeen, invalid, base, got>>
  BY DEF CloseStep, logVars
<1>2. SeqBounds' /\ OwnItems' /\ CursorsInLog'
  BY <1>1 DEF LosslessInv, SeqBounds, OwnItems, CursorsInLog, LogOf
<1>3. \A j \in Journals : Sorted(j)' = Sorted(j) /\ Ahead(j)' = Ahead(j)
  BY <1>1 DEF Sorted, Ahead, StillToWrite
<1>4. \A j \in Journals : NothingSkippedIn(j) => NothingSkippedIn(j)'
  BY <1>1 DEF NothingSkippedIn, Reading, Skipped, SinceSubscribed, Retained, LogOf
<1> QED BY <1>2, <1>3, <1>4 DEF LosslessInv, SingleWriter, Writes

LEMMA LosslessStutter == ASSUME LosslessInv, UNCHANGED vars PROVE LosslessInv'
<1>1. UNCHANGED <<nextSeq, pub, log, head, sub, lastSeen, invalid, base, got>>
  BY DEF vars, pubVars, logVars, readerVars
<1>2. SeqBounds' /\ OwnItems' /\ CursorsInLog'
  BY <1>1 DEF LosslessInv, SeqBounds, OwnItems, CursorsInLog, LogOf
<1>3. \A j \in Journals : Sorted(j)' = Sorted(j) /\ Ahead(j)' = Ahead(j)
  BY <1>1 DEF Sorted, Ahead, StillToWrite
<1>4. \A j \in Journals : NothingSkippedIn(j) => NothingSkippedIn(j)'
  BY <1>1 DEF NothingSkippedIn, Reading, Skipped, SinceSubscribed, Retained, LogOf
<1> QED BY <1>2, <1>3, <1>4 DEF LosslessInv, SingleWriter, Writes

LEMMA LosslessNext == TypeOK /\ LosslessInv /\ [Next]_vars => LosslessInv'
<1> SUFFICES ASSUME TypeOK, LosslessInv, [Next]_vars PROVE LosslessInv' OBVIOUS
<1>1. CASE Next
  BY <1>1, LosslessPublish, LosslessPush, LosslessReader, LosslessClose DEF Next
<1> QED BY <1>1, LosslessStutter

(* A reader of a journal that one publisher writes is never skipped silently: *)
(* what was written since it subscribed has been delivered to it, is retained *)
(* ahead of its cursor, or the reader is told Lagged.                         *)
THEOREM SingleWriterLosesNothing == Spec => []SingleWriterLossless
<1>1. LosslessInv => SingleWriterLossless
  BY DEF LosslessInv, SingleWriterLossless
<1> QED BY <1>1, TypeCorrect, LosslessInit, LosslessNext, PTL DEF Spec

(***************************************************************************)
(* A fill is published once.  While the hub is open the dedup table keeps  *)
(* every fill it has seen, so a fill in the journal or on its way there    *)
(* (Bears) is in the table, has one publisher that carries it, and is not  *)
(* in the journal yet while it is carried.                                 *)
(***************************************************************************)
Fills == {x \in Items : x.kind = "trade"}
TradeLog == log["trades"]

Bears(p, x) ==
    \/ pub[p].at = "seq" /\ pub[p].item = x
    \/ StillToWrite(p, "trades") /\ pub[p].event.item = x

CarriedOnce ==
    /\ \A p \in Publishers, x \in Fills : Bears(p, x) =>
          /\ x \in emitted
          /\ \A i \in 1 .. Len(TradeLog) : TradeLog[i].item # x
    /\ \A p, q \in Publishers, x \in Fills : Bears(p, x) /\ Bears(q, x) => p = q

TradeInv ==
    ~hubClosed =>
        /\ closing # <<>> /\ Head(closing) = <<"hub">>
        /\ \A i \in 1 .. Len(TradeLog) : TradeLog[i].item \in Fills \cap emitted
        /\ CarriedOnce
        /\ TradeOnce

LEMMA TradeInit == Init => TradeInv
<1> SUFFICES ASSUME Init PROVE TradeInv OBVIOUS
<1>1. TradeLog = <<>> /\ Len(TradeLog) = 0
  BY DEF Init, TradeLog, Journals
<1>2. closing # <<>> /\ Head(closing) = <<"hub">>
  BY DEF Init, CloseOf
<1>3. \A p \in Publishers, x \in Fills : ~ Bears(p, x)
  BY DEF Init, Bears, StillToWrite, Idle
<1> QED BY <1>1, <1>2, <1>3 DEF TradeInv, CarriedOnce, TradeOnce, TradeLog

(* A step that writes no fill and lets nobody carry one he did not carry. *)
LEMMA TradeCalm ==
    ASSUME TradeInv, UNCHANGED <<hubClosed, closing, TradeLog>>,
           Fills \cap emitted \subseteq emitted',
           \A p \in Publishers, x \in Fills : Bears(p, x)' => Bears(p, x)
    PROVE  TradeInv'
<1> SUFFICES ASSUME ~hubClosed PROVE TradeInv'
  BY DEF TradeInv
<1>1. CarriedOnce'
  BY DEF TradeInv, CarriedOnce
<1>2. TradeOnce'
  BY DEF TradeInv, TradeOnce, TradeLog
<1>3. \A i \in 1 .. Len(TradeLog) : TradeLog[i].item \in Fills \cap emitted'
  BY DEF TradeInv
<1> QED BY <1>1, <1>2, <1>3 DEF TradeInv, Fills

LEMMA TradePublish ==
    ASSUME TypeOK, LosslessInv, TradeInv, NEW p \in Publishers,
           PublishBegin(p) \/ PublishTakeSeq(p) \/ PublishCheck(p) \/ PublishNotify(p)
    PROVE  TradeInv'
<1>1. UNCHANGED <<hubClosed, closing, TradeLog, emitted>>
  BY DEF PublishBegin, PublishTakeSeq, PublishCheck, PublishNotify, logVars, TradeLog
<1>2. \A q \in Publishers \ {p} : pub'[q] = pub[q]
  BY DEF TypeOK, PublishBegin, PublishTakeSeq, PublishCheck, PublishNotify
<1>3. ASSUME NEW x \in Fills, Bears(p, x)' PROVE Bears(p, x)
  <2>0. x.kind = "trade"
    BY DEF Fills
  <2>1. CASE PublishBegin(p)
    BY <1>3, <2>0, <2>1 DEF PublishBegin, TypeOK, Bears, StillToWrite
  <2>2. CASE PublishTakeSeq(p)
    BY <1>3, <2>2 DEF PublishTakeSeq, TypeOK, Bears, StillToWrite
  <2>3. CASE PublishCheck(p)
    BY <1>3, <2>3 DEF PublishCheck, TypeOK, Bears, StillToWrite, Idle, Continue, At, After, Journals
  <2>4. CASE PublishNotify(p)
    BY <1>3, <2>4 DEF PublishNotify, TypeOK, Bears, StillToWrite, Idle, Continue, After, Journals
  <2> QED BY <2>1, <2>2, <2>3, <2>4
<1>4. \A q \in Publishers, x \in Fills : Bears(q, x)' => Bears(q, x)
  BY <1>2, <1>3 DEF Bears, StillToWrite
<1> QED BY <1>1, <1>4, TradeCalm

(* The dedup table: a fill that passes it was carried by nobody. *)
LEMMA TradeDedup ==
    ASSUME TypeOK, TradeInv, NEW p \in Publishers, PublishDedup(p)
    PROVE  TradeInv'
<1> DEFINE item == pub[p].item
<1>1. UNCHANGED <<hubClosed, closing, TradeLog>> /\ pub[p].at = "dedup" /\ item \in Items
  BY PubFields DEF PublishDedup, logVars, TradeLog
<1>2. \A q \in Publishers \ {p} : pub'[q] = pub[q]
  BY DEF TypeOK, PublishDedup
<1>3. Fills \cap emitted \subseteq emitted'
  BY DEF PublishDedup, Remember, Superseded, Fills
<1>4. CASE item \in emitted
  <2>1. pub'[p] = Idle
    BY <1>4 DEF PublishDedup, TypeOK
  <2>2. \A q \in Publishers, x \in Fills : Bears(q, x)' => Bears(q, x)
    BY <1>2, <2>1 DEF Bears, StillToWrite, Idle
  <2> QED BY <1>1, <1>3, <2>2, TradeCalm
<1>5. CASE item \notin emitted
  <2>1. pub'[p] = [at |-> "seq", item |-> item] /\ item \in emitted'
    BY <1>5 DEF PublishDedup, TypeOK, Remember
  <2> HIDE DEF item
  <2>2. \A x \in Fills : Bears(p, x)' => x = item
    BY <2>1 DEF Bears, StillToWrite
  <2>3. \A q \in Publishers \ {p}, x \in Fills : Bears(q, x)' = Bears(q, x)
    BY <1>2 DEF Bears, StillToWrite
  <2> SUFFICES ASSUME ~hubClosed PROVE TradeInv'
    BY <1>1 DEF TradeInv
  <2>4. /\ CarriedOnce /\ TradeOnce /\ closing # <<>> /\ Head(closing) = <<"hub">>
        /\ \A i \in 1 .. Len(TradeLog) : TradeLog[i].item \in Fills \cap emitted
    BY DEF TradeInv
  <2>5. \A i \in 1 .. Len(TradeLog) : TradeLog[i].item # item
    BY <1>5, <2>4
  <2>6. \A q \in Publishers : item \in Fills => ~ Bears(q, item)
    BY <1>5, <2>4 DEF CarriedOnce
  <2>7. CarriedOnce'
    <3>1. ASSUME NEW q \in Publishers, NEW x \in Fills, Bears(q, x)'
          PROVE  x \in emitted' /\ \A i \in 1 .. Len(TradeLog) : TradeLog[i].item # x
      <4>1. CASE q = p
        BY <3>1, <4>1, <2>1, <2>2, <2>5
      <4>2. CASE q # p
        BY <3>1, <4>2, <1>3, <2>3, <2>4 DEF CarriedOnce
      <4> QED BY <4>1, <4>2
    <3>2. ASSUME NEW q \in Publishers, NEW u \in Publishers, NEW x \in Fills,
                 Bears(q, x)', Bears(u, x)'
          PROVE  q = u
      BY <3>2, <2>2, <2>3, <2>4, <2>6 DEF CarriedOnce
    <3> QED BY <1>1, <3>1, <3>2 DEF CarriedOnce, Fills
  <2>8. TradeOnce'
    BY <1>1, <2>4 DEF TradeOnce, TradeLog
  <2> QED BY <1>1, <1>3, <2>4, <2>7, <2>8 DEF TradeInv, Fills
<1> QED BY <1>4, <1>5

LEMMA TradePush ==
    ASSUME TypeOK, LosslessInv, TradeInv, NEW p \in Publishers, PublishPush(p)
    PROVE  TradeInv'
<1>0. PICK j \in Journals, e \in Events, lg \in Seq(Events), t1, t2, t3 \in Nat :
        PushOutcome(p, j, e, lg, t1, t2, t3)
  BY PushEffect
<1>1. /\ pub[p].journal = j /\ pub[p].event = e
      /\ Len(lg) = Len(log[j]) + 1
      /\ \A i \in 1 .. Len(log[j]) : lg[i] = log[j][i]
      /\ lg[Len(log[j]) + 1] = e
      /\ log' = [log EXCEPT ![j] = lg]
      /\ pub' = [pub EXCEPT ![p] = At(p, "notify")]
  BY <1>0 DEF PushOutcome
<1>2. /\ pub[p].at = "push"
      /\ UNCHANGED <<hubClosed, closing, emitted>>
  <2>1. UNCHANGED <<nextSeq, emitted, sub, lastSeen, recv, woken, base, got,
                    hubClosed, jClosed, closing>>
    BY Zenon DEF PublishPush
  <2>2. pub[p].at = "push"
    BY Zenon DEF PublishPush
  <2> QED BY <2>1, <2>2
<1>3. /\ pub'[p] = [at |-> "notify", event |-> e, journal |-> j]
      /\ \A q \in Publishers \ {p} : pub'[q] = pub[q]
  BY <1>1 DEF TypeOK, At
<1>4. \A q \in Publishers, x \in Fills : Bears(q, x)' => Bears(q, x)
  BY <1>1, <1>2, <1>3 DEF Bears, StillToWrite
<1>5. CASE j # "trades"
  <2>1. TradeLog' = TradeLog
    BY <1>1, <1>5 DEF TradeLog, TypeOK, Journals
  <2> QED BY <1>2, <1>4, <2>1, TradeCalm
<1>6. CASE j = "trades"
  <2> DEFINE n == Len(TradeLog)
  <2>1. /\ TradeLog' = lg /\ Len(lg) = n + 1 /\ lg[n + 1] = e /\ n \in Nat
        /\ \A i \in 1 .. n : lg[i] = TradeLog[i]
    BY <1>1, <1>6 DEF TradeLog, TypeOK
  <2>2. e.item \in Fills
    <3>1. e.item \in Items
      BY DEF Events
    <3>2. After("all", e.item) = "trades"
      BY <1>1, <1>2, <1>6 DEF LosslessInv, OwnItems
    <3> QED BY <3>1, <3>2 DEF Fills, After
  <2>3. Bears(p, e.item) /\ \A x \in Fills : ~ Bears(p, x)'
    BY <1>1, <1>2, <1>3, <1>6 DEF Bears, StillToWrite, After
  <2> SUFFICES ASSUME ~hubClosed PROVE TradeInv'
    BY <1>2 DEF TradeInv
  <2>4. /\ CarriedOnce /\ TradeOnce /\ closing # <<>> /\ Head(closing) = <<"hub">>
        /\ \A i \in 1 .. n : TradeLog[i].item \in Fills \cap emitted
    BY DEF TradeInv
  <2>5. e.item \in emitted /\ \A i \in 1 .. n : TradeLog[i].item # e.item
    BY <2>2, <2>3, <2>4 DEF CarriedOnce
  <2>6. \A q \in Publishers, x \in Fills : Bears(q, x)' => Bears(q, x) /\ x # e.item
    BY <1>4, <2>2, <2>3, <2>4 DEF CarriedOnce
  <2> HIDE DEF n
  <2>7. \A i \in 1 .. n + 1 : lg[i] = IF i = n + 1 THEN e ELSE TradeLog[i]
    BY <2>1
  <2>8. \A i \in 1 .. n + 1 : lg[i].item \in Fills \cap emitted
    BY <2>1, <2>2, <2>4, <2>5, <2>7
  <2>9. \A i, k \in 1 .. n + 1 : lg[i].item = lg[k].item => i = k
    <3>1. \A i, k \in 1 .. n : TradeLog[i].item = TradeLog[k].item => i = k
      BY <2>4 DEF TradeOnce, TradeLog, n
    <3> QED BY <3>1, <2>1, <2>5, <2>7
  <2>10. CarriedOnce'
    <3>1. ASSUME NEW q \in Publishers, NEW x \in Fills, Bears(q, x)'
          PROVE  x \in emitted /\ \A i \in 1 .. n + 1 : lg[i].item # x
      <4>1. x \in emitted /\ x # e.item /\ \A i \in 1 .. n : TradeLog[i].item # x
        BY <3>1, <2>4, <2>6 DEF CarriedOnce, n
      <4> QED BY <4>1, <2>1, <2>7
    <3>2. \A q, u \in Publishers, x \in Fills : Bears(q, x)' /\ Bears(u, x)' => q = u
      BY <1>4, <2>4 DEF CarriedOnce
    <3> QED BY <1>2, <2>1, <3>1, <3>2 DEF CarriedOnce, Fills
  <2>11. TradeOnce'
    BY <2>1, <2>9 DEF TradeOnce, TradeLog
  <2> QED BY <1>2, <2>1, <2>4, <2>8, <2>10, <2>11 DEF TradeInv, Fills
<1> QED BY <1>5, <1>6

LEMMA TradeOthers ==
    ASSUME TradeInv,
           \/ \E r \in Readers :
                 Subscribe(r) \/ RecvArm(r) \/ RecvLook(r) \/ RecvWake(r) \/ DropStream(r)
           \/ CloseStep
           \/ UNCHANGED vars
    PROVE  TradeInv'
<1>1. UNCHANGED <<pub, log>>
  BY DEF Subscribe, RecvArm, RecvLook, RecvWake, DropStream, CloseStep, vars, pubVars, logVars
<1>2. \A p \in Publishers, x \in Fills : Bears(p, x)' = Bears(p, x)
  BY <1>1 DEF Bears, StillToWrite
<1>3. CASE CloseStep
  <2>1. hubClosed' = (hubClosed \/ Head(closing)[1] = "hub")
    BY <1>3 DEF CloseStep
  <2>2. ~hubClosed => Head(closing)[1] = "hub"
    BY DEF TradeInv
  <2> QED BY <2>1, <2>2 DEF TradeInv
<1>4. CASE ~CloseStep
  <2>1. UNCHANGED <<hubClosed, closing, emitted>>
    BY <1>4 DEF Subscribe, RecvArm, RecvLook, RecvWake, DropStream, vars, pubVars
  <2> QED BY <1>1, <1>2, <2>1, TradeCalm DEF TradeLog
<1> QED BY <1>3, <1>4

(* Until the hub is closed a fill is in the trade journal at most once,       *)
(* however many publishers merge the snapshot that carries it (publish_trade, *)
(* trade_session/events.rs).                                                  *)
THEOREM FillsPublishedOnce == Spec => []TradeOnce
<1>1. TypeOK /\ LosslessInv /\ TradeInv /\ [Next]_vars => TradeInv'
  <2> SUFFICES ASSUME TypeOK, LosslessInv, TradeInv, [Next]_vars PROVE TradeInv' OBVIOUS
  <2>1. CASE \E p \in Publishers :
               \/ PublishBegin(p) \/ PublishDedup(p) \/ PublishTakeSeq(p)
               \/ PublishCheck(p) \/ PublishPush(p) \/ PublishNotify(p)
    BY <2>1, TradePublish, TradeDedup, TradePush
  <2> QED BY <2>1, TradeOthers DEF Next
<1>2. TradeInv => TradeOnce
  BY DEF TradeInv, TradeOnce
<1> QED BY <1>1, <1>2, TypeCorrect, LosslessInit, LosslessNext, TradeInit, PTL DEF Spec

(***************************************************************************)
(* Lagged is no false alarm.  What is taken from a reader is ahead of its  *)
(* cursor: not delivered to it, as what was delivered is behind the cursor *)
(* (GotSeen), and not older than its subscription, as what was retained    *)
(* then is behind the cursor too (StartsAtTail; the journal is sorted).    *)
(***************************************************************************)
StartsAtTail(r) ==
    /\ base[r] <= Len(LogOf(r))
    /\ \A i \in 1 .. base[r] : i <= head[JournalOf[r]] \/ LogOf(r)[i].seq <= lastSeen[r]

GotSeen(r) == \A i \in got[r] : i \in 1 .. Len(LogOf(r)) /\ LogOf(r)[i].seq <= lastSeen[r]

LaggedInv ==
    \A r \in Readers :
        /\ sub[r] = "none" => got[r] = {} /\ invalid[r] = 0
        /\ SingleWriter(JournalOf[r]) =>
              /\ sub[r] # "none" => StartsAtTail(r)
              /\ GotSeen(r)
              /\ invalid[r] # 0 => \E i \in Lost(r) : LogOf(r)[i].seq = invalid[r]

LEMMA LaggedInit == Init => LaggedInv
BY DEF Init, LaggedInv, GotSeen

(* The log of a reader's journal has numbers for sequence numbers. *)
LEMMA ReaderLog ==
    ASSUME TypeOK, LosslessInv, NEW r \in Readers
    PROVE  /\ JournalOf[r] \in Journals /\ LogOf(r) \in Seq(Events) /\ Len(LogOf(r)) \in Nat
           /\ head[JournalOf[r]] \in Nat /\ head[JournalOf[r]] <= Len(LogOf(r))
           /\ lastSeen[r] \in Nat /\ base[r] \in Nat /\ got[r] \subseteq Nat
           /\ \A i \in 1 .. Len(LogOf(r)) : LogOf(r)[i].seq \in Nat
<1>1. JournalOf[r] \in Journals
  BY HubAssumption
<1>2. /\ LogOf(r) \in Seq(Events) /\ Len(LogOf(r)) \in Nat
      /\ head[JournalOf[r]] \in Nat /\ head[JournalOf[r]] <= Len(LogOf(r))
  BY <1>1 DEF TypeOK, LogOf
<1>3. \A i \in 1 .. Len(LogOf(r)) : LogOf(r)[i].seq \in Nat
  BY <1>1 DEF LosslessInv, SeqBounds, LogOf
<1> QED BY <1>1, <1>2, <1>3 DEF TypeOK

(* A step that leaves a reader alone and only trims its journal. *)
LEMMA LaggedTrim ==
    ASSUME TypeOK, LosslessInv, LaggedInv, NEW r \in Readers,
           UNCHANGED <<log, sub[r], lastSeen[r], invalid[r], base[r], got[r]>>,
           head'[JournalOf[r]] \in Nat, head[JournalOf[r]] <= head'[JournalOf[r]]
    PROVE  LaggedInv!(r)'
<1>1. UNCHANGED LogOf(r)
  BY DEF LogOf
<1>2. StartsAtTail(r) => StartsAtTail(r)'
  BY <1>1, ReaderLog DEF StartsAtTail
<1>3. GotSeen(r) => GotSeen(r)'
  BY <1>1 DEF GotSeen
<1>4. Lost(r) \subseteq Lost(r)'
  BY <1>1, ReaderLog DEF Lost, SinceSubscribed, Retained
<1> QED BY <1>1, <1>2, <1>3, <1>4 DEF LaggedInv, SingleWriter, Writes

LEMMA LaggedPush ==
    ASSUME TypeOK, LosslessInv, LaggedInv, NEW p \in Publishers, PublishPush(p)
    PROVE  LaggedInv'
<1>0. PICK j \in Journals, e \in Events, lg \in Seq(Events), t1, t2, t3 \in Nat :
        PushOutcome(p, j, e, lg, t1, t2, t3)
  BY PushEffect
<1> DEFINE n == Len(log[j])
<1>1. /\ Len(lg) = n + 1
      /\ \A i \in 1 .. n : lg[i] = log[j][i]
      /\ lg[n + 1] = e
      /\ head[j] <= t1 /\ t1 <= t2 /\ t2 <= t3 /\ t3 <= Len(lg)
      /\ \A r \in Readers : invalid'[r] = invalid[r] \/
            \E i \in t1 + 1 .. t2 :
               r \in Valid(j, invalid) /\ lastSeen[r] < lg[i].seq /\ invalid'[r] = lg[i].seq
  BY <1>0 DEF PushOutcome
<1>2. log' = [log EXCEPT ![j] = lg] /\ head' = [head EXCEPT ![j] = t3]
  BY <1>0 DEF PushOutcome
<1>3. UNCHANGED <<sub, lastSeen, base, got>>
  <2>1. UNCHANGED <<nextSeq, emitted, sub, lastSeen, recv, woken, base, got,
                    hubClosed, jClosed, closing>>
    BY Zenon DEF PublishPush
  <2> QED BY <2>1
<1>4. n \in Nat /\ head[j] \in Nat /\ head[j] <= n
  BY DEF TypeOK
<1>5. /\ log'[j] = lg /\ head'[j] = t3
      /\ \A k \in Journals \ {j} : log'[k] = log[k] /\ head'[k] = head[k]
  BY <1>2 DEF TypeOK
<1> HIDE DEF n
<1> SUFFICES ASSUME NEW r \in Readers PROVE LaggedInv!(r)'
  BY DEF LaggedInv
<1>6. JournalOf[r] \in Journals
  BY HubAssumption
<1>7. CASE JournalOf[r] # j
  <2>1. LogOf(r)' = LogOf(r) /\ head'[JournalOf[r]] = head[JournalOf[r]] /\ invalid'[r] = invalid[r]
    BY <1>1, <1>5, <1>6, <1>7 DEF LogOf, Valid
  <2> QED BY <2>1, <1>3 DEF LaggedInv, StartsAtTail, GotSeen, Lost, SinceSubscribed, Retained,
                            SingleWriter, Writes
<1>8. CASE JournalOf[r] = j
  <2>1. /\ LogOf(r) = log[j] /\ Len(LogOf(r)) = n /\ LogOf(r)' = lg
        /\ SinceSubscribed(r) = base[r] + 1 .. n /\ SinceSubscribed(r)' = base[r] + 1 .. n + 1
        /\ Retained(r) = head[j] + 1 .. n /\ Retained(r)' = t3 + 1 .. n + 1
    BY <1>1, <1>3, <1>5, <1>8 DEF LogOf, SinceSubscribed, Retained, n
  <2>2. /\ lastSeen[r] \in Nat /\ base[r] \in Nat
        /\ \A i \in 1 .. n : log[j][i].seq \in Nat
    <3>1. \A i \in 1 .. Len(LogOf(r)) : LogOf(r)[i].seq \in Nat
      BY ReaderLog
    <3>2. lastSeen[r] \in Nat /\ base[r] \in Nat
      BY ReaderLog
    <3> QED BY <2>1, <3>1, <3>2
  <2>3. ASSUME SingleWriter(j), sub[r] # "none" PROVE StartsAtTail(r) /\ StartsAtTail(r)'
    <3>1. /\ base[r] <= n
          /\ \A i \in 1 .. base[r] : i <= head[j] \/ log[j][i].seq <= lastSeen[r]
      BY <2>1, <2>3, <1>8 DEF LaggedInv, StartsAtTail
    <3>2. \A i \in 1 .. base[r] : i <= t3 \/ lg[i].seq <= lastSeen[r]
      <4> SUFFICES ASSUME NEW i \in 1 .. base[r] PROVE i <= t3 \/ lg[i].seq <= lastSeen[r]
        OBVIOUS
      <4>1. i \in 1 .. n /\ lg[i] = log[j][i]
        BY <3>1, <2>2, <1>1, <1>4
      <4>2. head[j] <= t3
        BY <1>1, <1>4
      <4> QED BY <3>1, <4>1, <4>2, <1>4
    <3>3. StartsAtTail(r)
      BY <2>1, <3>1, <1>8 DEF StartsAtTail
    <3>4. StartsAtTail(r)'
      BY <3>1, <3>2, <2>1, <2>2, <1>1, <1>3, <1>4, <1>5, <1>8 DEF StartsAtTail
    <3> QED BY <3>3, <3>4
  <2>4. ASSUME SingleWriter(j) PROVE GotSeen(r) /\ GotSeen(r)'
    <3>1. \A i \in got[r] : i \in 1 .. n /\ log[j][i].seq <= lastSeen[r]
      BY <2>1, <2>4, <1>8 DEF LaggedInv, GotSeen
    <3> QED BY <3>1, <2>1, <1>1, <1>3, <1>4 DEF GotSeen
  <2>5. ASSUME SingleWriter(j), invalid'[r] # 0
        PROVE  \E i \in Lost(r)' : lg[i].seq = invalid'[r]
    <3>1. CASE invalid'[r] = invalid[r]
      <4>1. PICK i \in Lost(r) : log[j][i].seq = invalid[r]
        BY <2>1, <2>5, <3>1, <1>8 DEF LaggedInv
      <4>2. i \in base[r] + 1 .. n /\ i \notin head[j] + 1 .. n /\ i \notin got[r]
        BY <4>1, <2>1 DEF Lost
      <4>3. i \in base[r] + 1 .. n + 1 /\ i \notin t3 + 1 .. n + 1 /\ i \in 1 .. n
        BY <4>2, <2>2, <1>1, <1>4
      <4> QED BY <4>1, <4>2, <4>3, <2>1, <3>1, <1>1, <1>3 DEF Lost
    <3>2. CASE invalid'[r] # invalid[r]
      <4>1. PICK i \in t1 + 1 .. t2 : lastSeen[r] < lg[i].seq /\ invalid'[r] = lg[i].seq
        BY <3>2, <1>1
      <4>2. i \in 1 .. n + 1 /\ i > head[j] /\ i \notin t3 + 1 .. n + 1
        BY <1>1, <1>4
      <4>3. sub[r] # "none"
        BY <1>1, <3>2 DEF Valid
      <4>4. i \notin 1 .. base[r]
        <5> SUFFICES ASSUME i \in 1 .. base[r] PROVE FALSE
          OBVIOUS
        <5>1. base[r] <= n /\ log[j][i].seq <= lastSeen[r]
          BY <2>1, <2>3, <2>5, <4>2, <4>3, <1>4, <1>8 DEF StartsAtTail
        <5> QED BY <5>1, <4>1, <2>2, <1>1, <1>4
      <4>5. i \notin got[r]
        <5> SUFFICES ASSUME i \in got[r] PROVE FALSE
          OBVIOUS
        <5>1. i \in 1 .. n /\ log[j][i].seq <= lastSeen[r]
          BY <2>1, <2>4, <2>5 DEF GotSeen
        <5> QED BY <5>1, <4>1, <2>2, <1>1
      <4>6. i \in base[r] + 1 .. n + 1
        BY <4>2, <4>4, <2>2, <1>4
      <4> QED BY <4>1, <4>2, <4>5, <4>6, <2>1, <1>3 DEF Lost
    <3> QED BY <3>1, <3>2
  <2>6. sub[r] = "none" => got[r] = {} /\ invalid'[r] = 0
    BY <1>1 DEF LaggedInv, Valid
  <2> QED BY <2>1, <2>3, <2>4, <2>5, <2>6, <1>3, <1>8 DEF LaggedInv, SingleWriter, Writes
<1> QED BY <1>7, <1>8

(* Only who has subscribed is in recv(). *)
OnlyReadersRead == \A r \in Readers : sub[r] = "none" => recv[r] = "out"

LEMMA OnlyReadersReadNext == TypeOK /\ OnlyReadersRead /\ [Next]_vars => OnlyReadersRead'
<1> SUFFICES ASSUME TypeOK, OnlyReadersRead, [Next]_vars PROVE OnlyReadersRead' OBVIOUS
<1> USE DEF OnlyReadersRead, TypeOK
<1>1. ASSUME NEW p \in Publishers,
             PublishBegin(p) \/ PublishDedup(p) \/ PublishTakeSeq(p) \/ PublishCheck(p)
               \/ PublishNotify(p)
      PROVE  OnlyReadersRead'
  BY <1>1 DEF PublishBegin, PublishDedup, PublishTakeSeq, PublishCheck, PublishNotify, readerVars
<1>2. ASSUME NEW p \in Publishers, PublishPush(p) PROVE OnlyReadersRead'
  <2>1. UNCHANGED <<nextSeq, emitted, sub, lastSeen, recv, woken, base, got,
                    hubClosed, jClosed, closing>>
    BY <1>2, Zenon DEF PublishPush
  <2> QED BY <2>1
<1>3. ASSUME NEW r \in Readers,
             Subscribe(r) \/ RecvArm(r) \/ RecvLook(r) \/ RecvWake(r) \/ DropStream(r)
      PROVE  OnlyReadersRead'
  BY <1>3 DEF Subscribe, RecvArm, RecvLook, RecvLagged, RecvEvent, RecvClosed, RecvWait,
              RecvReturn, RecvWake, DropStream
<1>4. CASE CloseStep
  BY <1>4 DEF CloseStep
<1>5. CASE UNCHANGED vars
  BY <1>5 DEF vars, readerVars
<1> QED BY <1>1, <1>2, <1>3, <1>4, <1>5 DEF Next

(* The steps of a reader. *)
LEMMA LaggedReader ==
    ASSUME TypeOK, LosslessInv, OnlyReadersRead, LaggedInv, NEW q \in Readers,
           Subscribe(q) \/ RecvArm(q) \/ RecvLook(q) \/ RecvWake(q) \/ DropStream(q)
    PROVE  LaggedInv'
<1>1. UNCHANGED <<log, invalid>>
  BY DEF Subscribe, RecvArm, RecvLook, RecvWake, DropStream, logVars
<1>2. \A r \in Readers \ {q} : /\ sub'[r] = sub[r] /\ lastSeen'[r] = lastSeen[r]
                               /\ base'[r] = base[r] /\ got'[r] = got[r]
  BY DEF TypeOK, Subscribe, RecvArm, RecvLook, RecvLagged, RecvEvent, RecvClosed, RecvWait,
         RecvWake, DropStream
<1>3. \A j \in Journals : head'[j] \in Nat /\ head[j] <= head'[j]
  <2>1. head \in [Journals -> Nat]
    BY DEF TypeOK
  <2>2. CASE UNCHANGED head
    BY <2>1, <2>2
  <2>3. CASE DropStream(q)
    <3>1. PICK t \in head[JournalOf[q]] .. Len(log[JournalOf[q]]) :
             head' = [head EXCEPT ![JournalOf[q]] = t]
      BY <2>3 DEF DropStream
    <3>2. JournalOf[q] \in Journals /\ head[JournalOf[q]] \in Nat /\ t \in Nat /\ head[JournalOf[q]] <= t
      BY <2>1, <3>1, HubAssumption
    <3> QED BY <2>1, <3>1, <3>2
  <2> QED BY <2>2, <2>3 DEF Subscribe, RecvArm, RecvLook, RecvWake, logVars
<1>4. \A r \in Readers : JournalOf[r] \in Journals
  BY HubAssumption
<1> SUFFICES ASSUME NEW r \in Readers PROVE LaggedInv!(r)'
  BY DEF LaggedInv
<1>5. CASE r # q \/ RecvArm(q) \/ RecvWake(q) \/ (RecvLook(q) /\ ~RecvEvent(q))
  <2>1. UNCHANGED <<log, sub[r], lastSeen[r], invalid[r], base[r], got[r]>>
    BY <1>1, <1>2, <1>5 DEF RecvArm, RecvWake, RecvLook, RecvLagged, RecvClosed, RecvWait
  <2> QED BY <1>3, <1>4, <2>1, LaggedTrim
<1>6. CASE r = q /\ DropStream(q)
  <2>1. UNCHANGED <<lastSeen, base, got>> /\ sub[r] # "none" /\ UNCHANGED LogOf(r)
    BY <1>1, <1>6 DEF DropStream, LogOf
  <2>2. StartsAtTail(r) => StartsAtTail(r)'
    BY <1>3, <1>4, <2>1, ReaderLog DEF StartsAtTail
  <2>3. GotSeen(r) => GotSeen(r)'
    BY <2>1 DEF GotSeen
  <2>4. Lost(r) \subseteq Lost(r)'
    BY <1>3, <1>4, <2>1, ReaderLog DEF Lost, SinceSubscribed, Retained
  <2>5. sub'[r] # "none"
    BY <1>6 DEF DropStream, TypeOK
  <2> QED BY <1>1, <2>1, <2>2, <2>3, <2>4, <2>5 DEF LaggedInv, SingleWriter, Writes
<1>7. CASE r = q /\ Subscribe(q)
  <2> DEFINE n == Len(LogOf(r))
  <2>1. /\ UNCHANGED <<head, got>> /\ UNCHANGED LogOf(r)
        /\ sub[r] = "none" /\ sub'[r] = "live"
        /\ lastSeen'[r] = TailCursor(JournalOf[r]) /\ base'[r] = n
    BY <1>1, <1>7 DEF Subscribe, TypeOK, logVars, LogOf
  <2>2. got[r] = {} /\ invalid[r] = 0
    BY <2>1 DEF LaggedInv
  <2>3. /\ n \in Nat /\ head[JournalOf[r]] \in Nat /\ head[JournalOf[r]] <= n
        /\ \A i \in 1 .. n : LogOf(r)[i].seq \in Nat
    BY ReaderLog
  <2>4. ASSUME SingleWriter(JournalOf[r]), head[JournalOf[r]] # n, NEW i \in 1 .. n
        PROVE  LogOf(r)[i].seq <= lastSeen'[r]
    <3>1. n \in 1 .. n /\ lastSeen'[r] = LogOf(r)[n].seq
      BY <2>1, <2>3, <2>4 DEF TailCursor, LogOf
    <3>2. \A k \in 1 .. n : k < n => LogOf(r)[k].seq < LogOf(r)[n].seq
      BY <1>4, <2>4, <3>1 DEF LosslessInv, Sorted, LogOf
    <3> QED BY <2>3, <3>1, <3>2
  <2>5. SingleWriter(JournalOf[r]) => StartsAtTail(r)'
    BY <2>1, <2>3, <2>4 DEF StartsAtTail
  <2>6. GotSeen(r)'
    BY <2>1, <2>2 DEF GotSeen
  <2> QED BY <1>1, <2>1, <2>2, <2>5, <2>6 DEF LaggedInv, SingleWriter, Writes
<1>8. CASE r = q /\ RecvLook(q) /\ RecvEvent(q)
  <2>1. UNCHANGED <<head, sub, base>> /\ UNCHANGED LogOf(r) /\ invalid[r] = 0
    BY <1>1, <1>8 DEF RecvLook, RecvEvent, logVars, LogOf
  <2>2. PICK i \in Unseen(r) :
          lastSeen'[r] = log[JournalOf[r]][i].seq /\ got'[r] = got[r] \cup {i}
    BY <1>8 DEF RecvEvent, TypeOK
  <2>3. /\ i \in head[JournalOf[r]] + 1 .. Len(LogOf(r)) /\ lastSeen'[r] = LogOf(r)[i].seq
        /\ LogOf(r)[i].seq > lastSeen[r]
    BY <2>2 DEF Unseen, LogOf
  <2>4. i \in 1 .. Len(LogOf(r)) /\ LogOf(r)[i].seq \in Nat /\ lastSeen[r] \in Nat
    BY <2>3, ReaderLog
  <2>5. StartsAtTail(r) => StartsAtTail(r)'
    <3> SUFFICES ASSUME StartsAtTail(r), NEW k \in 1 .. base[r],
                        LogOf(r)[k].seq <= lastSeen[r]
                 PROVE  LogOf(r)[k].seq <= lastSeen'[r]
      BY <2>1 DEF StartsAtTail
    <3>1. k \in 1 .. Len(LogOf(r))
      BY ReaderLog DEF StartsAtTail
    <3>2. LogOf(r)[k].seq \in Nat
      BY <3>1, ReaderLog
    <3> QED BY <2>3, <2>4, <3>2
  <2>6. GotSeen(r) => GotSeen(r)'
    <3> SUFFICES ASSUME GotSeen(r), NEW k \in got[r] \cup {i}
                 PROVE  k \in 1 .. Len(LogOf(r)) /\ LogOf(r)[k].seq <= lastSeen'[r]
      BY <2>1, <2>2 DEF GotSeen
    <3>1. CASE k = i
      BY <2>3, <2>4, <3>1
    <3>2. CASE k \in got[r]
      <4>1. k \in 1 .. Len(LogOf(r)) /\ LogOf(r)[k].seq <= lastSeen[r]
        BY <3>2 DEF GotSeen
      <4>2. LogOf(r)[k].seq \in Nat
        BY <4>1, ReaderLog
      <4> QED BY <4>1, <4>2, <2>3, <2>4
    <3> QED BY <3>1, <3>2
  <2>7. sub[r] # "none"
    BY <1>8 DEF RecvLook, OnlyReadersRead
  <2> QED BY <1>1, <2>1, <2>5, <2>6, <2>7 DEF LaggedInv, SingleWriter, Writes
<1> QED BY <1>5, <1>6, <1>7, <1>8

(* Everything else leaves the journals and the readers' state alone. *)
LEMMA LaggedOthers ==
    ASSUME TypeOK, LosslessInv, LaggedInv,
           \/ \E p \in Publishers :
                 PublishBegin(p) \/ PublishDedup(p) \/ PublishTakeSeq(p) \/ PublishCheck(p)
                   \/ PublishNotify(p)
           \/ CloseStep
           \/ UNCHANGED vars
    PROVE  LaggedInv'
<1>1. UNCHANGED <<log, head, sub, lastSeen, invalid, base, got>>
  BY DEF PublishBegin, PublishDedup, PublishTakeSeq, PublishCheck, PublishNotify, CloseStep,
         vars, pubVars, logVars, readerVars
<1>2. ASSUME NEW r \in Readers PROVE LaggedInv!(r)'
  <2>1. head'[JournalOf[r]] \in Nat /\ head[JournalOf[r]] <= head'[JournalOf[r]]
    BY <1>1, ReaderLog
  <2> QED BY <1>1, <2>1, LaggedTrim
<1> QED BY <1>2 DEF LaggedInv

LEMMA LaggedNext ==
    TypeOK /\ LosslessInv /\ OnlyReadersRead /\ LaggedInv /\ [Next]_vars => LaggedInv'
<1> SUFFICES ASSUME TypeOK, LosslessInv, OnlyReadersRead, LaggedInv, [Next]_vars PROVE LaggedInv' OBVIOUS
<1>1. CASE \E p \in Publishers : PublishPush(p)
  BY <1>1, LaggedPush
<1>2. CASE \E r \in Readers :
             Subscribe(r) \/ RecvArm(r) \/ RecvLook(r) \/ RecvWake(r) \/ DropStream(r)
  BY <1>2, LaggedReader
<1> QED BY <1>1, <1>2, LaggedOthers DEF Next

(* A reader of a journal with one publisher is told Lagged only if an event   *)
(* written since it subscribed has been trimmed away before it read it.       *)
THEOREM LaggedIsNoFalseAlarm == Spec => []LaggedMeansLost
<1>1. LaggedInv => LaggedMeansLost
  BY DEF LaggedInv, LaggedMeansLost
<1>2. Init => OnlyReadersRead
  BY DEF Init, OnlyReadersRead
<1> QED BY <1>1, <1>2, TypeCorrect, LosslessInit, LosslessNext, LaggedInit, LaggedNext,
           OnlyReadersReadNext, PTL DEF Spec

(***************************************************************************)
(* The journal of all events, when it has one publisher, implements        *)
(* ReliableStream.  A reader's place in the stream is where its            *)
(* subscription began plus what it was delivered; of the events that are   *)
(* retained its cursor tells those up to its place from those after it     *)
(* (AtPlace), so trimming takes exactly what more than MaxRetained behind  *)
(* means.                                                                  *)
(***************************************************************************)
StreamReaders == {q \in Readers : JournalOf[q] = "all"}
All == log["all"]
Place(r) == base[r] + Cardinality(got[r])

InOrder(r) == \E n \in Nat : got[r] = base[r] + 1 .. base[r] + n
AtPlace(r) ==
    /\ head["all"] <= Place(r) /\ Place(r) <= Len(All)
    /\ \A i \in head["all"] + 1 .. Len(All) : All[i].seq <= lastSeen[r] <=> i <= Place(r)

NumbersLimited ==
    /\ nextSeq <= MaxSeq
    /\ \A p \in Publishers : pub[p].at \in {"dedup", "seq"} => nextSeq < MaxSeq

(* Only who holds a stream is in recv() on it. *)
ReadersLive == \A r \in Readers : sub[r] = "dropped" => recv[r] = "out"

SideInv == NumbersLimited /\ ReadersLive
StreamInv ==
    /\ SideInv
    /\ \A r \in StreamReaders : InOrder(r) /\ (Reading(r) => AtPlace(r))

(* All that the proofs below build on. *)
Base == TypeOK /\ LosslessInv /\ OnlyReadersRead /\ LaggedInv /\ StreamInv

LEMMA Spans ==
    ASSUME NEW b \in Nat, NEW n \in Nat
    PROVE  Cardinality(b + 1 .. b + n) = n
<1> DEFINE lo == b + 1
           hi == b + n
<1>1. lo \in Int /\ hi \in Int /\ lo = b + 1 /\ hi = b + n
  OBVIOUS
<1> HIDE DEF lo, hi
<1>2. Cardinality(lo .. hi) = IF lo > hi THEN 0 ELSE hi - lo + 1
  BY <1>1, FS_Interval
<1>3. Cardinality(lo .. hi) = n
  BY <1>1, <1>2
<1> QED BY <1>1, <1>3

LEMMA PlaceIsNat ==
    ASSUME NEW r \in StreamReaders, base[r] \in Nat, InOrder(r)
    PROVE  /\ Place(r) \in Nat /\ Cardinality(got[r]) \in Nat
           /\ got[r] = base[r] + 1 .. Place(r)
<1>1. PICK n \in Nat : got[r] = base[r] + 1 .. base[r] + n
  BY DEF InOrder
<1>2. Cardinality(base[r] + 1 .. base[r] + n) = n
  BY Spans
<1> QED BY <1>1, <1>2 DEF Place

LEMMA PlaceUnchanged ==
    ASSUME NEW r \in StreamReaders, UNCHANGED <<base[r], got[r]>>
    PROVE  Place(r)' = Place(r) /\ InOrder(r)' = InOrder(r)
BY DEF Place, InOrder

(* The stream of one publisher. *)
LEMMA OneStream ==
    ASSUME TypeOK, LosslessInv, SingleWriter("all")
    PROVE  /\ All \in Seq(Events) /\ Len(All) \in Nat /\ head["all"] \in Nat
           /\ head["all"] <= Len(All)
           /\ \A i \in 1 .. Len(All) : All[i].seq \in Nat
           /\ \A i, k \in 1 .. Len(All) : i < k => All[i].seq < All[k].seq
           /\ \A r \in Readers : lastSeen[r] \in Nat /\ base[r] \in Nat
<1>1. "all" \in Journals BY DEF Journals
<1>2. Sorted("all") BY <1>1 DEF LosslessInv
<1>3. \A i \in 1 .. Len(All) : All[i].seq \in 1 .. nextSeq
  BY <1>1 DEF LosslessInv, SeqBounds, All
<1>4. nextSeq \in Nat BY DEF TypeOK
<1>5. All \in Seq(Events) /\ head["all"] \in Nat /\ head["all"] <= Len(All)
  BY <1>1 DEF TypeOK, All
<1>6. Len(All) \in Nat BY <1>5
<1>7. \A r \in Readers : lastSeen[r] \in Nat /\ base[r] \in Nat
  BY DEF TypeOK
<1>8. \A i \in 1 .. Len(All) : All[i].seq \in Nat
  BY <1>3, <1>4
<1> QED BY <1>2, <1>5, <1>6, <1>7, <1>8 DEF Sorted, All

LEMMA StreamInit == Init => StreamInv
<1> SUFFICES ASSUME Init PROVE StreamInv OBVIOUS
<1>1. NumbersLimited
  BY HubAssumption DEF Init, NumbersLimited, Idle
<1>2. ASSUME NEW r \in StreamReaders PROVE InOrder(r) /\ ~Reading(r)
  <2>1. r \in Readers BY DEF StreamReaders
  <2>2. got[r] = {} /\ base[r] = 0 /\ sub[r] = "none"
    BY <2>1 DEF Init
  <2>3. got[r] = base[r] + 1 .. base[r] + 0
    BY <2>2
  <2> QED BY <2>2, <2>3 DEF InOrder, Reading
<1>3. ReadersLive
  BY DEF Init, ReadersLive
<1> QED BY <1>1, <1>2, <1>3 DEF StreamInv, SideInv

(* Sequence numbers stay in bounds: who is about to take one is alone.      *)
LEMMA NumbersNext ==
    ASSUME TypeOK, LosslessInv, StreamInv, SingleWriter("all"), [Next]_vars
    PROVE  NumbersLimited'
<1> USE DEF NumbersLimited, TypeOK
<1>0. NumbersLimited BY DEF StreamInv, SideInv
<1>a. nextSeq \in Nat /\ MaxSeq \in Nat BY HubAssumption
<1>1. ASSUME NEW p \in Publishers, PublishTakeSeq(p) PROVE NumbersLimited'
  <2>1. nextSeq < MaxSeq /\ pub[p].item \in Emits[p]
    BY <1>0, <1>1 DEF PublishTakeSeq, LosslessInv, OwnItems
  <2>2. ASSUME NEW q \in Publishers, q # p PROVE pub[q].at \notin {"dedup", "seq"}
    <3>1. pub[q].at \in {"dedup", "seq"} => pub[q].item \in Emits[q]
      BY DEF LosslessInv, OwnItems
    <3> QED BY <2>1, <2>2, <3>1 DEF SingleWriter, Writes
  <2>3. nextSeq' = nextSeq + 1 /\ pub'[p].at = "check" /\ \A q \in Publishers \ {p} : pub'[q] = pub[q]
    BY <1>1 DEF PublishTakeSeq
  <2>4. \A q \in Publishers : pub'[q].at \notin {"dedup", "seq"}
    BY <2>2, <2>3
  <2> QED BY <2>1, <2>3, <2>4, <1>a
<1>2. ASSUME NEW p \in Publishers, PublishBegin(p) PROVE NumbersLimited'
  BY <1>0, <1>2 DEF PublishBegin
<1>3. ASSUME NEW p \in Publishers, PublishDedup(p) PROVE NumbersLimited'
  BY <1>0, <1>3 DEF PublishDedup, Idle
<1>4. ASSUME NEW p \in Publishers, PublishCheck(p) \/ PublishNotify(p) PROVE NumbersLimited'
  <2>1. nextSeq' = nextSeq /\ pub'[p].at \notin {"dedup", "seq"} /\ \A q \in Publishers \ {p} : pub'[q] = pub[q]
    BY <1>4 DEF PublishCheck, PublishNotify, Continue, Idle, At
  <2> QED BY <1>0, <2>1
<1>5. ASSUME NEW p \in Publishers, PublishPush(p) PROVE NumbersLimited'
  <2>1. nextSeq' = nextSeq /\ pub' = [pub EXCEPT ![p] = At(p, "notify")]
    BY <1>5, Zenon DEF PublishPush
  <2>2. pub'[p].at \notin {"dedup", "seq"} /\ \A q \in Publishers \ {p} : pub'[q] = pub[q]
    BY <2>1 DEF At
  <2> QED BY <1>0, <2>1, <2>2
<1>6. ASSUME NEW r \in Readers,
             Subscribe(r) \/ RecvArm(r) \/ RecvLook(r) \/ RecvWake(r) \/ DropStream(r)
      PROVE  NumbersLimited'
  BY <1>0, <1>6 DEF Subscribe, RecvArm, RecvLook, RecvWake, DropStream, pubVars
<1>7. CASE CloseStep
  BY <1>0, <1>7 DEF CloseStep
<1>8. CASE UNCHANGED vars
  BY <1>0, <1>8 DEF vars, pubVars
<1> QED BY <1>1, <1>2, <1>3, <1>4, <1>5, <1>6, <1>7, <1>8 DEF Next
(* What publishing does to the places of the readers: the limit takes       *)
(* something from exactly those that are too far behind.                    *)
LEMMA StreamPush ==
    ASSUME Base, SingleWriter("all"), NEW p \in Publishers, PublishPush(p), pub[p].journal = "all"
    PROVE  /\ All' = Append(All, pub[p].event) /\ pub[p].event \in Events
           /\ pub[p].event.seq \in 1 .. nextSeq
           /\ UNCHANGED <<sub, base, got, lastSeen>>
           /\ \A r \in StreamReaders :
                 /\ ~Reading(r) => invalid'[r] = invalid[r]
                 /\ Reading(r) => (invalid'[r] # 0 <=> Len(All) + 1 - Place(r) > MaxRetained)
                 /\ Reading(r)' => AtPlace(r)'
<1> USE DEF Base
<1>0. PICK j \in Journals, e \in Events, lg \in Seq(Events), t1, t2, t3 \in Nat :
        PushOutcome(p, j, e, lg, t1, t2, t3)
  BY PushEffect
<1> DEFINE n == Len(All)
<1>1. j = "all" /\ pub[p].event = e
  BY <1>0 DEF PushOutcome
<1>2. /\ Len(lg) = n + 1
      /\ \A i \in 1 .. n : lg[i] = All[i]
      /\ lg[n + 1] = e
      /\ head["all"] <= t1 /\ t1 <= t2 /\ t2 <= t3 /\ t3 <= Len(lg)
      /\ t2 = Limited(lg, t1)
      /\ log' = [log EXCEPT !["all"] = lg] /\ head' = [head EXCEPT !["all"] = t3]
  BY <1>0, <1>1 DEF PushOutcome, All
<1>3. /\ TrimsTo(lg, head["all"], Valid("all", invalid), t1)
      /\ TrimsTo(lg, t2, Valid("all", invalid'), t3)
      /\ \A r \in Valid("all", invalid), i \in t1 + 1 .. t2 :
            invalid'[r] = 0 => lg[i].seq <= lastSeen[r]
      /\ \A r \in Readers : invalid'[r] = 0 => invalid[r] = 0
      /\ \A r \in Readers : invalid'[r] = invalid[r] \/
            \E i \in t1 + 1 .. t2 :
               r \in Valid("all", invalid) /\ lastSeen[r] < lg[i].seq /\ invalid'[r] = lg[i].seq
  BY <1>0, <1>1 DEF PushOutcome
<1>4. UNCHANGED <<sub, base, got, lastSeen>>
  <2>1. UNCHANGED <<nextSeq, emitted, sub, lastSeen, recv, woken, base, got,
                    hubClosed, jClosed, closing>>
    BY Zenon DEF PublishPush
  <2> QED BY <2>1
<1>5. /\ n \in Nat /\ head["all"] \in Nat /\ head["all"] <= n /\ All \in Seq(Events)
      /\ \A i \in 1 .. n : All[i].seq \in Nat
      /\ \A r \in Readers : lastSeen[r] \in Nat /\ base[r] \in Nat
  BY OneStream
<1>6. pub[p].at = "push" /\ e.seq \in 1 .. nextSeq /\ nextSeq \in Nat
  BY <1>1 DEF PublishPush, LosslessInv, SeqBounds, TypeOK
<1>7. "all" \in Journals BY DEF Journals
<1>8. All' = lg /\ head'["all"] = t3
  BY <1>2, <1>7 DEF TypeOK, All
<1>9. All' = Append(All, e)
  <2>1. Append(All, e) \in Seq(Events) /\ Len(Append(All, e)) = n + 1
    BY <1>5, AppendEvent
  <2>2. \A i \in 1 .. n + 1 : lg[i] = Append(All, e)[i]
    <3>1. \A i \in 1 .. n : Append(All, e)[i] = All[i]
      BY <1>5, AppendEvent
    <3>2. Append(All, e)[n + 1] = e
      BY <1>5, AppendEvent
    <3> QED BY <3>1, <3>2, <1>2, <1>5
  <2> QED BY <2>1, <2>2, <1>2, <1>8, SeqEqual
<1> HIDE DEF n
<1>10. ASSUME NEW r \in Readers, NEW i \in 1 .. n PROVE All[i].seq < e.seq
  <2>1. Ahead("all")
    BY <1>7 DEF LosslessInv
  <2> QED BY <2>1, <1>1, <1>6 DEF Ahead, StillToWrite, All, n
<1>11. ASSUME NEW r \in Readers, JournalOf[r] = "all" PROVE lastSeen[r] < e.seq
  <2>1. lastSeen[r] = 0 \/ \E i \in 1 .. n : lastSeen[r] = All[i].seq
    BY <1>11 DEF LosslessInv, CursorsInLog, LogOf, All, n
  <2> QED BY <2>1, <1>10, <1>5, <1>6
<1>12. ASSUME NEW r \in StreamReaders, ~Reading(r) PROVE invalid'[r] = invalid[r]
  BY <1>12, <1>3 DEF Valid, Reading, StreamReaders
<1>13. ASSUME NEW r \in StreamReaders, Reading(r)
       PROVE  /\ invalid'[r] # 0 <=> n + 1 - Place(r) > MaxRetained
              /\ invalid'[r] = 0 => AtPlace(r)'
  <2>1. r \in Valid("all", invalid) /\ r \in Readers /\ JournalOf[r] = "all" /\ invalid[r] = 0
    BY <1>13 DEF Valid, Reading, StreamReaders
  <2>2. InOrder(r) /\ AtPlace(r)
    BY <1>13 DEF StreamInv
  <2>3. Place(r) \in Nat
    BY <2>1, <2>2, <1>5, PlaceIsNat
  <2> DEFINE place == Place(r)
             seen == lastSeen[r]
  <2> HIDE DEF place, seen
  <2>4. head["all"] <= place /\ place <= n /\ place \in Nat /\ seen \in Nat
    BY <2>1, <2>2, <2>3, <1>5 DEF AtPlace, place, seen, n
  <2>5. \A i \in head["all"] + 1 .. n + 1 : lg[i].seq \in Nat /\ (lg[i].seq <= seen <=> i <= place)
    <3> SUFFICES ASSUME NEW i \in head["all"] + 1 .. n + 1
                 PROVE  lg[i].seq \in Nat /\ (lg[i].seq <= seen <=> i <= place)
      OBVIOUS
    <3>1. CASE i = n + 1
      <4>1. lg[i].seq = e.seq /\ e.seq \in Nat
        BY <3>1, <1>2, <1>6
      <4>2. seen < e.seq
        BY <2>1, <1>11 DEF seen
      <4> QED BY <4>1, <4>2, <3>1, <2>4, <1>5
    <3>2. CASE i # n + 1
      <4>1. i \in 1 .. n /\ i \in head["all"] + 1 .. n
        BY <3>2, <1>5
      <4>2. lg[i] = All[i] /\ All[i].seq \in Nat
        BY <4>1, <1>2, <1>5
      <4>3. All[i].seq <= seen <=> i <= place
        BY <4>1, <2>2 DEF AtPlace, place, seen, n
      <4> QED BY <4>2, <4>3
    <3> QED BY <3>1, <3>2
  <2>6. \A i \in head["all"] + 1 .. t1 : lg[i].seq <= seen
    BY <1>3, <2>1 DEF TrimsTo, seen
  <2>7. t1 <= place
    <3>1. t1 = head["all"] \/ t1 \in head["all"] + 1 .. t1
      BY <1>2, <1>5
    <3>2. t1 \in head["all"] + 1 .. t1 => t1 \in head["all"] + 1 .. n + 1
      BY <1>2, <1>5
    <3> QED BY <3>1, <3>2, <2>4, <2>5, <2>6
  <2>8. invalid'[r] # 0 => place < t2
    <3> SUFFICES ASSUME invalid'[r] # 0 PROVE place < t2 OBVIOUS
    <3>1. PICK i \in t1 + 1 .. t2 : seen < lg[i].seq
      BY <1>3, <2>1 DEF seen
    <3>2. i \in head["all"] + 1 .. n + 1 /\ i <= t2
      BY <1>2, <1>5
    <3>3. ~ (i <= place)
      BY <3>1, <3>2, <2>4, <2>5
    <3> QED BY <3>2, <3>3, <2>4, <1>5
  <2>9. place < t2 => invalid'[r] # 0
    <3> SUFFICES ASSUME place < t2, invalid'[r] = 0 PROVE FALSE OBVIOUS
    <3>1. t2 \in t1 + 1 .. t2 /\ t2 \in head["all"] + 1 .. n + 1
      BY <2>4, <2>7, <1>2, <1>5
    <3>2. lg[t2].seq <= seen
      BY <3>1, <1>3, <2>1 DEF seen
    <3> QED BY <3>1, <3>2, <2>5, <2>4
  <2>10. place < t2 <=> n + 1 - place > MaxRetained
    BY <1>2, <1>5, <2>4, <2>7, HubAssumption DEF Limited
  <2>11. ASSUME invalid'[r] = 0 PROVE AtPlace(r)'
    <3>1. t2 <= place
      BY <2>9, <2>11, <2>4, <1>2
    <3>2. r \in Valid("all", invalid')
      BY <2>1, <2>11, <1>4 DEF Valid
    <3>3. \A i \in t2 + 1 .. t3 : lg[i].seq <= seen
      BY <1>3, <3>2 DEF TrimsTo, seen
    <3>4. t3 <= place
      <4>1. t3 = t2 \/ (t3 \in t2 + 1 .. t3 /\ t3 \in head["all"] + 1 .. n + 1)
        BY <1>2, <1>5
      <4> QED BY <4>1, <3>1, <3>3, <2>5
    <3>5. Place(r)' = place /\ lastSeen'[r] = seen
      BY <1>4 DEF Place, place, seen
    <3>6. t3 + 1 .. n + 1 \subseteq head["all"] + 1 .. n + 1
      BY <1>2, <1>5
    <3> QED BY <3>4, <3>5, <3>6, <2>4, <2>5, <1>2, <1>5, <1>8 DEF AtPlace
  <2> QED BY <2>8, <2>9, <2>10, <2>11 DEF place
<1>14. ASSUME NEW r \in StreamReaders, Reading(r)' PROVE AtPlace(r)'
  <2>1. Reading(r) /\ invalid'[r] = 0
    BY <1>14, <1>3, <1>4 DEF Reading, StreamReaders
  <2> QED BY <2>1, <1>13
<1> QED BY <1>1, <1>4, <1>6, <1>9, <1>12, <1>13, <1>14 DEF n
(* What each step is of the stream. *)
StatusOf(r) == IF sub[r] # "live" THEN sub[r]
               ELSE IF invalid[r] # 0 THEN "lagged" ELSE "reading"
SameStream ==
    UNCHANGED All /\ \A r \in StreamReaders : UNCHANGED <<sub[r], invalid[r], base[r], got[r]>>

LEMMA StatusIs ==
    ASSUME TypeOK, NEW r \in Readers
    PROVE  /\ StatusOf(r) = "reading" <=> Reading(r)
           /\ StatusOf(r) = "lagged" <=> sub[r] = "live" /\ invalid[r] # 0
           /\ StatusOf(r) = "none" <=> sub[r] = "none"
           /\ StatusOf(r) = "dropped" <=> sub[r] = "dropped"
           /\ StatusOf(r) \in {"none", "dropped", "lagged", "reading"}
<1>1. sub[r] \in {"none", "live", "dropped"}
  BY DEF TypeOK
<1>2. CASE sub[r] # "live"
  <2>1. StatusOf(r) = sub[r]
    BY <1>2 DEF StatusOf
  <2> QED BY <2>1, <1>1, <1>2 DEF Reading
<1>3. CASE sub[r] = "live" /\ invalid[r] # 0
  BY <1>3 DEF StatusOf, Reading
<1>4. CASE sub[r] = "live" /\ invalid[r] = 0
  BY <1>4 DEF StatusOf, Reading
<1> QED BY <1>1, <1>2, <1>3, <1>4

(* The stream's variables are functions on its readers. *)
StreamStatus == [r \in StreamReaders |-> StatusOf(r)]
StreamStart == [r \in StreamReaders |-> base[r]]
StreamDelivered == [r \in StreamReaders |-> got[r]]

LEMMA StreamStutters == ASSUME SameStream PROVE UNCHANGED Stream!vars
<1>1. UNCHANGED <<StreamStatus, StreamStart, StreamDelivered>>
  BY DEF SameStream, StreamStatus, StreamStart, StreamDelivered, StatusOf
<1> QED BY <1>1 DEF SameStream, Stream!vars, All, StreamReaders, StreamStatus, StreamStart,
                    StreamDelivered, StatusOf

(* What keeps the invariant when the stream stays the same. *)
LEMMA StreamKept ==
    ASSUME Base, SingleWriter("all"), SideInv', SameStream,
           head'["all"] \in Nat, head["all"] <= head'["all"],
           \A r \in StreamReaders : lastSeen'[r] = lastSeen[r],
           \A r \in StreamReaders : Reading(r) /\ AtPlace(r) => head'["all"] <= Place(r)
    PROVE  StreamInv'
<1> USE DEF Base
<1>1. ASSUME NEW r \in StreamReaders PROVE InOrder(r)' /\ (Reading(r)' => AtPlace(r)')
  <2>1. InOrder(r)' = InOrder(r) /\ Place(r)' = Place(r)
    BY PlaceUnchanged DEF SameStream
  <2>2. Reading(r)' = Reading(r)
    BY DEF SameStream, Reading
  <2>3. InOrder(r) /\ (Reading(r) => AtPlace(r))
    BY DEF StreamInv
  <2>4. ASSUME Reading(r) PROVE AtPlace(r)'
    <3>1. AtPlace(r) /\ head'["all"] <= Place(r)
      BY <2>3, <2>4
    <3>2. Len(All) \in Nat /\ head["all"] \in Nat
      BY OneStream
    <3>3. \A i \in head'["all"] + 1 .. Len(All) : i \in head["all"] + 1 .. Len(All)
      BY <3>2
    <3> QED BY <2>1, <3>1, <3>3 DEF AtPlace, SameStream
  <2> QED BY <2>1, <2>2, <2>3, <2>4
<1> QED BY <1>1 DEF StreamInv

LEMMA SameCount == \A S : Stream!Cardinality(S) = Cardinality(S)
BY DEF Stream!Cardinality, Cardinality

LEMMA StreamPosition ==
    \A r \in StreamReaders : Stream!Position(r) = Place(r)
<1>1. ASSUME NEW r \in StreamReaders PROVE Stream!Position(r) = Place(r)
  <2>1. Stream!Position(r) = base[r] + Stream!Cardinality(got[r])
    BY DEF Stream!Position, StreamReaders
  <2> QED BY <2>1, SameCount DEF Place
<1> QED BY <1>1

LEMMA StreamPublishes ==
    ASSUME Base, SingleWriter("all"), SideInv', NEW p \in Publishers, PublishPush(p),
           pub[p].journal = "all"
    PROVE  Stream!Next
<1> USE DEF Base
<1> DEFINE e == pub[p].event
<1>1. /\ All' = Append(All, e) /\ e \in Events /\ e.seq \in 1 .. nextSeq
      /\ UNCHANGED <<sub, base, got, lastSeen>>
      /\ \A r \in StreamReaders :
            /\ ~Reading(r) => invalid'[r] = invalid[r]
            /\ Reading(r) => (invalid'[r] # 0 <=> Len(All) + 1 - Place(r) > MaxRetained)
  BY StreamPush
<1>2. e \in [seq : 1 .. MaxSeq, item : Items]
  <2>1. nextSeq <= MaxSeq /\ nextSeq \in Nat /\ MaxSeq \in Nat
    BY HubAssumption DEF StreamInv, SideInv, NumbersLimited, TypeOK
  <2> QED BY <1>1, <2>1 DEF Events
<1> HIDE DEF e
<1>3. Len(All') = Len(All) + 1
  <2>1. All \in Seq(Events) BY OneStream
  <2> QED BY <2>1, <1>1, AppendEvent
<1>4. ASSUME NEW r \in StreamReaders
      PROVE  StatusOf(r)' = IF StatusOf(r) = "reading" /\ Len(All') - Place(r) > MaxRetained
                            THEN "lagged" ELSE StatusOf(r)
  <2>1. r \in Readers BY DEF StreamReaders
  <2>2. sub'[r] = sub[r] BY <1>1
  <2>3. CASE ~Reading(r)
    <3>1. invalid'[r] = invalid[r]
      BY <1>1, <2>3
    <3>2. StatusOf(r)' = StatusOf(r)
      BY <2>2, <3>1 DEF StatusOf
    <3> QED BY <2>1, <2>3, <3>2, StatusIs
  <2>4. CASE Reading(r)
    <3>1. sub[r] = "live" /\ StatusOf(r) = "reading"
      BY <2>1, <2>4, StatusIs DEF Reading
    <3>2. invalid'[r] # 0 <=> Len(All') - Place(r) > MaxRetained
      <4>1. Len(All) \in Nat /\ Place(r) \in Nat
        BY OneStream, PlaceIsNat, <2>1 DEF StreamInv
      <4>2. invalid'[r] # 0 <=> Len(All) + 1 - Place(r) > MaxRetained
        BY <1>1, <2>4
      <4> QED BY <4>1, <4>2, <1>3
    <3>3. StatusOf(r)' = IF invalid'[r] # 0 THEN "lagged" ELSE "reading"
      BY <2>2, <3>1 DEF StatusOf
    <3> QED BY <3>1, <3>2, <3>3
  <2> QED BY <2>3, <2>4
<1>5. StreamStatus' = [r \in StreamReaders |->
                IF StreamStatus[r] = "reading" /\ Len(All') - Stream!Position(r) > MaxRetained
                THEN "lagged" ELSE StreamStatus[r]]
  BY <1>4, StreamPosition DEF StreamStatus
<1>6. UNCHANGED <<StreamStart, StreamDelivered>>
  BY <1>1 DEF StreamStart, StreamDelivered
<1>7. Stream!Publish(e)
  BY <1>1, <1>5, <1>6
     DEF Stream!Publish, StreamReaders, StreamStatus, StreamStart, StreamDelivered, StatusOf, All
<1>8. \E x \in [seq : 1 .. MaxSeq, item : Items] : Stream!Publish(x)
  BY <1>2, <1>7 DEF Stream!Publish
<1> QED BY <1>8 DEF Stream!Next
(* A step that does not touch the journal of all events or its readers.     *)
LEMMA StreamElsewhere ==
    ASSUME Base, SingleWriter("all"), SideInv', SameStream, UNCHANGED head["all"],
           \A r \in StreamReaders : lastSeen'[r] = lastSeen[r]
    PROVE  StreamInv' /\ UNCHANGED Stream!vars
<1> USE DEF Base
<1>1. head["all"] \in Nat BY OneStream
<1>2. \A r \in StreamReaders : AtPlace(r) => head'["all"] <= Place(r)
  BY DEF AtPlace
<1>3. StreamInv' BY <1>1, <1>2, StreamKept
<1> QED BY <1>3, StreamStutters

LEMMA StreamSubscribe ==
    ASSUME Base, SingleWriter("all"), SideInv', NEW q \in StreamReaders, Subscribe(q)
    PROVE  StreamInv' /\ Stream!Next
<1> USE DEF Base
<1> DEFINE n == Len(All)
<1>1. /\ q \in Readers /\ JournalOf[q] = "all" /\ sub[q] = "none"
      /\ lastSeen' = [lastSeen EXCEPT ![q] = TailCursor("all")]
      /\ base' = [base EXCEPT ![q] = n]
      /\ sub' = [sub EXCEPT ![q] = "live"]
      /\ UNCHANGED <<log, head, invalid, got>>
  BY DEF Subscribe, StreamReaders, logVars, All
<1>2. got[q] = {} /\ invalid[q] = 0
  BY <1>1 DEF LaggedInv
<1>3. /\ n \in Nat /\ head["all"] \in Nat /\ head["all"] <= n
      /\ \A i \in 1 .. n : All[i].seq \in Nat
      /\ \A i, k \in 1 .. n : i < k => All[i].seq < All[k].seq
  BY OneStream
<1>4. /\ lastSeen'[q] = TailCursor("all") /\ base'[q] = n /\ sub'[q] = "live"
      /\ \A r \in Readers \ {q} :
            lastSeen'[r] = lastSeen[r] /\ base'[r] = base[r] /\ sub'[r] = sub[r]
  BY <1>1 DEF TypeOK
<1>5. UNCHANGED All
  BY <1>1 DEF All
<1> HIDE DEF n
<1>6. InOrder(q)' /\ Place(q)' = n
  <2>1. got'[q] = base'[q] + 1 .. base'[q] + 0
    BY <1>1, <1>2, <1>3, <1>4
  <2>2. InOrder(q)'
    BY <2>1 DEF InOrder
  <2>3. Cardinality(got'[q]) = 0
    BY <1>1, <1>2, FS_EmptySet
  <2> QED BY <2>2, <2>3, <1>3, <1>4 DEF Place
<1>7. AtPlace(q)'
  <2>1. ASSUME NEW i \in head["all"] + 1 .. n PROVE All[i].seq <= lastSeen'[q]
    <3>1. i \in 1 .. n /\ n \in 1 .. n /\ head["all"] # n
      BY <1>3
    <3>2. lastSeen'[q] = All[n].seq
      BY <3>1, <1>4 DEF TailCursor, All, n
    <3>3. i = n \/ All[i].seq < All[n].seq
      BY <3>1, <1>3
    <3> QED BY <3>1, <3>2, <3>3, <1>3
  <2> QED BY <2>1, <1>1, <1>3, <1>5, <1>6 DEF AtPlace, n
<1>8. ASSUME NEW r \in StreamReaders, r # q PROVE InOrder(r)' /\ (Reading(r)' => AtPlace(r)')
  <2>1. UNCHANGED <<base[r], got[r], lastSeen[r], sub[r], invalid[r]>>
    BY <1>1, <1>4, <1>8 DEF StreamReaders
  <2>2. InOrder(r)' = InOrder(r) /\ Place(r)' = Place(r)
    BY <2>1, PlaceUnchanged
  <2>3. Reading(r)' = Reading(r)
    BY <2>1 DEF Reading
  <2>4. AtPlace(r)' = AtPlace(r)
    BY <2>1, <2>2, <1>1, <1>5 DEF AtPlace
  <2> QED BY <2>2, <2>3, <2>4 DEF StreamInv
<1>9. StreamInv'
  BY <1>6, <1>7, <1>8 DEF StreamInv
<1>10. StatusOf(q) = "none" /\ StatusOf(q)' = "reading"
  BY <1>1, <1>2, <1>4 DEF StatusOf
<1>11. StreamStatus' = [StreamStatus EXCEPT ![q] = "reading"]
  <2>1. \A r \in StreamReaders \ {q} : StatusOf(r)' = StatusOf(r)
    BY <1>1, <1>4 DEF StatusOf, StreamReaders
  <2> QED BY <2>1, <1>10 DEF StreamStatus
<1>12. StreamStart' = [StreamStart EXCEPT ![q] = n]
  <2>1. \A r \in StreamReaders \ {q} : base'[r] = base[r]
    BY <1>4 DEF StreamReaders
  <2> QED BY <2>1, <1>4 DEF StreamStart
<1>13. StreamStatus[q] = "none" /\ UNCHANGED StreamDelivered
  BY <1>1, <1>10 DEF StreamStatus, StreamDelivered
<1>14. Stream!Subscribe(q)
  BY <1>5, <1>11, <1>12, <1>13
     DEF Stream!Subscribe, StreamReaders, StreamStatus, StreamStart, StreamDelivered, StatusOf, All, n
<1>15. Stream!Next
  BY <1>14 DEF Stream!Next, Stream!Subscribe, StreamReaders
<1> QED BY <1>9, <1>15
(* What a reader is handed is the next event of the stream. *)
LEMMA StreamDelivers ==
    ASSUME Base, SingleWriter("all"), SideInv', NEW q \in StreamReaders,
           RecvLook(q), RecvEvent(q)
    PROVE  StreamInv' /\ Stream!Next
<1> USE DEF Base
<1> DEFINE n == Len(All)
           place == Place(q)
<1>1. /\ q \in Readers /\ JournalOf[q] = "all" /\ invalid[q] = 0
      /\ UNCHANGED <<log, head, sub, invalid, base>>
  BY DEF RecvLook, RecvEvent, StreamReaders, logVars
<1>2. PICK i \in Unseen(q) :
        /\ IsFirst(i, Unseen(q))
        /\ lastSeen' = [lastSeen EXCEPT ![q] = log["all"][i].seq]
        /\ got' = [got EXCEPT ![q] = @ \cup {i}]
  BY <1>1 DEF RecvEvent
<1>3. /\ lastSeen'[q] = All[i].seq /\ got'[q] = got[q] \cup {i}
      /\ \A r \in Readers \ {q} : lastSeen'[r] = lastSeen[r] /\ got'[r] = got[r]
  BY <1>1, <1>2 DEF TypeOK, All
<1>4. /\ n \in Nat /\ head["all"] \in Nat /\ head["all"] <= n
      /\ \A k \in 1 .. n : All[k].seq \in Nat
      /\ \A k, m \in 1 .. n : k < m => All[k].seq < All[m].seq
      /\ lastSeen[q] \in Nat /\ base[q] \in Nat
  BY <1>1, OneStream
<1>5. Reading(q)
  <2>1. sub[q] # "none"
    BY <1>1 DEF OnlyReadersRead, RecvLook
  <2>2. sub[q] # "dropped"
    BY <1>1 DEF StreamInv, SideInv, RecvLook, ReadersLive
  <2> QED BY <2>1, <2>2, <1>1 DEF Reading, TypeOK
<1>6. InOrder(q) /\ AtPlace(q)
  BY <1>5 DEF StreamInv
<1>7. place \in Nat /\ Cardinality(got[q]) \in Nat /\ got[q] = base[q] + 1 .. place
      /\ place = base[q] + Cardinality(got[q])
  BY <1>1, <1>4, <1>6, PlaceIsNat DEF Place
<1>8. UNCHANGED All
  BY <1>1 DEF All
<1>9. /\ head["all"] <= place /\ place <= n
      /\ \A k \in head["all"] + 1 .. n : All[k].seq <= lastSeen[q] <=> k <= place
  BY <1>6 DEF AtPlace
<1>10. Unseen(q) = {k \in head["all"] + 1 .. n : All[k].seq > lastSeen[q]}
  BY <1>1 DEF Unseen, All
<1> HIDE DEF n, place
<1>11. ASSUME NEW k \in head["all"] + 1 .. n PROVE k \in Unseen(q) <=> k > place
  <2>1. k \in 1 .. n /\ All[k].seq \in Nat
    BY <1>4
  <2>2. All[k].seq > lastSeen[q] <=> ~ (All[k].seq <= lastSeen[q])
    BY <2>1, <1>4
  <2> QED BY <2>2, <1>4, <1>7, <1>9, <1>10
<1>12. i = place + 1 /\ i \in head["all"] + 1 .. n /\ i \in 1 .. n
  <2>1. i \in head["all"] + 1 .. n
    BY <1>10
  <2>2. i > place
    BY <2>1, <1>11
  <2>3. place + 1 \in head["all"] + 1 .. n
    BY <2>1, <2>2, <1>4, <1>7, <1>9
  <2>4. place + 1 \in Unseen(q)
    BY <2>3, <1>7, <1>11
  <2>5. i <= place + 1
    BY <2>4, <1>2 DEF IsFirst
  <2> QED BY <2>1, <2>2, <2>5, <1>4, <1>7
<1>13. InOrder(q)' /\ Place(q)' = place + 1
  <2> DEFINE m == Cardinality(got[q])
  <2> HIDE DEF m
  <2>1. m \in Nat /\ place = base[q] + m
    BY <1>7 DEF m
  <2>2. got'[q] = base'[q] + 1 .. base'[q] + (m + 1)
    <3>1. base'[q] = base[q] /\ base[q] \in Nat /\ got'[q] = got[q] \cup {place + 1}
      BY <1>1, <1>3, <1>4, <1>12
    <3>2. got[q] = base[q] + 1 .. base[q] + m
      BY <2>1, <1>7
    <3>3. ASSUME NEW b \in Nat
          PROVE  (b + 1 .. b + m) \cup {b + m + 1} = b + 1 .. b + (m + 1)
      BY <2>1
    <3> QED BY <2>1, <3>1, <3>2, <3>3
  <2>3. InOrder(q)'
    BY <2>1, <2>2 DEF InOrder
  <2>4. Cardinality(got'[q]) = m + 1
    <3>1. base'[q] \in Nat /\ m + 1 \in Nat
      BY <2>1, <1>1, <1>4
    <3>2. Cardinality(base'[q] + 1 .. base'[q] + (m + 1)) = m + 1
      BY <3>1, Spans
    <3> QED BY <2>2, <3>2
  <2>5. Place(q)' = base'[q] + Cardinality(got'[q])
    BY DEF Place
  <2>6. Place(q)' = place + 1
    BY <2>1, <2>4, <2>5, <1>1, <1>4
  <2> QED BY <2>3, <2>6
<1>14. AtPlace(q)'
  <2>1. ASSUME NEW k \in head["all"] + 1 .. n PROVE All[k].seq <= All[i].seq <=> k <= place + 1
    <3>1. k \in 1 .. n /\ All[k].seq \in Nat /\ All[i].seq \in Nat
      BY <1>4, <1>12
    <3>2. k < i => All[k].seq < All[i].seq
      BY <3>1, <1>4, <1>12
    <3>3. i < k => All[i].seq < All[k].seq
      BY <3>1, <1>4, <1>12
    <3>4. k \in Nat /\ i \in Nat /\ i = place + 1 /\ place \in Nat
      BY <3>1, <1>7, <1>12
    <3>5. k = i => All[k].seq = All[i].seq
      OBVIOUS
    <3> QED BY <3>1, <3>2, <3>3, <3>4, <3>5
  <2>2. place + 1 <= n /\ head["all"] <= place + 1
    BY <1>4, <1>7, <1>9, <1>12
  <2> QED BY <2>1, <2>2, <1>1, <1>3, <1>8, <1>13 DEF AtPlace, n
<1>15. ASSUME NEW r \in StreamReaders, r # q PROVE InOrder(r)' /\ (Reading(r)' => AtPlace(r)')
  <2>1. UNCHANGED <<base[r], got[r], lastSeen[r], sub[r], invalid[r]>>
    BY <1>1, <1>3, <1>15 DEF StreamReaders
  <2>2. InOrder(r)' = InOrder(r) /\ Place(r)' = Place(r)
    BY <2>1, PlaceUnchanged
  <2>3. Reading(r)' = Reading(r)
    BY <2>1 DEF Reading
  <2>4. AtPlace(r)' = AtPlace(r)
    BY <2>1, <2>2, <1>1, <1>8 DEF AtPlace
  <2> QED BY <2>2, <2>3, <2>4 DEF StreamInv
<1>16. StreamInv'
  BY <1>13, <1>14, <1>15 DEF StreamInv
<1>17. UNCHANGED <<StreamStatus, StreamStart>>
  BY <1>1 DEF StreamStatus, StreamStart, StatusOf
<1>18. StreamDelivered' = [StreamDelivered EXCEPT ![q] = @ \cup {Stream!Position(q) + 1}]
  <2>1. Stream!Position(q) + 1 = i
    BY <1>12, StreamPosition DEF place
  <2>2. \A r \in StreamReaders \ {q} : got'[r] = got[r]
    BY <1>3 DEF StreamReaders
  <2> QED BY <2>1, <2>2, <1>3 DEF StreamDelivered
<1>19. StreamStatus[q] = "reading"
  BY <1>5 DEF StreamStatus, StatusOf, Reading
<1>20. Stream!Position(q) < Len(All)
  <2>1. Stream!Position(q) = place
    BY StreamPosition DEF place
  <2> QED BY <2>1, <1>12, <1>4, <1>7 DEF n
<1>21. Stream!Deliver(q)
  BY <1>8, <1>17, <1>18, <1>19, <1>20
     DEF Stream!Deliver, StreamReaders, StreamStatus, StreamStart, StreamDelivered, StatusOf, All
<1>22. Stream!Next
  BY <1>21 DEF Stream!Next, Stream!Deliver, StreamReaders
<1> QED BY <1>16, <1>22
(* Dropping a stream trims what the other readers of it have seen. *)
LEMMA StreamDrops ==
    ASSUME Base, SingleWriter("all"), SideInv', NEW q \in StreamReaders, DropStream(q)
    PROVE  StreamInv' /\ Stream!Next
<1> USE DEF Base
<1> DEFINE n == Len(All)
<1>1. /\ q \in Readers /\ JournalOf[q] = "all" /\ sub[q] = "live"
      /\ sub' = [sub EXCEPT ![q] = "dropped"]
      /\ UNCHANGED <<log, lastSeen, invalid, base, got>>
  BY DEF DropStream, StreamReaders
<1>2. PICK t \in head["all"] .. Len(log["all"]) :
        /\ TrimsTo(log["all"], head["all"], Valid("all", invalid) \ {q}, t)
        /\ head' = [head EXCEPT !["all"] = t]
  BY <1>1 DEF DropStream
<1>3. "all" \in Journals BY DEF Journals
<1>4. head'["all"] = t /\ UNCHANGED All
  BY <1>1, <1>2, <1>3 DEF TypeOK, All
<1>5. n \in Nat /\ head["all"] \in Nat /\ head["all"] <= n /\ t \in Nat /\ head["all"] <= t /\ t <= n
  BY <1>2, OneStream DEF All
<1>6. sub'[q] = "dropped" /\ \A r \in Readers \ {q} : sub'[r] = sub[r]
  BY <1>1 DEF TypeOK
<1> HIDE DEF n
<1>7. ASSUME NEW r \in StreamReaders PROVE InOrder(r)' /\ (Reading(r)' => AtPlace(r)')
  <2>0. r \in Readers /\ JournalOf[r] = "all" BY DEF StreamReaders
  <2>1. InOrder(r)' = InOrder(r) /\ Place(r)' = Place(r)
    BY <1>1, PlaceUnchanged
  <2>2. InOrder(r) BY DEF StreamInv
  <2>3. ASSUME Reading(r)' PROVE AtPlace(r)'
    <3>1. r # q /\ Reading(r)
      BY <2>0, <2>3, <1>1, <1>6 DEF Reading
    <3>2. AtPlace(r) /\ r \in Valid("all", invalid) \ {q}
      BY <2>0, <3>1 DEF StreamInv, Valid, Reading
    <3>3. /\ head["all"] <= Place(r) /\ Place(r) <= n
          /\ \A i \in head["all"] + 1 .. n : All[i].seq <= lastSeen[r] <=> i <= Place(r)
      BY <3>2 DEF AtPlace, n
    <3>4. \A i \in head["all"] + 1 .. t : All[i].seq <= lastSeen[r]
      BY <1>2, <3>2 DEF TrimsTo, All
    <3>5. t <= Place(r)
      <4>1. t = head["all"] \/ (t \in head["all"] + 1 .. t /\ t \in head["all"] + 1 .. n)
        BY <1>5
      <4> QED BY <4>1, <3>3, <3>4
    <3>6. t + 1 .. n \subseteq head["all"] + 1 .. n
      BY <1>5
    <3> QED BY <2>1, <3>3, <3>5, <3>6, <1>1, <1>4 DEF AtPlace, n
  <2> QED BY <2>1, <2>2, <2>3
<1>8. StreamInv'
  BY <1>7 DEF StreamInv
<1>9. StatusOf(q) \in {"reading", "lagged"} /\ StatusOf(q)' = "dropped"
  BY <1>1, <1>6 DEF StatusOf
<1>10. StreamStatus' = [StreamStatus EXCEPT ![q] = "dropped"]
  <2>1. \A r \in StreamReaders \ {q} : StatusOf(r)' = StatusOf(r)
    BY <1>1, <1>6 DEF StatusOf, StreamReaders
  <2> QED BY <2>1, <1>9 DEF StreamStatus
<1>11. StreamStatus[q] \in {"reading", "lagged"} /\ UNCHANGED <<StreamStart, StreamDelivered>>
  BY <1>1, <1>9 DEF StreamStatus, StreamStart, StreamDelivered
<1>12. Stream!Drop(q)
  BY <1>4, <1>10, <1>11
     DEF Stream!Drop, StreamReaders, StreamStatus, StreamStart, StreamDelivered, StatusOf, All
<1>13. Stream!Next
  BY <1>12 DEF Stream!Next, Stream!Drop, StreamReaders
<1> QED BY <1>8, <1>13

LEMMA ReadersLiveNext == TypeOK /\ ReadersLive /\ [Next]_vars => ReadersLive'
<1> SUFFICES ASSUME TypeOK, ReadersLive, [Next]_vars PROVE ReadersLive' OBVIOUS
<1> USE DEF ReadersLive, TypeOK
<1>1. ASSUME NEW p \in Publishers,
             PublishBegin(p) \/ PublishDedup(p) \/ PublishTakeSeq(p) \/ PublishCheck(p)
               \/ PublishNotify(p)
      PROVE  ReadersLive'
  BY <1>1 DEF PublishBegin, PublishDedup, PublishTakeSeq, PublishCheck, PublishNotify, readerVars
<1>2. ASSUME NEW p \in Publishers, PublishPush(p) PROVE ReadersLive'
  <2>1. UNCHANGED <<nextSeq, emitted, sub, lastSeen, recv, woken, base, got,
                    hubClosed, jClosed, closing>>
    BY <1>2, Zenon DEF PublishPush
  <2> QED BY <2>1
<1>3. ASSUME NEW r \in Readers,
             Subscribe(r) \/ RecvArm(r) \/ RecvLook(r) \/ RecvWake(r) \/ DropStream(r)
      PROVE  ReadersLive'
  BY <1>3 DEF Subscribe, RecvArm, RecvLook, RecvLagged, RecvEvent, RecvClosed, RecvWait,
              RecvReturn, RecvWake, DropStream
<1>4. CASE CloseStep
  BY <1>4 DEF CloseStep
<1>5. CASE UNCHANGED vars
  BY <1>5 DEF vars, readerVars
<1> QED BY <1>1, <1>2, <1>3, <1>4, <1>5 DEF Next

(* Every step of the hub is a step of the stream or leaves it as it is. *)
LEMMA StreamNext ==
    Base /\ SingleWriter("all") /\ [Next]_vars => StreamInv' /\ [Stream!Next]_(Stream!vars)
<1> SUFFICES ASSUME Base, SingleWriter("all"), [Next]_vars
             PROVE  StreamInv' /\ [Stream!Next]_(Stream!vars)
  OBVIOUS
<1> USE DEF Base
<1>0. SideInv'
  BY NumbersNext, ReadersLiveNext DEF StreamInv, SideInv
<1>1. CASE \E p \in Publishers :
              PublishBegin(p) \/ PublishDedup(p) \/ PublishTakeSeq(p) \/ PublishCheck(p)
                \/ PublishNotify(p)
  <2>1. UNCHANGED <<log, head, sub, lastSeen, invalid, base, got>>
    BY <1>1 DEF PublishBegin, PublishDedup, PublishTakeSeq, PublishCheck, PublishNotify,
                logVars, readerVars
  <2> QED BY <2>1, <1>0, StreamElsewhere DEF SameStream, All
<1>2. CASE CloseStep \/ UNCHANGED vars
  <2>1. UNCHANGED <<log, head, sub, lastSeen, invalid, base, got>>
    BY <1>2 DEF CloseStep, vars, pubVars, logVars, readerVars
  <2> QED BY <2>1, <1>0, StreamElsewhere DEF SameStream, All
<1>3. ASSUME NEW p \in Publishers, PublishPush(p)
      PROVE  StreamInv' /\ [Stream!Next]_(Stream!vars)
  <2>1. CASE pub[p].journal = "all"
    <3>1. Stream!Next
      BY <1>0, <1>3, <2>1, StreamPublishes
    <3>2. /\ UNCHANGED <<sub, base, got>>
          /\ \A r \in StreamReaders : Reading(r)' => AtPlace(r)'
      BY <1>3, <2>1, StreamPush
    <3>3. ASSUME NEW r \in StreamReaders PROVE InOrder(r)'
      BY <3>2, PlaceUnchanged DEF StreamInv
    <3> QED BY <1>0, <3>1, <3>2, <3>3 DEF StreamInv
  <2>2. CASE pub[p].journal # "all"
    <3>0. PICK j \in Journals, e \in Events, lg \in Seq(Events), t1, t2, t3 \in Nat :
            PushOutcome(p, j, e, lg, t1, t2, t3)
      BY <1>3, PushEffect
    <3>1. /\ j # "all" /\ log' = [log EXCEPT ![j] = lg] /\ head' = [head EXCEPT ![j] = t3]
          /\ \A r \in Readers : invalid'[r] = invalid[r] \/ r \in Valid(j, invalid)
      BY <2>2, <3>0 DEF PushOutcome
    <3>2. UNCHANGED <<sub, lastSeen, base, got>>
      <4>1. UNCHANGED <<nextSeq, emitted, sub, lastSeen, recv, woken, base, got,
                        hubClosed, jClosed, closing>>
        BY <1>3, Zenon DEF PublishPush
      <4> QED BY <4>1
    <3>3. UNCHANGED All /\ UNCHANGED head["all"]
      BY <3>1 DEF TypeOK, Journals, All
    <3>4. \A r \in StreamReaders : invalid'[r] = invalid[r]
      BY <3>1 DEF StreamReaders, Valid
    <3> QED BY <1>0, <3>2, <3>3, <3>4, StreamElsewhere DEF SameStream
  <2> QED BY <2>1, <2>2
<1>4. ASSUME NEW q \in Readers,
             Subscribe(q) \/ RecvArm(q) \/ RecvLook(q) \/ RecvWake(q) \/ DropStream(q)
      PROVE  StreamInv' /\ [Stream!Next]_(Stream!vars)
  <2>1. CASE RecvArm(q) \/ RecvWake(q) \/ (RecvLook(q) /\ ~RecvEvent(q))
    <3>1. UNCHANGED <<log, head, sub, lastSeen, invalid, base, got>>
      BY <2>1 DEF RecvArm, RecvWake, RecvLook, RecvLagged, RecvClosed, RecvWait, logVars
    <3> QED BY <3>1, <1>0, StreamElsewhere DEF SameStream, All
  <2>2. CASE q \in StreamReaders /\ ~RecvArm(q) /\ ~RecvWake(q) /\ ~(RecvLook(q) /\ ~RecvEvent(q))
    BY <2>2, <1>0, <1>4, StreamSubscribe, StreamDelivers, StreamDrops
  <2>3. CASE q \notin StreamReaders
    <3>1. JournalOf[q] # "all" /\ JournalOf[q] \in Journals
      BY <2>3, HubAssumption DEF StreamReaders
    <3>2. UNCHANGED <<log, invalid>>
      BY <1>4 DEF Subscribe, RecvArm, RecvLook, RecvWake, DropStream, logVars
    <3>3. \A r \in Readers \ {q} : /\ sub'[r] = sub[r] /\ lastSeen'[r] = lastSeen[r]
                                   /\ base'[r] = base[r] /\ got'[r] = got[r]
      BY <1>4 DEF TypeOK, Subscribe, RecvArm, RecvLook, RecvLagged, RecvEvent, RecvClosed,
                  RecvWait, RecvWake, DropStream
    <3>4. head'["all"] = head["all"]
      BY <1>4, <3>1 DEF TypeOK, Journals, Subscribe, RecvArm, RecvLook, RecvWake, DropStream, logVars
    <3>5. \A r \in StreamReaders : r \in Readers \ {q}
      BY <2>3 DEF StreamReaders
    <3> QED BY <1>0, <3>2, <3>3, <3>4, <3>5, StreamElsewhere DEF SameStream, All
  <2> QED BY <2>1, <2>2, <2>3
<1> QED BY <1>1, <1>2, <1>3, <1>4 DEF Next

LEMMA StreamStarts == Init => Stream!Init
<1> SUFFICES ASSUME Init PROVE Stream!Init OBVIOUS
<1>1. All = <<>>
  BY DEF Init, All, Journals
<1>2. ASSUME NEW r \in StreamReaders PROVE StatusOf(r) = "none" /\ base[r] = 0 /\ got[r] = {}
  BY DEF Init, StreamReaders, StatusOf
<1>3. /\ StreamStatus = [r \in StreamReaders |-> "none"]
      /\ StreamStart = [r \in StreamReaders |-> 0]
      /\ StreamDelivered = [r \in StreamReaders |-> {}]
  BY <1>2 DEF StreamStatus, StreamStart, StreamDelivered
<1> QED BY <1>1, <1>3
        DEF Stream!Init, StreamReaders, StreamStatus, StreamStart, StreamDelivered, StatusOf, All

(* The journal of all events implements the abstract stream whenever it has *)
(* one publisher: in order, without gaps, and Lagged exactly from the moment *)
(* a reader is more than MaxRetained events behind.                          *)
THEOREM JournalIsReliableStream ==
    ASSUME SingleWriter("all")
    PROVE  Spec => ImplementsReliableStream
<1>1. Init => OnlyReadersRead
  BY DEF Init, OnlyReadersRead
<1>2. TypeOK /\ LosslessInv /\ OnlyReadersRead /\ LaggedInv /\ StreamInv /\ [Next]_vars
        => StreamInv' /\ [Stream!Next]_(Stream!vars)
  BY StreamNext DEF Base
<1> QED BY <1>1, <1>2, InitTypeOK, NextKeepsType, LosslessInit, LosslessNext, LaggedInit,
           LaggedNext, OnlyReadersReadNext, StreamInit, StreamStarts, PTL
        DEF Spec, ImplementsReliableStream, Stream!Spec

-----------------------------------------------------------------------------
(***************************************************************************)
(* What order the journals of EventHub keep however many publishers write  *)
(* them: an event is skipped only when it was overtaken, and the order     *)
(* journal ends with the state of an order that is remembered.             *)
(***************************************************************************)

(***************************************************************************)
(* Overtaking.  Sequence numbers are taken once, so no two events of a     *)
(* journal share one, and none that is still to be written has one that is *)
(* in the journal (Distinct).  A cursor is the number of an event of its   *)
(* journal (CursorsInLog), so an event that is written behind the cursor,  *)
(* or passed by it, comes after one with a higher number.                  *)
(***************************************************************************)
Numbered(p) == pub[p].at \in {"check", "push", "notify"}

Distinct ==
    /\ \A j \in Journals : \A i, k \in 1 .. Len(log[j]) :
          log[j][i].seq = log[j][k].seq => i = k
    /\ \A p \in Publishers, j \in Journals : StillToWrite(p, j) =>
          \A i \in 1 .. Len(log[j]) : log[j][i].seq # pub[p].event.seq
    /\ \A p, q \in Publishers :
          Numbered(p) /\ Numbered(q) /\ pub[p].event.seq = pub[q].event.seq => p = q

LEMMA DistinctInit == Init => Distinct
<1> SUFFICES ASSUME Init PROVE Distinct OBVIOUS
<1>1. \A j \in Journals : Len(log[j]) = 0
  BY DEF Init
<1>2. \A p \in Publishers : ~ Numbered(p)
  BY DEF Init, Idle, Numbered
<1> QED BY <1>1, <1>2 DEF Distinct

LEMMA DistinctPublish ==
    ASSUME TypeOK, LosslessInv, Distinct, NEW p \in Publishers,
           PublishBegin(p) \/ PublishDedup(p) \/ PublishTakeSeq(p) \/ PublishCheck(p)
             \/ PublishNotify(p)
    PROVE  Distinct'
<1>1. log' = log
  BY DEF PublishBegin, PublishDedup, PublishTakeSeq, PublishCheck, PublishNotify, logVars
<1>2. \A q \in Publishers \ {p} : pub'[q] = pub[q]
  BY DEF TypeOK, PublishBegin, PublishDedup, PublishTakeSeq, PublishCheck, PublishNotify
<1>3. \/ /\ Numbered(p)' => Numbered(p) /\ pub'[p].event = pub[p].event
         /\ \A j \in Journals : StillToWrite(p, j)' => StillToWrite(p, j)
      \/ Numbered(p)' /\ pub'[p].event.seq = nextSeq + 1
  <2>1. CASE PublishBegin(p)
    BY <2>1 DEF PublishBegin, TypeOK, StillToWrite, Numbered
  <2>2. CASE PublishDedup(p)
    BY <2>2 DEF PublishDedup, TypeOK, StillToWrite, Numbered, Idle
  <2>3. CASE PublishTakeSeq(p)
    BY <2>3 DEF PublishTakeSeq, TypeOK, Numbered
  <2>4. CASE PublishCheck(p)
    BY <2>4 DEF PublishCheck, TypeOK, StillToWrite, Numbered, Idle, Continue, At, After, Journals
  <2>5. CASE PublishNotify(p)
    BY <2>5 DEF PublishNotify, TypeOK, StillToWrite, Numbered, Idle, Continue, After, Journals
  <2> QED BY <2>1, <2>2, <2>3, <2>4, <2>5
<1>4. \A j \in Journals : StillToWrite(p, j)' => Numbered(p)'
  BY DEF StillToWrite, Numbered
<1>5. /\ nextSeq \in Nat
      /\ \A j \in Journals : \A i \in 1 .. Len(log[j]) : log[j][i].seq \in 1 .. nextSeq
      /\ \A q \in Publishers : Numbered(q) => pub[q].event.seq \in 1 .. nextSeq
  BY DEF TypeOK, LosslessInv, SeqBounds, Numbered
<1>6. ASSUME NEW q \in Publishers, NEW j \in Journals, StillToWrite(q, j)',
             NEW i \in 1 .. Len(log[j])
      PROVE  log[j][i].seq # pub'[q].event.seq
  <2>1. CASE q # p
    BY <1>2, <1>6, <2>1 DEF Distinct, StillToWrite
  <2>2. CASE q = p
    BY <1>3, <1>4, <1>5, <1>6, <2>2 DEF Distinct
  <2> QED BY <2>1, <2>2
<1>7. ASSUME NEW q \in Publishers, q # p, Numbered(q)', Numbered(p)'
      PROVE  pub'[p].event.seq # pub'[q].event.seq
  <2>1. Numbered(q) /\ pub'[q].event = pub[q].event
    BY <1>2, <1>7 DEF Numbered
  <2> QED BY <1>3, <1>5, <1>7, <2>1 DEF Distinct
<1>8. \A q, u \in Publishers : Numbered(q)' /\ Numbered(u)'
        /\ pub'[q].event.seq = pub'[u].event.seq => q = u
  BY <1>2, <1>7 DEF Distinct, Numbered
<1> QED BY <1>1, <1>6, <1>8 DEF Distinct

LEMMA DistinctPush ==
    ASSUME TypeOK, LosslessInv, Distinct, NEW p \in Publishers, PublishPush(p)
    PROVE  Distinct'
<1>0. PICK j \in Journals, e \in Events, lg \in Seq(Events), t1, t2, t3 \in Nat :
        PushOutcome(p, j, e, lg, t1, t2, t3)
  BY PushEffect
<1> DEFINE n == Len(log[j])
<1>1. /\ pub[p].journal = j /\ pub[p].event = e
      /\ Len(lg) = n + 1
      /\ \A i \in 1 .. n : lg[i] = log[j][i]
      /\ lg[n + 1] = e
      /\ log' = [log EXCEPT ![j] = lg]
      /\ pub' = [pub EXCEPT ![p] = At(p, "notify")]
  BY <1>0 DEF PushOutcome
<1>2. /\ pub[p].at = "push" /\ n \in Nat
      /\ log'[j] = lg /\ \A k \in Journals \ {j} : log'[k] = log[k]
      /\ pub'[p] = [at |-> "notify", event |-> e, journal |-> j]
      /\ \A q \in Publishers \ {p} : pub'[q] = pub[q]
  BY <1>1 DEF PublishPush, TypeOK, At
<1> HIDE DEF n
<1>3. StillToWrite(p, j) /\ Numbered(p) /\ ~ StillToWrite(p, j)'
  BY <1>1, <1>2 DEF StillToWrite, Numbered, After, Journals
<1>4. \A i \in 1 .. n : log[j][i].seq # e.seq
  BY <1>1, <1>3 DEF Distinct, n
<1>5. \A i \in 1 .. n + 1 : lg[i] = IF i = n + 1 THEN e ELSE log[j][i]
  BY <1>1, <1>2
<1>6. \A i, k \in 1 .. n + 1 : lg[i].seq = lg[k].seq => i = k
  <2>1. \A i, k \in 1 .. n : log[j][i].seq = log[j][k].seq => i = k
    BY DEF Distinct, n
  <2> QED BY <1>2, <1>4, <1>5, <2>1
<1>7. \A q \in Publishers : /\ Numbered(q)' = Numbered(q)
                            /\ Numbered(q) => pub'[q].event = pub[q].event
                            /\ \A k \in Journals : StillToWrite(q, k)' => StillToWrite(q, k)
  BY <1>1, <1>2 DEF Numbered, StillToWrite
<1>8. ASSUME NEW q \in Publishers, NEW k \in Journals, StillToWrite(q, k)',
             NEW i \in 1 .. Len(log'[k])
      PROVE  log'[k][i].seq # pub'[q].event.seq
  <2>1. StillToWrite(q, k) /\ Numbered(q) /\ pub'[q].event = pub[q].event
    BY <1>7, <1>8 DEF StillToWrite, Numbered
  <2>2. CASE k # j
    BY <1>2, <1>8, <2>1, <2>2 DEF Distinct
  <2>3. CASE k = j
    <3>1. q # p
      BY <1>3, <1>8, <2>3
    <3>2. pub[q].event.seq # e.seq
      BY <1>1, <1>3, <2>1, <3>1 DEF Distinct
    <3>3. \A m \in 1 .. n : log[j][m].seq # pub[q].event.seq
      BY <2>1, <2>3 DEF Distinct, n
    <3> QED BY <1>1, <1>2, <1>5, <1>8, <2>1, <2>3, <3>2, <3>3
  <2> QED BY <2>2, <2>3
<1>9. \A k \in Journals : \A i, m \in 1 .. Len(log'[k]) :
        log'[k][i].seq = log'[k][m].seq => i = m
  BY <1>1, <1>2, <1>6 DEF Distinct
<1>10. \A q, u \in Publishers : Numbered(q)' /\ Numbered(u)'
         /\ pub'[q].event.seq = pub'[u].event.seq => q = u
  BY <1>7 DEF Distinct
<1> QED BY <1>8, <1>9, <1>10 DEF Distinct

LEMMA DistinctNext == TypeOK /\ LosslessInv /\ Distinct /\ [Next]_vars => Distinct'
<1> SUFFICES ASSUME TypeOK, LosslessInv, Distinct, [Next]_vars PROVE Distinct' OBVIOUS
<1>1. CASE \E p \in Publishers :
             \/ PublishBegin(p) \/ PublishDedup(p) \/ PublishTakeSeq(p)
             \/ PublishCheck(p) \/ PublishPush(p) \/ PublishNotify(p)
  BY <1>1, DistinctPublish, DistinctPush
<1>2. CASE ~ <1>1!1
  <2>1. UNCHANGED <<pub, log>>
    BY <1>2 DEF Next, Subscribe, RecvArm, RecvLook, RecvWake, DropStream, CloseStep,
                vars, pubVars, logVars
  <2> QED BY <2>1 DEF Distinct, Numbered, StillToWrite
<1> QED BY <1>1, <1>2

OvertakenIn(r) ==
    Reading(r) =>
        \A i \in Skipped(r) : \E k \in 1 .. i - 1 : LogOf(r)[k].seq > LogOf(r)[i].seq

(* The event that is written, if it is behind the cursor, was overtaken by the *)
(* one the cursor is at; what trimming takes was behind the cursor before.     *)
LEMMA OvertakenPush ==
    ASSUME TypeOK, LosslessInv, Distinct, NEW p \in Publishers, PublishPush(p),
           NEW r \in Readers, OvertakenIn(r)
    PROVE  OvertakenIn(r)'
<1>0. PICK j \in Journals, e \in Events, lg \in Seq(Events), t1, t2, t3 \in Nat :
        PushOutcome(p, j, e, lg, t1, t2, t3)
  BY PushEffect
<1> DEFINE n == Len(log[j])
<1>1. /\ pub[p].journal = j /\ pub[p].event = e
      /\ Len(lg) = n + 1
      /\ \A i \in 1 .. n : lg[i] = log[j][i]
      /\ lg[n + 1] = e
      /\ log' = [log EXCEPT ![j] = lg]
      /\ head' = [head EXCEPT ![j] = t3]
  BY <1>0 DEF PushOutcome
<1>2. /\ head[j] <= t1 /\ t1 <= t2 /\ t2 <= t3 /\ t3 <= Len(lg)
      /\ TrimsTo(lg, head[j], Valid(j, invalid), t1)
      /\ \A q \in Valid(j, invalid), i \in t1 + 1 .. t2 :
            invalid'[q] = 0 => lg[i].seq <= lastSeen[q]
      /\ \A q \in Readers : invalid'[q] = 0 => invalid[q] = 0
      /\ TrimsTo(lg, t2, Valid(j, invalid'), t3)
  BY <1>0 DEF PushOutcome
<1>3. /\ n \in Nat /\ head[j] \in Nat /\ head[j] <= n
      /\ log'[j] = lg /\ head'[j] = t3
      /\ \A k \in Journals \ {j} : log'[k] = log[k] /\ head'[k] = head[k]
  BY <1>1 DEF TypeOK
<1>4. pub[p].at = "push" /\ UNCHANGED <<sub, lastSeen, base, got>>
  BY DEF PublishPush
<1>5. lastSeen[r] \in Nat /\ base[r] \in Nat /\ JournalOf[r] \in Journals
  BY HubAssumption DEF TypeOK
<1> HIDE DEF n
<1>6. CASE JournalOf[r] # j
  BY <1>2, <1>3, <1>4, <1>5, <1>6
     DEF OvertakenIn, Reading, Skipped, SinceSubscribed, Retained, LogOf
<1>7. CASE JournalOf[r] = j
  <2>1. /\ LogOf(r)' = lg
        /\ SinceSubscribed(r)' = base[r] + 1 .. n + 1
        /\ Retained(r)' = t3 + 1 .. n + 1
    BY <1>1, <1>3, <1>4, <1>7 DEF SinceSubscribed, Retained, LogOf
  <2>2. /\ LogOf(r) = log[j]
        /\ SinceSubscribed(r) = base[r] + 1 .. n
        /\ Retained(r) = head[j] + 1 .. n
    BY <1>7 DEF SinceSubscribed, Retained, LogOf, n
  <2> SUFFICES ASSUME sub[r] = "live", invalid'[r] = 0,
                      NEW i \in base[r] + 1 .. n + 1, i \notin got[r],
                      i \notin t3 + 1 .. n + 1 \/ lg[i].seq <= lastSeen[r]
               PROVE  \E k \in 1 .. i - 1 : lg[k].seq > lg[i].seq
    BY <2>1, <1>4 DEF OvertakenIn, Reading, Skipped
  <2>3. Reading(r) /\ r \in Valid(j, invalid) /\ r \in Valid(j, invalid')
    BY <1>2, <1>4, <1>7 DEF Reading, Valid
  <2>4. i \in 1 .. n + 1
    BY <1>3, <1>5
  <2>5. /\ \A m \in 1 .. n : log[j][m].seq \in Nat
        /\ e.seq \in Nat /\ e.seq # 0
    <3>1. nextSeq \in Nat
      BY DEF TypeOK
    <3>2. \A m \in 1 .. n : log[j][m].seq \in 1 .. nextSeq
      BY DEF LosslessInv, SeqBounds, n
    <3>3. e.seq \in 1 .. nextSeq
      BY <1>1, <1>4 DEF LosslessInv, SeqBounds
    <3> HIDE DEF n
    <3> QED BY <3>1, <3>2, <3>3
  <2>6. lg[i].seq \in Nat
    BY <1>1, <2>4, <2>5, <1>3
  <2>7. CASE lg[i].seq > lastSeen[r]
    <3>1. ~ (lg[i].seq <= lastSeen[r])
      BY <2>6, <2>7, <1>5
    <3>2. i \notin head[j] + 1 .. t1
      BY <1>2, <2>3, <3>1 DEF TrimsTo
    <3>3. i \notin t1 + 1 .. t2
      BY <1>2, <2>3, <3>1
    <3>4. i \notin t2 + 1 .. t3
      BY <1>2, <2>3, <3>1 DEF TrimsTo
    <3>5. i <= head[j]
      BY <1>2, <1>3, <2>4, <3>1, <3>2, <3>3, <3>4
    <3>6. i \in Skipped(r)
      BY <1>3, <1>5, <2>2, <3>5 DEF Skipped
    <3>7. PICK k \in 1 .. i - 1 : log[j][k].seq > log[j][i].seq
      BY <2>2, <2>3, <3>6 DEF OvertakenIn
    <3> QED BY <1>1, <1>3, <2>4, <3>5, <3>7
  <2>8. CASE lg[i].seq <= lastSeen[r] /\ i # n + 1
    <3>1. i \in 1 .. n
      BY <1>3, <2>4, <2>8
    <3>2. i \in Skipped(r)
      BY <1>1, <1>3, <1>5, <2>2, <2>8, <3>1 DEF Skipped
    <3>3. PICK k \in 1 .. i - 1 : log[j][k].seq > log[j][i].seq
      BY <2>2, <2>3, <3>2 DEF OvertakenIn
    <3> QED BY <1>1, <1>3, <3>1, <3>3
  <2>9. CASE lg[i].seq <= lastSeen[r] /\ i = n + 1
    <3>1. lastSeen[r] # 0
      BY <1>1, <1>5, <2>5, <2>9
    <3>2. PICK k \in 1 .. n : lastSeen[r] = log[j][k].seq
      BY <3>1, <2>2 DEF LosslessInv, CursorsInLog, n
    <3>3. log[j][k].seq # e.seq
      BY <1>1, <1>4 DEF Distinct, StillToWrite, n
    <3> QED BY <1>1, <1>3, <2>5, <2>9, <3>2, <3>3
  <2> QED BY <2>6, <2>7, <2>8, <2>9, <1>5
<1> QED BY <1>6, <1>7

(* A reader that is handed the first event ahead of its cursor passes only     *)
(* those with a lower number, which come after that event.                     *)
LEMMA OvertakenReader ==
    ASSUME TypeOK, LosslessInv, Distinct, NEW q \in Readers,
           Subscribe(q) \/ RecvArm(q) \/ RecvLook(q) \/ RecvWake(q) \/ DropStream(q),
           NEW r \in Readers, OvertakenIn(r)
    PROVE  OvertakenIn(r)'
<1> DEFINE j == JournalOf[r]
           n == Len(log[j])
<1>1. UNCHANGED <<log, invalid>>
  BY DEF Subscribe, RecvArm, RecvLook, RecvWake, DropStream, pubVars, logVars
<1>2. j \in Journals /\ n \in Nat /\ head[j] \in Nat /\ lastSeen[r] \in Nat /\ base[r] \in Nat
  BY HubAssumption DEF TypeOK
<1>3. \A i \in 1 .. n : log[j][i].seq \in Nat
  BY <1>2 DEF LosslessInv, SeqBounds
<1> SUFFICES ASSUME Reading(r)' PROVE OvertakenIn(r)'
  BY DEF OvertakenIn
<1>4. CASE RecvArm(q) \/ RecvWake(q)
  BY <1>4 DEF RecvArm, RecvWake, OvertakenIn, Reading, Skipped, SinceSubscribed, Retained,
              LogOf, logVars
<1>5. CASE Subscribe(q)
  <2>1. CASE q = r
    <3>1. SinceSubscribed(r)' = {}
      BY <2>1, <1>5, <1>1, <1>2 DEF Subscribe, SinceSubscribed, LogOf, TypeOK
    <3> QED BY <3>1 DEF Skipped, OvertakenIn
  <2>2. CASE q # r
    <3>1. sub'[r] = sub[r] /\ lastSeen'[r] = lastSeen[r] /\ base'[r] = base[r]
            /\ got' = got /\ head' = head
      BY <2>2, <1>5 DEF Subscribe, TypeOK, logVars
    <3> QED BY <3>1, <1>1
            DEF OvertakenIn, Reading, Skipped, SinceSubscribed, Retained, LogOf
  <2> QED BY <2>1, <2>2
<1>6. CASE RecvLook(q)
  <2>1. head' = head /\ sub' = sub /\ base' = base
    BY <1>6 DEF RecvLook, logVars
  <2>2. CASE q # r \/ ~ RecvEvent(q)
    <3>1. lastSeen'[r] = lastSeen[r] /\ got'[r] = got[r]
      BY <2>2, <1>6 DEF RecvLook, RecvLagged, RecvEvent, RecvClosed, RecvWait, TypeOK
    <3> QED BY <3>1, <2>1, <1>1
            DEF OvertakenIn, Reading, Skipped, SinceSubscribed, Retained, LogOf
  <2>3. CASE q = r /\ RecvEvent(q)
    <3>1. PICK i \in Unseen(r) :
            /\ IsFirst(i, Unseen(r))
            /\ lastSeen' = [lastSeen EXCEPT ![r] = log[j][i].seq]
            /\ got' = [got EXCEPT ![r] = @ \cup {i}]
      BY <2>3 DEF RecvEvent
    <3>2. lastSeen'[r] = log[j][i].seq /\ got'[r] = got[r] \cup {i}
      BY <3>1 DEF TypeOK
    <3>3. i \in 1 .. n
      BY <1>2, <3>1 DEF Unseen
    <3>4. ASSUME NEW m \in SinceSubscribed(r), m \notin got[r], m # i,
                 m \notin Retained(r) \/ log[j][m].seq <= log[j][i].seq
          PROVE  \E k \in 1 .. m - 1 : log[j][k].seq > log[j][m].seq
      <4>1. m \in 1 .. n
        BY <1>2, <3>4 DEF SinceSubscribed, LogOf
      <4>2. CASE m \in Skipped(r)
        BY <4>2, <2>1, <1>1 DEF OvertakenIn, Reading, LogOf
      <4>3. CASE m \notin Skipped(r)
        <5>1. m \in Retained(r) /\ ~ (log[j][m].seq <= lastSeen[r])
          BY <3>4, <4>3 DEF Skipped, LogOf
        <5>2. m \in Unseen(r)
          BY <1>2, <1>3, <4>1, <5>1 DEF Unseen, Retained, LogOf
        <5>3. i < m
          BY <3>1, <3>3, <3>4, <4>1, <5>2, <1>2 DEF IsFirst
        <5>4. log[j][i].seq # log[j][m].seq
          BY <1>2, <3>3, <3>4, <4>1 DEF Distinct
        <5> QED BY <1>3, <3>3, <3>4, <4>1, <5>1, <5>3, <5>4
      <4> QED BY <4>2, <4>3
    <3>5. SinceSubscribed(r)' = SinceSubscribed(r) /\ Retained(r)' = Retained(r)
            /\ LogOf(r)' = log[j]
      BY <2>1, <1>1 DEF SinceSubscribed, Retained, LogOf
    <3> QED BY <3>2, <3>4, <3>5 DEF OvertakenIn, Skipped
  <2> QED BY <2>2, <2>3
<1>7. CASE DropStream(q)
  <2>1. UNCHANGED <<lastSeen, base, got>> /\ sub' = [sub EXCEPT ![q] = "dropped"]
    BY <1>7 DEF DropStream
  <2>2. q # r /\ Reading(r)
    BY <2>1, <1>1 DEF Reading, TypeOK
  <2>3. PICK t \in head[JournalOf[q]] .. Len(log[JournalOf[q]]) :
          /\ TrimsTo(log[JournalOf[q]], head[JournalOf[q]],
                     Valid(JournalOf[q], invalid) \ {q}, t)
          /\ head' = [head EXCEPT ![JournalOf[q]] = t]
    BY <1>7 DEF DropStream
  <2>4. CASE JournalOf[q] # j
    <3>1. head'[j] = head[j]
      BY <2>3, <2>4 DEF TypeOK
    <3> QED BY <2>1, <2>2, <3>1, <1>1 DEF OvertakenIn, Skipped, SinceSubscribed, Retained, LogOf
  <2>5. CASE JournalOf[q] = j
    <3>1. head'[j] = t /\ r \in Valid(j, invalid) \ {q}
      BY <2>2, <2>3, <2>5, <1>2 DEF TypeOK, Valid, Reading
    <3>2. ASSUME NEW m \in Skipped(r)' PROVE m \in Skipped(r)
      <4>1. /\ m \in SinceSubscribed(r) /\ m \notin got[r]
            /\ m \notin t + 1 .. n \/ log[j][m].seq <= lastSeen[r]
        BY <3>1, <3>2, <2>1, <1>1 DEF Skipped, SinceSubscribed, Retained, LogOf
      <4>2. ~ (log[j][m].seq <= lastSeen[r]) => m \notin head[j] + 1 .. t
        BY <2>3, <2>5, <3>1 DEF TrimsTo
      <4>3. ~ (log[j][m].seq <= lastSeen[r]) => m \notin head[j] + 1 .. n
        BY <4>1, <4>2, <2>3, <2>5, <1>2
      <4> QED BY <4>1, <4>3 DEF Skipped, Retained, LogOf
    <3> QED BY <2>2, <3>2, <1>1 DEF OvertakenIn, LogOf
  <2> QED BY <2>4, <2>5
<1> QED BY <1>4, <1>5, <1>6, <1>7

LEMMA OvertakenNext ==
    TypeOK /\ LosslessInv /\ Distinct /\ OnlyOvertakenSkipped /\ [Next]_vars
        => OnlyOvertakenSkipped'
<1> SUFFICES ASSUME TypeOK, LosslessInv, Distinct, [Next]_vars,
                    NEW r \in Readers, OvertakenIn(r)
             PROVE  OvertakenIn(r)'
  BY DEF OnlyOvertakenSkipped, OvertakenIn
<1>1. CASE \E p \in Publishers : PublishPush(p)
  BY <1>1, OvertakenPush
<1>2. CASE \E q \in Readers :
             Subscribe(q) \/ RecvArm(q) \/ RecvLook(q) \/ RecvWake(q) \/ DropStream(q)
  BY <1>2, OvertakenReader
<1>3. CASE \/ \E p \in Publishers :
                PublishBegin(p) \/ PublishDedup(p) \/ PublishTakeSeq(p) \/ PublishCheck(p)
                  \/ PublishNotify(p)
           \/ CloseStep
           \/ UNCHANGED vars
  <2>1. UNCHANGED <<log, head, sub, lastSeen, invalid, base, got>>
    BY <1>3 DEF PublishBegin, PublishDedup, PublishTakeSeq, PublishCheck, PublishNotify,
                CloseStep, vars, pubVars, logVars, readerVars
  <2> QED BY <2>1 DEF OvertakenIn, Reading, Skipped, SinceSubscribed, Retained, LogOf
<1> QED BY <1>1, <1>2, <1>3 DEF Next

(* However many publishers write a journal, a reader that is not told Lagged   *)
(* misses only events that one with a higher number was written before.       *)
THEOREM SkippedWereOvertaken == Spec => []OnlyOvertakenSkipped
<1>1. Init => OnlyOvertakenSkipped
  BY DEF Init, OnlyOvertakenSkipped, Reading
<1> QED BY <1>1, TypeCorrect, LosslessInit, LosslessNext, DistinctInit, DistinctNext,
           OvertakenNext, PTL DEF Spec

-----------------------------------------------------------------------------
(***************************************************************************)
(* The last event of an order.  While the hub is open, every order event   *)
(* of the journal is the value remembered, is followed by another of its   *)
(* order, or somebody carries another of its order to the journal; and     *)
(* what is carried is the value remembered, as only the one publisher of   *)
(* orders replaces it.                                                     *)
(***************************************************************************)
Orders == {x \in Items : x.kind = "order"}
OrderLog == log["orders"]

Carries(p, x) ==
    \/ pub[p].at = "seq" /\ pub[p].item = x
    \/ StillToWrite(p, "orders") /\ pub[p].event.item = x

Current(i) ==
    \/ OrderLog[i].item \in emitted
    \/ \E k \in i + 1 .. Len(OrderLog) : OrderLog[k].item.id = OrderLog[i].item.id
    \/ \E p \in Publishers, x \in Orders : Carries(p, x) /\ x.id = OrderLog[i].item.id

OrderInv ==
    (~hubClosed /\ SingleWriter("orders")) =>
        /\ closing # <<>> /\ Head(closing) = <<"hub">>
        /\ \A j \in Journals : ~ jClosed[j]
        /\ \A p \in Publishers, x \in Orders : Carries(p, x) => x \in emitted
        /\ \A i \in 1 .. Len(OrderLog) : OrderLog[i].item \in Orders /\ Current(i)

LEMMA OrderInit == Init => OrderInv
<1> SUFFICES ASSUME Init PROVE OrderInv OBVIOUS
<1>1. OrderLog = <<>> /\ Len(OrderLog) = 0
  BY DEF Init, OrderLog, Journals
<1>2. closing # <<>> /\ Head(closing) = <<"hub">>
  BY DEF Init, CloseOf
<1>3. \A p \in Publishers, x \in Orders : ~ Carries(p, x)
  BY DEF Init, Carries, StillToWrite, Idle
<1>4. \A j \in Journals : ~ jClosed[j]
  BY DEF Init
<1> QED BY <1>1, <1>2, <1>3, <1>4 DEF OrderInv

(* A step that neither writes an order nor changes who carries one. *)
LEMMA OrderCalm ==
    ASSUME OrderInv, UNCHANGED <<hubClosed, closing, jClosed, OrderLog>>,
           Orders \cap emitted \subseteq emitted',
           \A p \in Publishers, x \in Orders : Carries(p, x)' <=> Carries(p, x)
    PROVE  OrderInv'
<1> SUFFICES ASSUME ~hubClosed, SingleWriter("orders") PROVE OrderInv'
  BY DEF OrderInv, SingleWriter, Writes
<1>1. \A i \in 1 .. Len(OrderLog) : OrderLog[i].item \in Orders /\ Current(i)'
  BY DEF OrderInv, Current, Orders
<1> QED BY <1>1 DEF OrderInv, Orders

LEMMA OrderPublish ==
    ASSUME TypeOK, OrderInv, NEW p \in Publishers,
           PublishBegin(p) \/ PublishTakeSeq(p) \/ PublishCheck(p) \/ PublishNotify(p)
    PROVE  OrderInv'
<1>1. UNCHANGED <<hubClosed, closing, jClosed, OrderLog, emitted>>
  BY DEF PublishBegin, PublishTakeSeq, PublishCheck, PublishNotify, logVars, OrderLog
<1> SUFFICES ASSUME ~hubClosed, SingleWriter("orders") PROVE OrderInv'
  BY <1>1 DEF OrderInv, SingleWriter, Writes
<1>2. \A q \in Publishers \ {p} : pub'[q] = pub[q]
  BY DEF TypeOK, PublishBegin, PublishTakeSeq, PublishCheck, PublishNotify
<1>3. ASSUME NEW x \in Orders PROVE Carries(p, x)' <=> Carries(p, x)
  <2>0. x.kind = "order"
    BY DEF Orders
  <2>1. CASE PublishBegin(p)
    BY <2>0, <2>1 DEF PublishBegin, TypeOK, Carries, StillToWrite, Idle
  <2>2. CASE PublishTakeSeq(p)
    BY <2>0, <2>2 DEF PublishTakeSeq, TypeOK, Carries, StillToWrite, After
  <2>3. CASE PublishCheck(p)
    <3>1. pub[p].journal \in Journals /\ ~ jClosed[pub[p].journal]
      BY <2>3, PubFields DEF PublishCheck, OrderInv
    <3> QED BY <2>3, <3>1 DEF PublishCheck, TypeOK, Carries, StillToWrite, At
  <2>4. CASE PublishNotify(p)
    BY <2>4 DEF PublishNotify, TypeOK, Carries, StillToWrite, Idle, Continue, After, Journals
  <2> QED BY <2>1, <2>2, <2>3, <2>4
<1>4. \A q \in Publishers, x \in Orders : Carries(q, x)' <=> Carries(q, x)
  BY <1>2, <1>3 DEF Carries, StillToWrite
<1> QED BY <1>1, <1>4, OrderCalm

(* The one who carries an order is the one who writes the journal. *)
LEMMA CarriesWrites ==
    ASSUME OwnItems, NEW p \in Publishers, NEW x \in Orders, Carries(p, x)
    PROVE  Writes(p, "orders")
<1>1. CASE pub[p].at = "seq" /\ pub[p].item = x
  BY <1>1 DEF OwnItems, Writes, After, Orders
<1>2. CASE StillToWrite(p, "orders")
  BY <1>2, StillToWriteWrites DEF Journals
<1> QED BY <1>1, <1>2 DEF Carries

(* The dedup table: a new value replaces the one remembered, and is carried. *)
LEMMA OrderDedup ==
    ASSUME TypeOK, LosslessInv, OrderInv, NEW p \in Publishers, PublishDedup(p)
    PROVE  OrderInv'
<1> DEFINE item == pub[p].item
<1>1. /\ UNCHANGED <<hubClosed, closing, jClosed, OrderLog>>
      /\ pub[p].at = "dedup" /\ item \in Items /\ item \in Emits[p]
  BY PubFields DEF PublishDedup, logVars, OrderLog, LosslessInv, OwnItems
<1>2. \A q \in Publishers \ {p} : pub'[q] = pub[q]
  BY DEF TypeOK, PublishDedup
<1>3. /\ \A q \in Publishers \ {p}, x \in Orders : Carries(q, x)' <=> Carries(q, x)
      /\ \A x \in Orders : ~ Carries(p, x)
  BY <1>1, <1>2 DEF Carries, StillToWrite
<1>4. CASE item \in emitted
  <2>1. pub'[p] = Idle /\ emitted' = emitted
    BY <1>4 DEF PublishDedup, TypeOK
  <2>2. \A x \in Orders : ~ Carries(p, x)'
    BY <2>1 DEF Carries, StillToWrite, Idle
  <2> QED BY <1>1, <1>3, <2>1, <2>2, OrderCalm
<1>5. CASE item \notin emitted
  <2>1. pub'[p] = [at |-> "seq", item |-> item] /\ emitted' = Remember(item)
    BY <1>5 DEF PublishDedup, TypeOK
  <2> HIDE DEF item
  <2>2. \A x \in Orders : Carries(p, x)' <=> x = item
    BY <2>1 DEF Carries, StillToWrite
  <2>3. CASE item \notin Orders
    <3>1. Superseded(item) = {}
      BY <1>1, <2>3 DEF Orders, Superseded
    <3>2. emitted \subseteq emitted'
      BY <2>1, <3>1 DEF Remember
    <3> QED BY <1>1, <1>3, <2>2, <2>3, <3>2, OrderCalm
  <2>4. CASE item \in Orders
    <3> SUFFICES ASSUME ~hubClosed, SingleWriter("orders") PROVE OrderInv'
      BY <1>1 DEF OrderInv, SingleWriter, Writes
    <3>1. /\ item \in emitted'
          /\ \A x \in emitted \ emitted' : x.kind = "order" /\ x.id = item.id
      BY <2>1 DEF Remember, Superseded
    <3>2. \A q \in Publishers \ {p}, x \in Orders : ~ Carries(q, x)
      <4>1. Writes(p, "orders")
        BY <1>1, <2>4 DEF Writes, After, Orders, item
      <4> QED BY <4>1, CarriesWrites DEF LosslessInv, SingleWriter
    <3>3. \A q \in Publishers, x \in Orders : Carries(q, x)' => x \in emitted'
      BY <1>3, <2>2, <3>1, <3>2
    <3>4. ASSUME NEW i \in 1 .. Len(OrderLog)
          PROVE  OrderLog[i].item \in Orders /\ Current(i)'
      <4>1. OrderLog[i].item \in Orders /\ Current(i)
        BY DEF OrderInv
      <4>2. CASE OrderLog[i].item \in emitted
        <5>1. OrderLog[i].item \in emitted' \/ OrderLog[i].item.id = item.id
          BY <3>1, <4>2
        <5> QED BY <1>1, <2>2, <2>4, <4>1, <5>1 DEF Current
      <4>3. CASE \E k \in i + 1 .. Len(OrderLog) : OrderLog[k].item.id = OrderLog[i].item.id
        BY <1>1, <4>1, <4>3 DEF Current
      <4> QED BY <1>3, <3>2, <4>1, <4>2, <4>3 DEF Current
    <3> QED BY <1>1, <3>3, <3>4 DEF OrderInv, Orders
  <2> QED BY <2>3, <2>4
<1> QED BY <1>4, <1>5

LEMMA OrderPush ==
    ASSUME TypeOK, LosslessInv, OrderInv, NEW p \in Publishers, PublishPush(p)
    PROVE  OrderInv'
<1>0. PICK j \in Journals, e \in Events, lg \in Seq(Events), t1, t2, t3 \in Nat :
        PushOutcome(p, j, e, lg, t1, t2, t3)
  BY PushEffect
<1>1. /\ pub[p].journal = j /\ pub[p].event = e
      /\ Len(lg) = Len(log[j]) + 1
      /\ \A i \in 1 .. Len(log[j]) : lg[i] = log[j][i]
      /\ lg[Len(log[j]) + 1] = e
      /\ log' = [log EXCEPT ![j] = lg]
      /\ pub' = [pub EXCEPT ![p] = At(p, "notify")]
  BY <1>0 DEF PushOutcome
<1>2. /\ pub[p].at = "push"
      /\ UNCHANGED <<hubClosed, closing, jClosed, emitted>>
  <2>1. UNCHANGED <<nextSeq, emitted, sub, lastSeen, recv, woken, base, got,
                    hubClosed, jClosed, closing>>
    BY Zenon DEF PublishPush
  <2>2. pub[p].at = "push"
    BY Zenon DEF PublishPush
  <2> QED BY <2>1, <2>2
<1>3. /\ pub'[p] = [at |-> "notify", event |-> e, journal |-> j]
      /\ \A q \in Publishers \ {p} : pub'[q] = pub[q]
  BY <1>1 DEF TypeOK, At
<1>4. \A q \in Publishers \ {p}, x \in Orders : Carries(q, x)' <=> Carries(q, x)
  BY <1>3 DEF Carries, StillToWrite
<1>5. CASE j # "orders"
  <2>1. OrderLog' = OrderLog
    BY <1>1, <1>5 DEF OrderLog, TypeOK, Journals
  <2>2. \A x \in Orders : Carries(p, x)' <=> Carries(p, x)
    BY <1>1, <1>2, <1>3, <1>5 DEF Carries, StillToWrite
  <2> QED BY <1>2, <1>4, <2>1, <2>2, OrderCalm
<1>6. CASE j = "orders"
  <2> DEFINE n == Len(OrderLog)
  <2>1. /\ OrderLog' = lg /\ Len(lg) = n + 1 /\ lg[n + 1] = e /\ n \in Nat
        /\ \A i \in 1 .. n : lg[i] = OrderLog[i]
    BY <1>1, <1>6 DEF OrderLog, TypeOK
  <2>2. e.item \in Orders
    <3>1. e.item \in Items
      BY DEF Events
    <3>2. After("all", e.item) = "orders"
      BY <1>1, <1>2, <1>6 DEF LosslessInv, OwnItems
    <3> QED BY <3>1, <3>2 DEF Orders, After
  <2>3. \A x \in Orders : (Carries(p, x) <=> x = e.item) /\ ~ Carries(p, x)'
    BY <1>1, <1>2, <1>3, <1>6 DEF Carries, StillToWrite, After
  <2> SUFFICES ASSUME ~hubClosed, SingleWriter("orders") PROVE OrderInv'
    BY <1>2 DEF OrderInv, SingleWriter, Writes
  <2>4. e.item \in emitted
    BY <2>2, <2>3 DEF OrderInv
  <2>5. \A i \in 1 .. n : OrderLog[i].item \in Orders /\ Current(i)
    BY DEF OrderInv
  <2> HIDE DEF n
  <2>6. ASSUME NEW i \in 1 .. n + 1
        PROVE  lg[i].item \in Orders /\ Current(i)'
    <3>1. CASE i = n + 1
      BY <1>2, <2>1, <2>2, <2>4, <3>1 DEF Current
    <3>2. CASE i # n + 1
      <4>1. i \in 1 .. n /\ lg[i] = OrderLog[i]
        BY <2>1, <3>2
      <4>2. CASE OrderLog[i].item \in emitted
        BY <1>2, <2>1, <2>5, <4>1, <4>2 DEF Current
      <4>3. CASE \E k \in i + 1 .. n : OrderLog[k].item.id = OrderLog[i].item.id
        <5>1. PICK k \in i + 1 .. n : OrderLog[k].item.id = OrderLog[i].item.id
          BY <4>3
        <5>2. k \in i + 1 .. n + 1 /\ lg[k] = OrderLog[k]
          BY <2>1, <4>1, <5>1
        <5> QED BY <2>1, <2>5, <4>1, <5>1, <5>2 DEF Current
      <4>4. CASE \E x \in Orders : Carries(p, x) /\ x.id = OrderLog[i].item.id
        <5>1. e.item.id = OrderLog[i].item.id
          BY <2>3, <4>4
        <5>2. n + 1 \in i + 1 .. n + 1
          BY <2>1, <4>1
        <5> QED BY <2>1, <2>5, <4>1, <5>1, <5>2 DEF Current
      <4>5. CASE \E q \in Publishers \ {p}, x \in Orders :
                    Carries(q, x) /\ x.id = OrderLog[i].item.id
        BY <1>4, <2>1, <2>5, <4>1, <4>5 DEF Current
      <4> QED BY <2>5, <4>1, <4>2, <4>3, <4>4, <4>5 DEF Current, n
    <3> QED BY <3>1, <3>2
  <2>7. \A q \in Publishers, x \in Orders : Carries(q, x)' => x \in emitted
    BY <1>4, <2>3 DEF OrderInv
  <2> QED BY <1>2, <2>1, <2>6, <2>7 DEF OrderInv, Orders
<1> QED BY <1>5, <1>6

LEMMA OrderOthers ==
    ASSUME OrderInv,
           \/ \E r \in Readers :
                 Subscribe(r) \/ RecvArm(r) \/ RecvLook(r) \/ RecvWake(r) \/ DropStream(r)
           \/ CloseStep
           \/ UNCHANGED vars
    PROVE  OrderInv'
<1>1. UNCHANGED <<pub, log>>
  BY DEF Subscribe, RecvArm, RecvLook, RecvWake, DropStream, CloseStep, vars, pubVars, logVars
<1>2. \A p \in Publishers, x \in Orders : Carries(p, x)' <=> Carries(p, x)
  BY <1>1 DEF Carries, StillToWrite
<1>3. CASE CloseStep
  <2>1. hubClosed' = (hubClosed \/ Head(closing)[1] = "hub")
    BY <1>3 DEF CloseStep
  <2>2. SingleWriter("orders") /\ ~hubClosed => Head(closing)[1] = "hub"
    BY DEF OrderInv
  <2> QED BY <2>1, <2>2 DEF OrderInv, SingleWriter, Writes
<1>4. CASE ~CloseStep
  <2>1. UNCHANGED <<hubClosed, closing, jClosed, emitted>>
    BY <1>4 DEF Subscribe, RecvArm, RecvLook, RecvWake, DropStream, vars, pubVars
  <2> QED BY <1>1, <1>2, <2>1, OrderCalm DEF OrderLog
<1> QED BY <1>3, <1>4

(* While the hub is open and nobody publishes, the last event of an order in   *)
(* the order journal is the state of the order that the hub remembers, if one *)
(* publisher writes orders (publish_order, trade_session/events.rs).          *)
THEOREM OrdersEndCurrent == Spec => []LastOrderIsCurrent
<1>1. TypeOK /\ LosslessInv /\ OrderInv /\ [Next]_vars => OrderInv'
  <2> SUFFICES ASSUME TypeOK, LosslessInv, OrderInv, [Next]_vars PROVE OrderInv' OBVIOUS
  <2>1. CASE \E p \in Publishers :
               \/ PublishBegin(p) \/ PublishDedup(p) \/ PublishTakeSeq(p)
               \/ PublishCheck(p) \/ PublishPush(p) \/ PublishNotify(p)
    BY <2>1, OrderPublish, OrderDedup, OrderPush
  <2> QED BY <2>1, OrderOthers DEF Next
<1>2. OrderInv => LastOrderIsCurrent
  <2> SUFFICES ASSUME OrderInv, ~hubClosed, SingleWriter("orders"),
                      \A p \in Publishers : pub[p] = Idle,
                      NEW i \in 1 .. Len(log["orders"])
               PROVE  \/ log["orders"][i].item \in emitted
                      \/ \E k \in i + 1 .. Len(log["orders"]) :
                            log["orders"][k].item.id = log["orders"][i].item.id
    BY DEF LastOrderIsCurrent
  <2>1. \A p \in Publishers, x \in Orders : ~ Carries(p, x)
    BY DEF Carries, StillToWrite, Idle
  <2> QED BY <2>1 DEF OrderInv, Current, OrderLog
<1> QED BY <1>1, <1>2, TypeCorrect, LosslessInit, LosslessNext, OrderInit, PTL DEF Spec
=============================================================================
