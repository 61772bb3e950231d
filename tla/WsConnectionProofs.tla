------------------------- MODULE WsConnectionProofs -------------------------
(***************************************************************************)
(* Proofs about WsConnection for any number of threads, messages and       *)
(* connections, and any bounds.                                            *)
(***************************************************************************)
EXTENDS WsConnection, TLAPS, FiniteSetTheorems, SequenceTheorems

Steps == AppSteps \cup InitSteps \cup SendSteps \cup OtherSteps

(***************************************************************************)
(* What each thread can be doing, and that a step moves one thread and at  *)
(* most wakes a reconnect task besides.                                    *)
(***************************************************************************)
ReconnectSteps == {"none", "loop", "wait", "recheck", "settle"}
OverflowSteps == {"none", "overflow", "cut", "cutShort"}

StepsOf(t) ==
    IF t = App THEN AppSteps \cup InitSteps \cup SendSteps
    ELSE IF t = Overflow THEN OverflowSteps
    ELSE IF t \in Reconnectors THEN ReconnectSteps \cup InitSteps \cup SendSteps
    ELSE SendSteps \cup {"sent", "refused"}

ThreadInv ==
    /\ at \in [Threads -> Steps]
    /\ \A t \in Threads : at[t] \in StepsOf(t)

Moves(t, s) ==
    \/ at' = [at EXCEPT ![t] = s]
    \/ \E r \in Reconnectors : at[r] = "none" /\ at' = [at EXCEPT ![t] = s, ![r] = "loop"]

LEMMA Kinds ==
    /\ App \in Threads /\ Overflow \in Threads /\ Reconnectors \subseteq Threads /\ Senders \subseteq Threads
    /\ App # Overflow /\ App \notin Reconnectors /\ App \notin Senders
    /\ Overflow \notin Reconnectors /\ Overflow \notin Senders
    /\ \A r \in Reconnectors : r \notin Senders
    /\ \A t \in Threads : t = App \/ t = Overflow \/ t \in Reconnectors \/ t \in Senders
    /\ Critical \subseteq Senders
BY WsAssumption DEF Threads

LEMMA StepsOfAre ==
    /\ StepsOf(App) = AppSteps \cup InitSteps \cup SendSteps
    /\ StepsOf(Overflow) = OverflowSteps
    /\ \A r \in Reconnectors : StepsOf(r) = ReconnectSteps \cup InitSteps \cup SendSteps
    /\ \A m \in Senders : StepsOf(m) = SendSteps \cup {"sent", "refused"}
    /\ \A t \in Threads : StepsOf(t) \subseteq Steps
BY Kinds DEF StepsOf, Steps, AppSteps, InitSteps, SendSteps, OtherSteps, ReconnectSteps, OverflowSteps

LEMMA ThreadInit == Init => ThreadInv
<1> SUFFICES ASSUME Init PROVE ThreadInv
  OBVIOUS
<1>1. /\ at[App] = "idle" /\ at[Overflow] = "none"
      /\ \A r \in Reconnectors : at[r] = "none"
      /\ \A m \in Senders : at[m] = "ready"
  BY Kinds DEF Init
<1>2. \A t \in Threads : at[t] \in StepsOf(t)
  BY <1>1, Kinds, StepsOfAre DEF AppSteps, SendSteps, OverflowSteps, ReconnectSteps
<1> QED BY <1>2, StepsOfAre DEF Init, ThreadInv

(* A thread that moves and wakes another one moves no third. *)
LEMMA Moved ==
    ASSUME ThreadInv, NEW t \in Threads, NEW s \in StepsOf(t), Moves(t, s)
    PROVE  /\ ThreadInv'
           /\ \/ \A u \in Threads : at'[u] = IF u = t THEN s ELSE at[u]
              \/ \E r \in Reconnectors :
                    /\ at[r] = "none"
                    /\ \A u \in Threads : at'[u] = IF u = r THEN "loop" ELSE IF u = t THEN s ELSE at[u]
<1>0. s \in Steps /\ "loop" \in Steps /\ at \in [Threads -> Steps]
  BY StepsOfAre DEF Steps, OtherSteps, ThreadInv
<1>1. CASE at' = [at EXCEPT ![t] = s]
  <2>1. at' \in [Threads -> Steps] /\ \A u \in Threads : at'[u] = IF u = t THEN s ELSE at[u]
    BY <1>0, <1>1
  <2> QED BY <2>1 DEF ThreadInv, StepsOf
<1>2. ASSUME NEW r \in Reconnectors, at[r] = "none", at' = [at EXCEPT ![t] = s, ![r] = "loop"]
      PROVE  /\ ThreadInv'
             /\ \A u \in Threads : at'[u] = IF u = r THEN "loop" ELSE IF u = t THEN s ELSE at[u]
  <2>1. r \in Threads /\ "loop" \in StepsOf(r)
    BY Kinds, StepsOfAre DEF ReconnectSteps
  <2>2. at' \in [Threads -> Steps]
        /\ \A u \in Threads : at'[u] = IF u = r THEN "loop" ELSE IF u = t THEN s ELSE at[u]
    BY <1>0, <1>2, <2>1
  <2>3. \A u \in Threads : at'[u] \in StepsOf(u)
    BY <2>1, <2>2 DEF ThreadInv
  <2> QED BY <2>2, <2>3 DEF ThreadInv, StepsOf
<1> QED BY <1>1, <1>2 DEF Moves


LEMMA InitStepMoves ==
    ASSUME ThreadInv, NEW t \in {App} \cup Reconnectors, InitStep(t)
    PROVE  \E s \in StepsOf(t) : at' = [at EXCEPT ![t] = s]
<1>1. /\ AfterInit(t, TRUE) \in StepsOf(t) /\ AfterInit(t, FALSE) \in StepsOf(t)
      /\ InitSteps \cup SendSteps \subseteq StepsOf(t)
  BY Kinds, StepsOfAre DEF AfterInit, AppSteps, ReconnectSteps
<1>2. {"gate", "swap", "mark", "dial", "backoff", "nap", "giveUp", "replace", "publish", "install",
       "flush", "flushHandle", "flushing", "peek", "ready", "finish"} \subseteq StepsOf(t)
  BY <1>1 DEF InitSteps, SendSteps
<1> HIDE DEF AfterInit
<1>3. CASE InitEnter(t) \/ InitGate(t) \/ InitSwap(t) \/ InitMark(t) \/ DialFails(t) \/ Backoff(t)
  BY <1>1, <1>2, <1>3 DEF InitEnter, InitGate, InitSwap, InitMark, DialFails, Backoff, Goto
<1>4. CASE BackoffEnds(t) \/ InitGivesUp(t) \/ DialSucceeds(t) \/ ReplaceHandle(t) \/ PublishOpen(t)
           \/ InstallActor(t)
  BY <1>1, <1>2, <1>4 DEF BackoffEnds, InitGivesUp, DialSucceeds, ReplaceHandle, PublishOpen,
     InstallActor, Goto
<1>5. CASE FlushTake(t) \/ FlushHandle(t) \/ FlushWrite(t) \/ FlushFails(t) \/ SendPeek(t) \/ InitFinish(t)
  BY <1>1, <1>2, <1>5 DEF FlushTake, FlushHandle, FlushWrite, FlushFails, SendPeek, InitFinish, Goto
<1> QED BY <1>3, <1>4, <1>5 DEF InitStep

LEMMA SendStepMoves ==
    ASSUME ThreadInv, NEW t \in Threads \ {Overflow}, SendStep(t)
    PROVE  \E s \in StepsOf(t) : Moves(t, s)
<1>1. AfterSend(t, TRUE) \in StepsOf(t) /\ AfterSend(t, FALSE) \in StepsOf(t)
      /\ SendSteps \subseteq StepsOf(t)
  BY Kinds, StepsOfAre DEF AfterSend, AfterInit, AppSteps, InitSteps, ReconnectSteps
<1>2. {"handle", "sending", "enqueue", "broken", "lost", "report"} \subseteq StepsOf(t)
  BY <1>1 DEF SendSteps
<1>3. CASE SendReport(t)
  BY <1>1, <1>3 DEF SendReport, OnClose, Moves
<1>4. CASE ~SendReport(t)
  <2>1. \E s \in StepsOf(t) : at' = [at EXCEPT ![t] = s]
    BY <1>1, <1>2, <1>4 DEF SendStep, SendReady, SendHandle, Enqueue, SendWrite, SendFails, SendBroken,
       SendLost, QueueOrRefuse, SendErr, Goto
  <2> QED BY <2>1 DEF Moves
<1> QED BY <1>3, <1>4

LEMMA CloseStepMoves ==
    ASSUME ThreadInv, CloseStep \/ AppInit
    PROVE  \E s \in AppSteps \cup {"enter"} : Moves(App, s)
<1>1. CASE CloseNotify
  BY <1>1 DEF CloseNotify, OnClose, Moves, AppSteps
<1>2. CASE ~CloseNotify
  BY <1>2 DEF CloseStep, AppInit, AppClose, CloseDisable, CloseMark, CloseRelease, CloseTake,
     CloseClosed, Goto, Moves, AppSteps
<1> QED BY <1>1, <1>2

LEMMA OverflowStepMoves ==
    ASSUME ThreadInv, OverflowBegins \/ OverflowMark \/ OverflowCut
    PROVE  \E s \in OverflowSteps : Moves(Overflow, s)
BY DEF OverflowBegins, OverflowMark, OverflowCut, OnClose, Goto, Moves, OverflowSteps

LEMMA ReconnectStepMoves ==
    ASSUME ThreadInv, NEW r \in Reconnectors, ReconnectStep(r)
    PROVE  \E s \in {"none", "wait", "recheck", "enter"} : at' = [at EXCEPT ![r] = s]
BY DEF ReconnectStep, ReconnectLoop, ReconnectWaited, ReconnectRecheck, ReconnectSettle, Goto

LEMMA ActorStepMoves ==
    ASSUME ThreadInv, NEW c \in Conns, ActorStep(c)
    PROVE  \/ at' = at
           \/ \E r \in Reconnectors : at[r] = "none" /\ at' = [at EXCEPT ![r] = "loop"]
BY DEF ActorStep, ActorFrame, ActorFails, ActorMarksClosed, ActorStops, ActorExits, ActorReports,
       threads, Goto

LEMMA ThreadStep == ThreadInv /\ [Next]_vars => ThreadInv'
<1> SUFFICES ASSUME ThreadInv, [Next]_vars PROVE ThreadInv'
  OBVIOUS
<1>0. \A t \in Threads : \A s \in StepsOf(t) : Moves(t, s) => ThreadInv'
  BY Moved
<1>1. ASSUME NEW t \in {App} \cup Reconnectors, InitStep(t) PROVE ThreadInv'
  <2>1. t \in Threads
    BY Kinds
  <2> QED BY <1>0, <1>1, <2>1, InitStepMoves DEF Moves
<1>2. CASE \E t \in Threads \ {Overflow} : SendStep(t)
  BY <1>0, <1>2, SendStepMoves
<1>3. CASE CloseStep \/ AppInit
  BY <1>0, <1>3, CloseStepMoves, Kinds, StepsOfAre DEF InitSteps
<1>4. CASE OverflowBegins \/ OverflowMark \/ OverflowCut
  BY <1>0, <1>4, OverflowStepMoves, Kinds, StepsOfAre
<1>5. ASSUME NEW r \in Reconnectors, ReconnectStep(r) PROVE ThreadInv'
  <2>1. r \in Threads /\ {"none", "wait", "recheck", "enter"} \subseteq StepsOf(r)
    BY Kinds, StepsOfAre DEF ReconnectSteps, InitSteps
  <2>2. PICK s \in StepsOf(r) : at' = [at EXCEPT ![r] = s]
    BY <1>5, <2>1, ReconnectStepMoves
  <2> QED BY <1>0, <2>1, <2>2 DEF Moves
<1>6. ASSUME NEW c \in Conns, ActorStep(c) PROVE ThreadInv'
  <2>1. CASE at' = at
    BY <2>1 DEF ThreadInv, StepsOf
  <2>2. ASSUME NEW r \in Reconnectors, at' = [at EXCEPT ![r] = "loop"] PROVE ThreadInv'
    <3>1. r \in Threads /\ "loop" \in StepsOf(r)
      BY Kinds, StepsOfAre DEF ReconnectSteps
    <3> QED BY <1>0, <2>2, <3>1 DEF Moves
  <2> QED BY <1>6, <2>1, <2>2, ActorStepMoves
<1>7. CASE UNCHANGED vars
  BY <1>7 DEF vars, threads, ThreadInv, StepsOf
<1> QED BY <1>1, <1>2, <1>3, <1>4, <1>5, <1>6, <1>7 DEF Next

(***************************************************************************)
(* Attempts to connect are kept apart.                                     *)
(*                                                                         *)
(* That there is one attempt, plus one for every close() that has met a    *)
(* reconnect, is inductive once it says that a set `connecting` accounts   *)
(* for one attempt, and what holds of a close() that has yet to let go of  *)
(* `connecting`: either it has been counted already, or no reconnect is    *)
(* inside init() and none gets there while reconnecting is switched off.   *)
(***************************************************************************)
Dialers == {t \in Threads : Dialling(t)}
Closing == at[App] \in {"closing", "release"}
Quiet == ~shouldReconnect /\ \A r \in Reconnectors : ~InInit(r)
Room == IF Closing THEN cuts - 1 ELSE cuts
Gate == IF connecting THEN 1 ELSE 0

DialInv ==
    /\ ThreadInv
    /\ connecting \in BOOLEAN
    /\ cuts \in Nat
    /\ IsFiniteSet(Dialers)
    /\ \/ Closing /\ Quiet
       \/ Room \in Nat /\ Cardinality(Dialers) <= Room + Gate

LEMMA NobodyDials ==
    ASSUME ThreadInv, Closing, Quiet
    PROVE  Dialers = {}
<1>1. \A m \in Senders : at[m] \in SendSteps \cup {"sent", "refused"}
  BY Kinds, StepsOfAre DEF ThreadInv
<1>2. at[Overflow] \in OverflowSteps
  BY Kinds, StepsOfAre DEF ThreadInv
<1>3. ASSUME NEW t \in Threads, Dialling(t) PROVE FALSE
  <2>1. CASE t = App
    BY <1>3, <2>1 DEF Dialling, InInit, Closing, InitSteps, SendSteps
  <2>2. CASE t = Overflow
    BY <1>2, <1>3, <2>2 DEF Dialling, InInit, InitSteps, SendSteps, OverflowSteps
  <2>3. CASE t \in Reconnectors
    BY <1>3, <2>3 DEF Dialling, Quiet
  <2>4. CASE t \in Senders
    BY <1>1, <1>3, <2>4 DEF Dialling, InInit, InitSteps, SendSteps
  <2> QED BY <2>1, <2>2, <2>3, <2>4, Kinds
<1> QED BY <1>3 DEF Dialers

LEMMA DialInit == Init => DialInv
<1> SUFFICES ASSUME Init PROVE DialInv
  OBVIOUS
<1>1. Dialers = {}
  BY DEF Init, Dialers, Dialling, InInit, Threads, InitSteps, SendSteps
<1>2. ~Closing
  BY DEF Init, Closing, Threads
<1>3. cuts = 0 /\ connecting = FALSE /\ Room = 0 /\ Gate = 0
  BY <1>2 DEF Init, Room, Gate
<1>4. IsFiniteSet(Dialers) /\ Cardinality(Dialers) = 0
  BY <1>1, FS_EmptySet
<1>5. Cardinality(Dialers) <= Room + Gate
  BY <1>3, <1>4
<1> QED
  BY <1>3, <1>4, <1>5, ThreadInit DEF DialInv

(* A step after which nobody dials who did not before. *)
LEMMA NoNewDial ==
    ASSUME DialInv, ThreadInv', Dialers' \subseteq Dialers,
           connecting' = connecting, cuts' = cuts, Closing' = Closing,
           Closing /\ Quiet => Quiet'
    PROVE  DialInv'
<1>1. /\ IsFiniteSet(Dialers')
      /\ Cardinality(Dialers') <= Cardinality(Dialers)
      /\ Cardinality(Dialers') \in Nat /\ Cardinality(Dialers) \in Nat
  BY FS_Subset, FS_CardinalityType DEF DialInv
<1>2. Room' = Room /\ Gate' = Gate
  BY DEF Room, Gate
<1>3. Gate \in {0, 1}
  BY DEF Gate
<1>4. CASE Closing /\ Quiet
  BY <1>1, <1>4 DEF DialInv
<1>5. CASE Room \in Nat /\ Cardinality(Dialers) <= Room + Gate
  <2>1. Cardinality(Dialers') <= Room' + Gate'
    BY <1>1, <1>2, <1>3, <1>5
  <2> QED BY <1>1, <1>2, <1>5, <2>1 DEF DialInv
<1> QED BY <1>4, <1>5 DEF DialInv

(* While a quiet close() is under way nobody is inside init().             *)
LEMMA InsideIsCounted ==
    ASSUME DialInv, NEW t \in {App} \cup Reconnectors, InInit(t)
    PROVE  Room \in Nat /\ Cardinality(Dialers) <= Room + Gate
BY Kinds DEF DialInv, Closing, Quiet, InInit, InitSteps, SendSteps

(* The steps of init(): only the one that sets `connecting` begins an attempt. *)
LEMMA DialInitStep ==
    ASSUME DialInv, NEW t \in {App} \cup Reconnectors, InitStep(t)
    PROVE  DialInv'
<1> t \in Threads /\ t \notin Senders
  BY Kinds
<1> DEFINE n == Cardinality(Dialers)
           k == Cardinality(Dialers')
<1>a. PICK s \in StepsOf(t) : at' = [at EXCEPT ![t] = s]
  BY InitStepMoves DEF DialInv
<1>b. ThreadInv' /\ \A u \in Threads : at'[u] = IF u = t THEN s ELSE at[u]
  <2>1. at \in [Threads -> Steps]
    BY DEF DialInv, ThreadInv
  <2> QED BY <1>a, <2>1, Moved DEF Moves, DialInv
<1>c. InInit(t)
  BY DEF InInit, InitSteps, InitStep, InitEnter, InitGate, InitSwap, InitMark, DialFails, Backoff, BackoffEnds,
     InitGivesUp, DialSucceeds, ReplaceHandle, PublishOpen, InstallActor, FlushTake, FlushHandle,
     FlushWrite, FlushFails, SendPeek, InitFinish
<1>d. /\ Room \in Nat /\ n \in Nat /\ n <= Room + Gate /\ Gate \in {0, 1} /\ IsFiniteSet(Dialers)
      /\ cuts \in Nat
  BY <1>c, InsideIsCounted, FS_CardinalityType DEF DialInv, Gate
<1>e. cuts' = cuts
  BY DEF InitStep, InitEnter, InitGate, InitSwap, InitMark, DialFails, Backoff, BackoffEnds,
     InitGivesUp, DialSucceeds, ReplaceHandle, PublishOpen, InstallActor, FlushTake, FlushHandle,
     FlushWrite, FlushFails, SendPeek, InitFinish, history
<1>f. at'[t] \notin {"closing", "release"}
  BY <1>b DEF InitStep, InitEnter, InitGate, InitSwap, InitMark, DialFails, Backoff, BackoffEnds,
     InitGivesUp, DialSucceeds, ReplaceHandle, PublishOpen, InstallActor, FlushTake, FlushHandle,
     FlushWrite, FlushFails, SendPeek, InitFinish, Goto, AfterInit, DialInv, ThreadInv
<1>g. Closing' = Closing /\ Room' = Room
  BY <1>b, <1>c, <1>e, <1>f, Kinds DEF Closing, Room, InInit, InitSteps, SendSteps
<1>1. CASE InitSwap(t)
  <2>1. connecting' = TRUE /\ at[t] = "swap" /\ s = IF connecting THEN AfterInit(t, TRUE) ELSE "mark"
    BY <1>1, <1>a, <1>b DEF InitSwap, Goto, DialInv, ThreadInv
  <2>3. CASE connecting
    <3>1. Dialers' \subseteq Dialers
      BY <1>b, <2>1, <2>3 DEF AfterInit, Dialers, Dialling, InInit, InitSteps, SendSteps
    <3>2. IsFiniteSet(Dialers') /\ k <= n /\ k \in Nat
      BY <1>d, <3>1, FS_Subset, FS_CardinalityType
    <3>3. Gate' = Gate
      BY <2>1, <2>3 DEF Gate
    <3> HIDE DEF n, k
    <3>4. k <= Room' + Gate'
      BY <1>d, <1>g, <3>2, <3>3
    <3> QED
      BY <1>b, <1>d, <1>e, <1>g, <2>1, <3>2, <3>4 DEF DialInv, k
  <2>4. CASE ~connecting
    <3>1. Dialers' = Dialers \cup {t}
      BY <1>b, <2>1, <2>4 DEF Dialers, Dialling, InInit, InitSteps, SendSteps
    <3>2. /\ IsFiniteSet(Dialers') /\ k <= n + 1 /\ k \in Nat
      <4>1. IsFiniteSet(Dialers') /\ k \in Nat
        BY <1>d, <3>1, FS_AddElement, FS_CardinalityType
      <4>2. k = IF t \in Dialers THEN n ELSE n + 1
        BY <1>d, <3>1, FS_AddElement
      <4> QED BY <1>d, <4>1, <4>2
    <3>3. Gate = 0 /\ Gate' = 1
      BY <2>1, <2>4 DEF Gate
    <3> HIDE DEF n, k
    <3>4. k <= Room' + Gate'
      BY <1>d, <1>g, <3>2, <3>3
    <3> QED
      BY <1>b, <1>d, <1>e, <1>g, <2>1, <3>2, <3>4 DEF DialInv, k
  <2> QED
    BY <2>3, <2>4 DEF DialInv
<1>2. CASE InitFinish(t) \/ InitGivesUp(t)
  <2>1. /\ connecting' = FALSE /\ at[t] \in {"finish", "giveUp"}
        /\ s \in {"idle", "settle", "loop"}
    BY <1>2, <1>a, <1>b DEF InitFinish, InitGivesUp, Goto, AfterInit, DialInv, ThreadInv
  <2>2. t \in Dialers /\ Dialers' = Dialers \ {t}
    BY <1>b, <2>1 DEF Dialers, Dialling, InInit, InitSteps, SendSteps
  <2>3. IsFiniteSet(Dialers') /\ k = n - 1 /\ k \in Nat
    BY <1>d, <2>2, FS_RemoveElement, FS_CardinalityType
  <2>4. Gate' = 0
    BY <2>1 DEF Gate
  <2> HIDE DEF n, k
  <2>5. k <= Room' + Gate'
    BY <1>d, <1>g, <2>3, <2>4
  <2> QED
    BY <1>b, <1>d, <1>e, <1>g, <2>1, <2>3, <2>5 DEF DialInv, k
<1>3. CASE ~InitSwap(t) /\ ~InitFinish(t) /\ ~InitGivesUp(t)
  <2>1. connecting' = connecting
    BY <1>3 DEF InitStep, InitEnter, InitGate, InitMark, DialFails, Backoff, BackoffEnds,
       DialSucceeds, ReplaceHandle, PublishOpen, InstallActor, FlushTake, FlushHandle,
       FlushWrite, FlushFails, SendPeek, shared
  <2>2. Dialling(t)' => Dialling(t)
    <3> USE <1>b DEF Dialling, InInit, InitSteps, SendSteps, Goto, AfterInit, DialInv, ThreadInv
    <3>1. CASE InitEnter(t) \/ InitGate(t)
      BY <3>1 DEF InitEnter, InitGate
    <3>2. CASE InitMark(t) \/ DialFails(t) \/ Backoff(t) \/ BackoffEnds(t)
      BY <3>2 DEF InitMark, DialFails, Backoff, BackoffEnds
    <3>3. CASE DialSucceeds(t) \/ ReplaceHandle(t) \/ PublishOpen(t) \/ InstallActor(t)
      BY <3>3 DEF DialSucceeds, ReplaceHandle, PublishOpen, InstallActor
    <3>4. CASE FlushTake(t) \/ FlushHandle(t) \/ FlushWrite(t) \/ FlushFails(t) \/ SendPeek(t)
      BY <3>4 DEF FlushTake, FlushHandle, FlushWrite, FlushFails, SendPeek
    <3> QED
      BY <1>3, <3>1, <3>2, <3>3, <3>4 DEF InitStep
  <2>3. Dialers' \subseteq Dialers
    BY <1>b, <2>2 DEF Dialers, Dialling, InInit
  <2>4. ~(Closing /\ Quiet)
    BY <1>c, Kinds DEF Closing, Quiet, InInit, InitSteps, SendSteps
  <2> QED
    BY <1>b, <1>e, <1>g, <2>1, <2>3, <2>4, NoNewDial
<1> QED
  BY <1>1, <1>2, <1>3

(* send() is left by whoever has sent; the application's and the reconnect  *)
(* tasks' sends are part of their attempt.                                  *)
LEMMA DialSendStep ==
    ASSUME DialInv, NEW t \in Threads \ {Overflow}, SendStep(t)
    PROVE  DialInv'
<1> DEFINE After == IF t \in Senders THEN SendSteps \cup {"sent", "refused"}
                    ELSE SendSteps \cup {"finish", IF t = App THEN "idle" ELSE "loop"}
<1>0. ThreadInv /\ at \in [Threads -> Steps] /\ t \in Threads
  BY DEF DialInv, ThreadInv
<1>1. at[t] \in SendSteps
  BY DEF SendStep, SendReady, SendHandle, Enqueue, SendWrite, SendFails, SendBroken,
     SendLost, SendReport, SendSteps
<1>2. AfterSend(t, TRUE) \in After /\ AfterSend(t, FALSE) \in After
  BY DEF AfterSend, AfterInit
<1>3. {"handle", "sending", "enqueue", "broken", "lost", "report"} \subseteq After
  BY DEF SendSteps
<1> HIDE DEF After
<1>4. \E s \in After : Moves(t, s)
  <2>1. CASE SendReport(t)
    BY <1>2, <2>1 DEF SendReport, OnClose, Moves
  <2>2. CASE ~SendReport(t)
    <3>1. \E s \in After : at' = [at EXCEPT ![t] = s]
      BY <1>2, <1>3, <2>2 DEF SendStep, SendReady, SendHandle, Enqueue, SendWrite, SendFails, SendBroken,
         SendLost, QueueOrRefuse, SendErr, Goto
    <3> QED BY <3>1 DEF Moves
  <2> QED BY <2>1, <2>2
<1>5. PICK s \in After : Moves(t, s)
  BY <1>4
<1>6. s \in StepsOf(t) /\ s \notin {"closing", "release"}
  <2>1. s \in SendSteps \/ (t \in Senders /\ s \in {"sent", "refused"})
        \/ (t \notin Senders /\ s \in {"finish", IF t = App THEN "idle" ELSE "loop"})
    BY <1>5 DEF After
  <2>2. s \notin {"closing", "release"}
    BY <2>1 DEF SendSteps
  <2>3. CASE t \in Senders
    BY <2>1, <2>2, <2>3, StepsOfAre
  <2>4. CASE t = App
    BY <2>1, <2>2, <2>4, Kinds, StepsOfAre DEF AppSteps, InitSteps
  <2>5. CASE t \in Reconnectors
    BY <2>1, <2>2, <2>5, Kinds, StepsOfAre DEF ReconnectSteps, InitSteps
  <2> QED BY <1>0, <2>2, <2>3, <2>4, <2>5, Kinds
<1>7. /\ ThreadInv'
      /\ \A u \in Threads : \/ at'[u] = at[u]
                            \/ u = t /\ at'[u] = s
                            \/ u \in Reconnectors /\ at'[u] = "loop"
  BY <1>0, <1>5, <1>6, Moved
<1>8. connecting' = connecting /\ cuts' = cuts /\ shouldReconnect' = shouldReconnect
  BY DEF SendStep, SendReady, SendHandle, Enqueue, SendWrite, SendFails, SendBroken,
     SendLost, SendReport, shared, history
<1>9. ASSUME NEW u \in Threads, InInit(u)' PROVE InInit(u)
  BY <1>1, <1>7, <1>9, Kinds DEF InInit, After, InitSteps, SendSteps
<1>10. Dialers' \subseteq Dialers
  <2>1. ASSUME NEW u \in Threads, Dialling(u)' PROVE Dialling(u)
    BY <1>1, <1>7, <1>9, <2>1 DEF Dialling, InInit, InitSteps, SendSteps
  <2> QED BY <2>1 DEF Dialers
<1>11. Closing' = Closing
  <2>1. \/ at'[App] = at[App]
        \/ at[App] \in SendSteps /\ at'[App] = s
    BY <1>1, <1>7, Kinds
  <2> QED BY <1>6, <2>1 DEF Closing, SendSteps
<1>12. Quiet => Quiet'
  BY <1>8, <1>9, Kinds DEF Quiet
<1> QED
  BY <1>7, <1>8, <1>10, <1>11, <1>12, NoNewDial

(* A close() is counted once it switches reconnecting off, and may let one *)
(* attempt in once it lets go of `connecting`.                             *)
LEMMA DialCloseStep ==
    ASSUME DialInv, CloseStep \/ AppInit
    PROVE  DialInv'
<1> DEFINE n == Cardinality(Dialers)
           k == Cardinality(Dialers')
<1>0. ThreadInv /\ at \in [Threads -> Steps] /\ IsFiniteSet(Dialers) /\ cuts \in Nat
  BY DEF DialInv, ThreadInv
<1>1. PICK s \in AppSteps \cup {"enter"} : Moves(App, s)
  BY <1>0, CloseStepMoves
<1>2. s \in StepsOf(App)
  BY <1>1, StepsOfAre DEF InitSteps
<1>3. /\ ThreadInv'
      /\ \A u \in Threads : \/ at'[u] = at[u]
                            \/ u = App /\ at'[u] = s
                            \/ u \in Reconnectors /\ at'[u] = "loop"
  BY <1>0, <1>1, <1>2, Moved, Kinds
<1>4. ASSUME NEW u \in Threads, Dialling(u)' PROVE Dialling(u)
  BY <1>3, <1>4 DEF Dialling, InInit, AppSteps, InitSteps, SendSteps
<1>5. Dialers' \subseteq Dialers
  BY <1>4 DEF Dialers
<1>6. /\ IsFiniteSet(Dialers') /\ k <= n /\ k \in Nat /\ n \in Nat
  BY <1>0, <1>5, FS_Subset, FS_CardinalityType
<1>7. ASSUME NEW r \in Reconnectors, InInit(r)' PROVE InInit(r)
  BY <1>3, <1>7, Kinds DEF InInit, InitSteps, SendSteps
<1>8. Gate \in {0, 1}
  BY DEF Gate
<1>9. CASE CloseDisable
  <2>1. /\ ~Closing /\ Closing' /\ ~shouldReconnect' /\ connecting' = connecting
        /\ cuts' = IF \E r \in Reconnectors : InInit(r) THEN cuts + 1 ELSE cuts
    BY <1>0, <1>9, Kinds DEF CloseDisable, Goto, Closing
  <2>2. Room = cuts /\ n <= Room + Gate /\ Gate' = Gate /\ Room' = cuts' - 1
    BY <2>1 DEF Room, DialInv, Gate
  <2>3. CASE \E r \in Reconnectors : InInit(r)
    <3> HIDE DEF n, k
    <3>1. Room' = cuts /\ k <= Room' + Gate' /\ cuts' \in Nat
      BY <1>0, <1>6, <1>8, <2>1, <2>2, <2>3
    <3> QED BY <1>0, <1>3, <1>6, <2>1, <3>1 DEF DialInv, k
  <2>4. CASE ~\E r \in Reconnectors : InInit(r)
    <3>1. Quiet'
      BY <1>7, <2>1, <2>4 DEF Quiet
    <3> QED BY <1>0, <1>3, <1>6, <2>1, <2>4, <3>1 DEF DialInv
  <2> QED BY <2>3, <2>4
<1>10. CASE CloseRelease
  <2>1. Closing /\ ~Closing' /\ connecting' = FALSE /\ cuts' = cuts
    BY <1>0, <1>10, Kinds DEF CloseRelease, Goto, Closing, history
  <2>2. Gate' = 0 /\ Room' = cuts /\ Room = cuts - 1
    BY <2>1 DEF Gate, Room
  <2>3. CASE Quiet
    <3>1. Dialers' = {}
      BY <1>0, <1>5, <2>1, <2>3, NobodyDials
    <3>2. k = 0
      BY <3>1, FS_EmptySet
    <3> HIDE DEF n, k
    <3>3. k <= Room' + Gate'
      BY <1>0, <2>2, <3>2
    <3> QED BY <1>0, <1>3, <1>6, <2>1, <2>2, <3>3 DEF DialInv, k
  <2>4. CASE Room \in Nat /\ n <= Room + Gate
    <3> HIDE DEF n, k
    <3>1. k <= Room' + Gate'
      BY <1>0, <1>6, <1>8, <2>2, <2>4
    <3> QED BY <1>0, <1>3, <1>6, <2>1, <2>2, <3>1 DEF DialInv, k
  <2> QED BY <2>3, <2>4 DEF DialInv
<1>11. CASE ~CloseDisable /\ ~CloseRelease
  <2>1. connecting' = connecting /\ cuts' = cuts /\ shouldReconnect' = shouldReconnect
    BY <1>11 DEF CloseStep, AppInit, AppClose, CloseMark, CloseTake, CloseClosed, CloseNotify,
       OnClose, shared, history
  <2>2. Closing' = Closing
    <3>1. CASE CloseNotify
      <4>1. at[App] = "notify" /\ Moves(App, "idle") /\ "idle" \in StepsOf(App)
        BY <3>1, StepsOfAre DEF CloseNotify, OnClose, Moves, AppSteps
      <4>2. at'[App] = "idle"
        BY <1>0, <4>1, Moved, Kinds
      <4> QED BY <4>1, <4>2 DEF Closing
    <3>2. CASE ~CloseNotify
      BY <1>0, <1>11, <3>2, Kinds DEF CloseStep, AppInit, AppClose, CloseMark, CloseTake, CloseClosed,
         Goto, Closing
    <3> QED BY <3>1, <3>2
  <2>3. Quiet => Quiet'
    BY <1>7, <2>1 DEF Quiet
  <2> QED BY <1>3, <1>5, <2>1, <2>2, <2>3, NoNewDial
<1> QED
  BY <1>9, <1>10, <1>11

(* Nobody else begins an attempt or touches `connecting`; a reconnect task   *)
(* looks at shouldReconnect before it calls init().                          *)
LEMMA DialOtherStep ==
    ASSUME DialInv,
           \/ \E r \in Reconnectors : ReconnectStep(r)
           \/ OverflowBegins \/ OverflowMark \/ OverflowCut
           \/ \E c \in Conns : ActorStep(c)
           \/ UNCHANGED vars
    PROVE  DialInv'
<1> USE DEF InitSteps, SendSteps
<1>0. ThreadInv /\ at \in [Threads -> Steps]
  BY DEF DialInv, ThreadInv
<1>1. connecting' = connecting /\ cuts' = cuts /\ shouldReconnect' = shouldReconnect
  BY DEF ReconnectStep, ReconnectLoop, ReconnectWaited, ReconnectRecheck, ReconnectSettle,
     OverflowBegins, OverflowMark, OverflowCut, ActorStep, ActorFrame, ActorFails, ActorMarksClosed,
     ActorStops, ActorExits, ActorReports, shared, history, vars
<1>2. ThreadInv'
  BY <1>0, ThreadStep DEF Next
<1>3. ASSUME NEW u \in Threads
      PROVE  \/ at'[u] = at[u]
             \/ u = Overflow /\ at'[u] \in OverflowSteps
             \/ /\ u \in Reconnectors
                /\ at'[u] \in {"none", "loop", "wait", "recheck"} \/ (at'[u] = "enter" /\ shouldReconnect)
  <2>1. ASSUME NEW r \in Reconnectors, ReconnectStep(r)
        PROVE  \/ at'[u] = at[u]
               \/ /\ u \in Reconnectors
                  /\ at'[u] \in {"none", "loop", "wait", "recheck"} \/ (at'[u] = "enter" /\ shouldReconnect)
    BY <1>0, <2>1 DEF ReconnectStep, ReconnectLoop, ReconnectWaited, ReconnectRecheck, ReconnectSettle, Goto
  <2>2. CASE OverflowBegins \/ OverflowMark \/ OverflowCut
    <3>1. PICK s \in OverflowSteps : Moves(Overflow, s)
      BY <1>0, <2>2, OverflowStepMoves
    <3> QED BY <1>0, <3>1, Moved, Kinds, StepsOfAre
  <2>3. CASE \E c \in Conns : ActorStep(c)
    BY <1>0, <2>3, ActorStepMoves
  <2>4. CASE UNCHANGED vars
    BY <2>4 DEF vars, threads
  <2> QED BY <2>1, <2>2, <2>3, <2>4
<1>4. ASSUME NEW u \in Threads, Dialling(u)' PROVE Dialling(u)
  BY <1>3, <1>4 DEF Dialling, InInit, OverflowSteps
<1>5. Quiet => Quiet'
  BY <1>1, <1>3, Kinds DEF Quiet, InInit
<1>6. Closing' = Closing
  BY <1>3, Kinds DEF Closing
<1> QED
  BY <1>1, <1>2, <1>4, <1>5, <1>6, NoNewDial DEF Dialers

(* However close() and init() cross, and whoever calls them: there is never    *)
(* more than one attempt to connect, besides one for every close() that met a  *)
(* reconnect inside init().                                                    *)
THEOREM AttemptsKeptApart == Spec => []OneDial
<1>1. Init => DialInv
  BY DialInit
<1>2. DialInv /\ [Next]_vars => DialInv'
  BY DialInitStep, DialSendStep, DialCloseStep, DialOtherStep DEF Next
<1>3. DialInv => OneDial
  <2> SUFFICES ASSUME DialInv PROVE Cardinality(Dialers) <= 1 + cuts
    BY DEF OneDial, Dialers
  <2>1. CASE Closing /\ Quiet
    BY <2>1, NobodyDials, FS_EmptySet DEF DialInv
  <2>2. CASE Room \in Nat /\ Cardinality(Dialers) <= Room + Gate
    <3>1. Room <= cuts /\ Gate <= 1 /\ Gate \in Nat /\ cuts \in Nat
      BY DEF DialInv, Room, Gate
    <3>2. Cardinality(Dialers) \in Nat
      BY FS_CardinalityType DEF DialInv
    <3> QED
      BY <2>2, <3>1, <3>2
  <2> QED BY <2>1, <2>2 DEF DialInv
<1> QED
  BY <1>1, <1>2, <1>3, PTL DEF Spec

(***************************************************************************)
(* A critical message is never queued.                                     *)
(*                                                                         *)
(* Whoever takes the queue may write it on any later connection, or put it *)
(* back: so the invariant says what everybody carries.  A critical message *)
(* is carried by its sender only, which never comes to "enqueue", and once *)
(* written it has been sent; and whoever is about to write has something   *)
(* to write, or an arbitrary message might be taken from an empty load.    *)
(***************************************************************************)
Clean == Messages \ Critical
Mine(t) == IF t \in Critical THEN {t} ELSE Clean
Carrying == SendSteps \cup {"flushHandle", "flushing"}
CriticalSteps == (SendSteps \ {"enqueue"}) \cup {"sent", "refused"}

CriticalInv ==
    /\ at \in [Threads -> Steps]
    /\ queue \in Seq(Clean)
    /\ load \in [Threads -> Seq(Messages)]
    /\ \A t \in Threads : load[t] \in Seq(Mine(t))
    /\ \A t \in Threads : at[t] \in Carrying => load[t] # <<>>
    /\ \A m \in Critical : at[m] \in CriticalSteps
    /\ \A m \in Critical, c \in Conns : <<m, c>> \in written => at[m] = "sent"

(* What a step of thread t may do without disturbing the invariant. *)
Harmless(t) ==
    /\ at' \in [Threads -> Steps]
    /\ \A u \in Threads \ {t} : at'[u] = at[u] \/ (u \notin Critical /\ at'[u] \notin Carrying)
    /\ load' \in [Threads -> Seq(Messages)]
    /\ \A u \in Threads \ {t} : load'[u] = load[u]
    /\ load'[t] \in Seq(Mine(t))
    /\ at'[t] \in Carrying => load'[t] # <<>>
    /\ t \in Critical => at'[t] \in CriticalSteps /\ (at[t] = "sent" => at'[t] = "sent")
    /\ queue' \in Seq(Clean)
    /\ \A m \in Critical, c \in Conns :
          <<m, c>> \in written' => <<m, c>> \in written \/ (m = t /\ at'[t] = "sent")

LEMMA HarmlessKeeps ==
    ASSUME CriticalInv, NEW t \in Threads, Harmless(t)
    PROVE  CriticalInv'
<1> Critical \subseteq Threads
  BY WsAssumption DEF Threads
<1>1. \A u \in Threads : load'[u] \in Seq(Mine(u))
  BY DEF CriticalInv, Harmless
<1>2. \A u \in Threads : at'[u] \in Carrying => load'[u] # <<>>
  BY DEF CriticalInv, Harmless
<1>3. \A m \in Critical : at'[m] \in CriticalSteps /\ (at[m] = "sent" => at'[m] = "sent")
  BY DEF CriticalInv, Harmless
<1>4. \A m \in Critical, c \in Conns : <<m, c>> \in written' => at'[m] = "sent"
  BY <1>3 DEF CriticalInv, Harmless
<1>5. \A u : Mine(u)' = Mine(u)
  BY DEF Mine, Clean
<1> QED
  BY <1>1, <1>2, <1>3, <1>4, <1>5 DEF CriticalInv, Harmless, Mine, Clean

LEMMA CriticalInit == Init => CriticalInv
<1> SUFFICES ASSUME Init PROVE CriticalInv
  OBVIOUS
<1>1. Critical \subseteq Senders /\ App \notin Senders /\ Senders \subseteq Threads
      /\ Senders \subseteq Messages
  BY WsAssumption DEF Threads, Messages
<1>2. at \in [Threads -> Steps]
  BY DEF Init, Steps, AppSteps, SendSteps, OtherSteps
<1>3. queue \in Seq(Clean)
  BY DEF Init
<1>4. \A t \in Threads : load[t] \in Seq(Messages) /\ load[t] \in Seq(Mine(t))
  <2> SUFFICES ASSUME NEW t \in Threads
               PROVE  load[t] \in Seq(Messages) /\ load[t] \in Seq(Mine(t))
    OBVIOUS
  <2>1. load[t] = IF t \in Senders THEN <<t>> ELSE <<>>
    BY DEF Init
  <2>2. <<>> \in Seq(Messages) /\ <<>> \in Seq(Mine(t))
    BY EmptySeq
  <2>3. t \in Senders => t \in Messages /\ t \in Mine(t)
    BY <1>1 DEF Mine, Clean
  <2>4. t \in Senders => <<t>> \in Seq(Messages) /\ <<t>> \in Seq(Mine(t))
    BY <2>3
  <2> QED
    BY <2>1, <2>2, <2>4
<1>5. load \in [Threads -> Seq(Messages)]
  BY <1>4 DEF Init
<1>6. \A t \in Threads : at[t] \in Carrying => load[t] # <<>>
  BY <1>1 DEF Init, Carrying, SendSteps
<1>7. \A m \in Critical : at[m] \in CriticalSteps
  BY <1>1 DEF Init, CriticalSteps, SendSteps
<1>8. \A m \in Critical, c \in Conns : <<m, c>> \notin written
  BY DEF Init
<1> QED
  BY <1>2, <1>3, <1>4, <1>5, <1>6, <1>7, <1>8 DEF CriticalInv

(* A step after which everybody carries what he carried. *)
LEMMA CriticalMove ==
    ASSUME CriticalInv, NEW t \in Threads, NEW s \in Steps,
           at' = [at EXCEPT ![t] = s],
           s \in Carrying => at[t] \in Carrying,
           t \in Critical => s \in CriticalSteps /\ at[t] # "sent",
           UNCHANGED <<load, queue, written>>
    PROVE  CriticalInv'
<1>1. Harmless(t)
  BY DEF CriticalInv, Harmless
<1> QED
  BY <1>1, HarmlessKeeps

(* A step after which t carries nothing any more. *)
LEMMA CriticalDrop ==
    ASSUME CriticalInv, NEW t \in Threads, NEW s \in Steps \ Carrying,
           at' = [at EXCEPT ![t] = s], load' = [load EXCEPT ![t] = <<>>],
           t \in Critical => s \in CriticalSteps /\ at[t] # "sent",
           UNCHANGED <<queue, written>>
    PROVE  CriticalInv'
<1>1. <<>> \in Seq(Mine(t)) /\ <<>> \in Seq(Messages)
  BY EmptySeq
<1>2. Harmless(t)
  BY <1>1 DEF CriticalInv, Harmless
<1> QED
  BY <1>2, HarmlessKeeps

(* So is one that puts back what it carried. *)
LEMMA CriticalPutBack ==
    ASSUME CriticalInv, NEW t \in Threads \ Critical, NEW s \in Steps \ Carrying,
           at' = [at EXCEPT ![t] = s], load' = [load EXCEPT ![t] = <<>>],
           queue' \in Seq(Clean), UNCHANGED written
    PROVE  CriticalInv'
<1>1. <<>> \in Seq(Mine(t)) /\ <<>> \in Seq(Messages)
  BY EmptySeq
<1>2. at' \in [Threads -> Steps] /\ at'[t] = s /\ \A u \in Threads \ {t} : at'[u] = at[u]
  BY DEF CriticalInv
<1>3. /\ load' \in [Threads -> Seq(Messages)] /\ load'[t] = <<>>
      /\ \A u \in Threads \ {t} : load'[u] = load[u]
  BY <1>1 DEF CriticalInv
<1>4. Harmless(t)
  BY <1>1, <1>2, <1>3 DEF Harmless
<1> QED
  BY <1>4, HarmlessKeeps

LEMMA CriticalInitStep ==
    ASSUME CriticalInv, NEW t \in {App} \cup Reconnectors, InitStep(t)
    PROVE  CriticalInv'
<1>1. t \in Threads /\ t \notin Critical /\ Mine(t) = Clean /\ Peek \in Clean
  BY WsAssumption DEF Threads, Mine, Clean, Messages
<1> USE DEF Steps, AppSteps, InitSteps, SendSteps, OtherSteps, Carrying, AfterInit
<1>2. CASE InitEnter(t) \/ InitGate(t) \/ InitSwap(t) \/ InitMark(t) \/ DialFails(t)
           \/ Backoff(t) \/ BackoffEnds(t) \/ InitGivesUp(t) \/ DialSucceeds(t)
           \/ ReplaceHandle(t) \/ PublishOpen(t) \/ InstallActor(t) \/ InitFinish(t)
  <2>1. UNCHANGED <<load, queue, written>>
    BY <1>2 DEF InitEnter, InitGate, InitSwap, InitMark, DialFails, Backoff, BackoffEnds,
         InitGivesUp, DialSucceeds, ReplaceHandle, PublishOpen, InstallActor, InitFinish,
         shared, history
  <2>2. PICK s \in Steps \ Carrying : at' = [at EXCEPT ![t] = s]
    BY <1>2 DEF InitEnter, InitGate, InitSwap, InitMark, DialFails, Backoff, BackoffEnds,
         InitGivesUp, DialSucceeds, ReplaceHandle, PublishOpen, InstallActor, InitFinish, Goto
  <2> QED
    BY <1>1, <2>1, <2>2, CriticalMove
<1>3. CASE FlushTake(t)
  <2>1. Harmless(t)
    BY <1>1, <1>3, SeqMonotonic, EmptySeq DEF FlushTake, Goto, CriticalInv, Harmless, history, Clean
  <2> QED
    BY <1>1, <2>1, HarmlessKeeps
<1>4. CASE FlushHandle(t) \/ FlushFails(t)
  <2>1. Requeued(t) \in Seq(Clean)
    BY <1>1, ConcatProperties DEF Requeued, CriticalInv
  <2>2. CASE io = 0 \/ FlushFails(t)
    <3>1. /\ at' = [at EXCEPT ![t] = "peek"] /\ load' = [load EXCEPT ![t] = <<>>]
          /\ queue' = Requeued(t) /\ written' = written
      BY <1>4, <2>2 DEF FlushHandle, FlushFails, Goto, history
    <3> QED
      BY <1>1, <2>1, <3>1, CriticalPutBack
  <2>3. CASE io # 0 /\ FlushHandle(t)
    <3>1. /\ at' = [at EXCEPT ![t] = "flushing"] /\ UNCHANGED <<load, queue, written>>
          /\ at[t] = "flushHandle"
      BY <2>3 DEF FlushHandle, Goto, history
    <3> QED
      BY <1>1, <3>1, CriticalMove
  <2> QED
    BY <1>4, <2>2, <2>3
<1>5. CASE FlushWrite(t)
  <2>1. load[t] # <<>> /\ load[t] \in Seq(Clean) /\ load[t] \in Seq(Messages)
    BY <1>1, <1>5 DEF FlushWrite, CriticalInv
  <2>2. /\ Head(load[t]) \in Clean /\ Tail(load[t]) \in Seq(Clean) /\ Tail(load[t]) \in Seq(Messages)
        /\ Len(load[t]) # 1 => Tail(load[t]) # <<>>
    <3>1. Head(load[t]) \in Clean /\ Tail(load[t]) \in Seq(Clean) /\ Tail(load[t]) \in Seq(Messages)
      BY <2>1, HeadTailProperties
    <3>2. Len(load[t]) \in Nat \ {0} /\ Len(Tail(load[t])) = Len(load[t]) - 1
      BY <2>1, HeadTailProperties, EmptySeq
    <3>3. Tail(load[t]) = <<>> => Len(Tail(load[t])) = 0
      BY EmptySeq, Zenon
    <3>4. Tail(load[t]) = <<>> => Len(load[t]) = 1
      BY <3>2, <3>3
    <3> QED
      BY <3>1, <3>4
  <2>3. Harmless(t)
    BY <1>1, <1>5, <2>2 DEF FlushWrite, Write, Goto, CriticalInv, Harmless, shared, Clean
  <2> QED
    BY <1>1, <2>3, HarmlessKeeps
<1>6. CASE SendPeek(t)
  <2>1. <<Peek>> \in Seq(Clean) /\ <<Peek>> \in Seq(Messages) /\ <<Peek>> # <<>>
    BY <1>1 DEF Clean
  <2>2. Harmless(t)
    BY <1>1, <1>6, <2>1 DEF SendPeek, Goto, CriticalInv, Harmless, history
  <2> QED
    BY <1>1, <2>2, HarmlessKeeps
<1> QED
  BY <1>2, <1>3, <1>4, <1>5, <1>6 DEF InitStep

(* A critical sender never gets to "enqueue": it refuses instead. *)
LEMMA CriticalSendStep ==
    ASSUME CriticalInv, NEW t \in Threads, SendStep(t)
    PROVE  CriticalInv'
<1> USE DEF Steps, AppSteps, InitSteps, SendSteps, OtherSteps, Carrying, AfterInit, CriticalSteps
<1>0. Critical \subseteq Senders /\ Reconnectors \subseteq Threads
      /\ Reconnectors \cap Critical = {}
  BY WsAssumption DEF Threads
<1>1. <<>> \in Seq(Mine(t)) /\ <<>> \in Seq(Messages)
  BY EmptySeq
<1>2. at[t] \in SendSteps /\ load[t] # <<>> /\ load[t] \in Seq(Mine(t)) /\ load[t] \in Seq(Messages)
      /\ (t \in Critical => at[t] # "enqueue")
  BY DEF CriticalInv, SendStep, SendReady, SendHandle, Enqueue, SendWrite, SendFails, SendBroken,
     SendLost, SendReport
<1>3. AfterSend(t, FALSE) \in Steps \ Carrying /\ (t \in Critical => AfterSend(t, FALSE) = "refused")
  BY <1>0 DEF AfterSend
<1>4. ASSUME SendErr(t), UNCHANGED <<queue, written>>
      PROVE  CriticalInv'
  <2>1. at' = [at EXCEPT ![t] = AfterSend(t, FALSE)] /\ load' = [load EXCEPT ![t] = <<>>]
    BY <1>4 DEF SendErr, Goto
  <2> QED
    BY <1>2, <1>3, <1>4, <2>1, CriticalDrop
<1>5. CASE SendReady(t) \/ SendHandle(t)
  <2>0. UNCHANGED <<queue, written>>
    BY <1>5 DEF SendReady, SendHandle
  <2>1. PICK s \in {"handle", "sending", "enqueue"} :
           \/ Goto(t, s) /\ UNCHANGED load /\ (t \in Critical => s # "enqueue")
           \/ SendErr(t)
    BY <1>5 DEF SendReady, SendHandle, QueueOrRefuse
  <2> QED
    BY <1>2, <1>4, <2>0, <2>1, CriticalMove DEF Goto
<1>6. CASE Enqueue(t)
  <2>1. load[t] \in Seq(Clean)
    BY <1>2, <1>6 DEF Enqueue, Mine
  <2>2. Len(queue) >= QueueMax => queue # <<>>
    BY WsAssumption
  <2>3. (IF Len(queue) >= QueueMax THEN Tail(queue) ELSE queue) \in Seq(Clean)
    BY <2>2, HeadTailProperties DEF CriticalInv
  <2>4. queue' \in Seq(Clean)
    BY <1>6, <2>1, <2>3, ConcatProperties DEF Enqueue
  <2>5. Harmless(t)
    BY <1>0, <1>1, <1>2, <1>6, <2>4 DEF Enqueue, AfterSend, Goto, CriticalInv, Harmless
  <2> QED
    BY <2>5, HarmlessKeeps
<1>7. CASE SendWrite(t)
  <2>1. Head(load[t]) \in Mine(t) /\ Tail(load[t]) \in Seq(Mine(t)) /\ Tail(load[t]) \in Seq(Messages)
    BY <1>2, HeadTailProperties
  <2>2. Harmless(t)
    BY <1>0, <1>2, <1>7, <2>1 DEF SendWrite, Write, AfterSend, Goto, CriticalInv, Harmless, shared,
       Mine, Clean
  <2> QED
    BY <2>2, HarmlessKeeps
<1>8. CASE SendFails(t) \/ SendBroken(t) \/ SendLost(t)
  <2>0. UNCHANGED <<queue, written>>
    BY <1>8 DEF SendFails, SendBroken, SendLost, shared, history
  <2>1. PICK s \in {"broken", "lost", "report"} :
           \/ Goto(t, s) /\ UNCHANGED load
           \/ SendErr(t)
    BY <1>8 DEF SendFails, SendBroken, SendLost
  <2> QED
    BY <1>2, <1>4, <2>0, <2>1, CriticalMove DEF Goto
<1>9. CASE SendReport(t)
  <2>1. PICK r \in Reconnectors :
           at[r] = "none" /\ at' = [at EXCEPT ![t] = AfterSend(t, FALSE), ![r] = "loop"]
    BY <1>9 DEF SendReport, OnClose
  <2>2. t # r /\ r \in Threads /\ r \notin Critical /\ AfterSend(t, FALSE) \in Steps \ Carrying
        /\ (t \in Critical => AfterSend(t, FALSE) = "refused")
    BY <1>0, <1>2, <2>1 DEF AfterSend
  <2>3. /\ at' \in [Threads -> Steps] /\ at'[t] = AfterSend(t, FALSE) /\ at'[r] = "loop"
        /\ \A u \in Threads \ {t, r} : at'[u] = at[u]
    BY <2>1, <2>2 DEF CriticalInv
  <2>4. /\ load' \in [Threads -> Seq(Messages)] /\ load'[t] = <<>>
        /\ \A u \in Threads \ {t} : load'[u] = load[u]
    BY <1>1, <1>9 DEF SendReport, CriticalInv
  <2>5. at[t] = "report" /\ queue' = queue /\ written' = written
    BY <1>9 DEF SendReport
  <2>6. Harmless(t)
    BY <1>1, <2>2, <2>3, <2>4, <2>5 DEF CriticalInv, Harmless
  <2> QED
    BY <2>6, HarmlessKeeps
<1> QED
  BY <1>5, <1>6, <1>7, <1>8, <1>9 DEF SendStep

(* Nobody else carries or writes anything. *)
LEMMA CriticalOtherStep ==
    ASSUME CriticalInv,
           \/ AppInit \/ CloseStep
           \/ \E r \in Reconnectors : ReconnectStep(r)
           \/ OverflowBegins \/ OverflowMark \/ OverflowCut
           \/ \E c \in Conns : ActorStep(c)
           \/ UNCHANGED vars
    PROVE  CriticalInv'
<1> DEFINE Free == Threads \ Critical
<1> DEFINE Bare == Steps \ Carrying
<1>1. App \in Free /\ Overflow \in Free /\ Reconnectors \subseteq Free
  BY WsAssumption DEF Threads
<1> USE DEF Steps, AppSteps, InitSteps, SendSteps, OtherSteps, Carrying
<1>2. UNCHANGED <<load, queue, written>>
  BY DEF AppInit, CloseStep, AppClose, CloseDisable, CloseMark, CloseRelease, CloseTake, CloseClosed,
     CloseNotify, ReconnectStep, ReconnectLoop, ReconnectWaited, ReconnectRecheck, ReconnectSettle,
     OverflowBegins, OverflowMark, OverflowCut, ActorStep, ActorFrame, ActorFails, ActorMarksClosed,
     ActorStops, ActorExits, ActorReports, OnClose, shared, threads, history, vars
<1>3. \/ UNCHANGED at
      \/ \E t \in Free, s \in Bare : at' = [at EXCEPT ![t] = s]
      \/ \E t \in Free, s \in Bare, r \in Reconnectors : at' = [at EXCEPT ![t] = s, ![r] = "loop"]
  <2>1. CASE AppInit \/ CloseStep
    BY <1>1, <2>1 DEF AppInit, CloseStep, AppClose, CloseDisable, CloseMark, CloseRelease,
       CloseTake, CloseClosed, CloseNotify, OnClose, Goto
  <2>2. CASE \E r \in Reconnectors : ReconnectStep(r)
    BY <1>1, <2>2 DEF ReconnectStep, ReconnectLoop, ReconnectWaited, ReconnectRecheck,
       ReconnectSettle, Goto
  <2>3. CASE OverflowBegins \/ OverflowMark \/ OverflowCut
    BY <1>1, <2>3 DEF OverflowBegins, OverflowMark, OverflowCut, OnClose, Goto
  <2>4. CASE \E c \in Conns : ActorStep(c)
    BY <1>1, <2>4 DEF ActorStep, ActorFrame, ActorFails, ActorMarksClosed, ActorStops, ActorExits,
       ActorReports, threads, Goto
  <2>5. CASE UNCHANGED vars
    BY <2>5 DEF vars, threads
  <2> QED
    BY <2>1, <2>2, <2>3, <2>4, <2>5
<1>4. at' \in [Threads -> Steps]
      /\ \A u \in Threads : at'[u] = at[u] \/ (u \notin Critical /\ at'[u] \notin Carrying)
  <2>0. at \in [Threads -> Steps]
    BY DEF CriticalInv
  <2>1. ASSUME NEW t \in Free, NEW s \in Bare, at' = [at EXCEPT ![t] = s]
        PROVE  at' \in [Threads -> Steps]
               /\ \A u \in Threads : at'[u] = at[u] \/ (u \notin Critical /\ at'[u] \notin Carrying)
    BY <2>0, <2>1
  <2>2. ASSUME NEW t \in Free, NEW s \in Bare, NEW r \in Reconnectors,
               at' = [at EXCEPT ![t] = s, ![r] = "loop"]
        PROVE  at' \in [Threads -> Steps]
               /\ \A u \in Threads : at'[u] = at[u] \/ (u \notin Critical /\ at'[u] \notin Carrying)
    BY <1>1, <2>0, <2>2
  <2>3. CASE UNCHANGED at
    BY <2>0, <2>3
  <2> QED
    BY <1>3, <2>1, <2>2, <2>3
<1>5. Harmless(App)
  BY <1>1, <1>2, <1>4 DEF CriticalInv, Harmless, Mine
<1> QED
  BY <1>1, <1>5, HarmlessKeeps

LEMMA CriticalStep == CriticalInv /\ [Next]_vars => CriticalInv'
<1> SUFFICES ASSUME CriticalInv, [Next]_vars PROVE CriticalInv'
  OBVIOUS
<1>1. CASE \E t \in {App} \cup Reconnectors : InitStep(t)
  BY <1>1, CriticalInitStep
<1>2. CASE \E t \in Threads \ {Overflow} : SendStep(t)
  BY <1>2, CriticalSendStep
<1> QED
  BY <1>1, <1>2, CriticalOtherStep DEF Next

(***************************************************************************)
(* A message sent with send_or_fail is never in the queue, nobody but its  *)
(* sender ever carries it, and one that was refused has not been written:  *)
(* so an order is not resent behind the back of a caller who was told that *)
(* it failed (send_or_fail, websocket/core.rs).                            *)
(***************************************************************************)
THEOREM CriticalStaysOffQueue == Spec => []CriticalNeverQueued
<1>1. Init => CriticalInv
  BY CriticalInit
<1>2. CriticalInv /\ [Next]_vars => CriticalInv'
  BY CriticalStep
<1>3. CriticalInv => CriticalNeverQueued
  <2> SUFFICES ASSUME CriticalInv, NEW m \in Critical
               PROVE  /\ \A i \in 1 .. Len(queue) : queue[i] # m
                      /\ \A t \in Threads \ {m} : \A i \in 1 .. Len(load[t]) : load[t][i] # m
                      /\ at[m] = "refused" => \A c \in Conns : <<m, c>> \notin written
    BY DEF CriticalNeverQueued
  <2>1. \A i \in 1 .. Len(queue) : queue[i] \in Clean
    BY ElementOfSeq DEF CriticalInv
  <2>2. \A t \in Threads : \A i \in 1 .. Len(load[t]) : load[t][i] \in Mine(t)
    <3> SUFFICES ASSUME NEW t \in Threads, NEW i \in 1 .. Len(load[t])
                 PROVE  load[t][i] \in Mine(t)
      OBVIOUS
    <3>1. load[t] \in Seq(Mine(t))
      BY DEF CriticalInv
    <3> QED
      BY <3>1, ElementOfSeq
  <2>3. at[m] = "refused" => \A c \in Conns : <<m, c>> \notin written
    BY DEF CriticalInv
  <2> QED
    BY <2>1, <2>2, <2>3 DEF Clean, Mine
<1> QED
  BY <1>1, <1>2, <1>3, PTL DEF Spec

(***************************************************************************)
(* Types.                                                                  *)
(*                                                                         *)
(* The number of a connection stays within the connections there can be    *)
(* because every attempt under way has been counted in `dials`.  Whoever   *)
(* writes has a connection to write on.                                    *)
(***************************************************************************)
Dials == {t \in Threads : at[t] = "dial"}

CountInv ==
    /\ connId \in Nat /\ dials \in Nat /\ dials <= MaxDials
    /\ IsFiniteSet(Dials)
    /\ connId + Cardinality(Dials) <= dials

LEMMA CountInit == Init => CountInv
<1> SUFFICES ASSUME Init PROVE CountInv
  OBVIOUS
<1>1. Dials = {}
  BY DEF Init, Dials
<1>2. IsFiniteSet(Dials) /\ Cardinality(Dials) = 0
  BY <1>1, FS_EmptySet
<1> QED BY <1>2, WsAssumption DEF Init, CountInv

LEMMA CountStep == ThreadInv /\ CountInv /\ [Next]_vars => CountInv'
<1> SUFFICES ASSUME ThreadInv, CountInv, [Next]_vars PROVE CountInv'
  OBVIOUS
<1> DEFINE n == Cardinality(Dials)
           k == Cardinality(Dials')
<1>0. /\ at \in [Threads -> Steps] /\ IsFiniteSet(Dials) /\ n \in Nat /\ connId \in Nat /\ dials \in Nat
      /\ dials <= MaxDials /\ connId + n <= dials /\ MaxDials \in Nat
  BY FS_CardinalityType, WsAssumption DEF ThreadInv, CountInv
<1>1. ASSUME Dials' \subseteq Dials, connId' = connId, dials' = dials PROVE CountInv'
  <2>1. IsFiniteSet(Dials') /\ k <= n /\ k \in Nat
    BY <1>0, <1>1, FS_Subset, FS_CardinalityType
  <2> HIDE DEF n, k
  <2>2. connId' + k <= dials'
    BY <1>0, <1>1, <2>1
  <2> QED BY <1>0, <1>1, <2>1, <2>2 DEF CountInv, k
<1>2. ASSUME NEW t \in Threads, InitMark(t) PROVE CountInv'
  <2>1. Dials' = Dials \cup {t} /\ t \notin Dials
    BY <1>0, <1>2 DEF InitMark, Goto, Dials
  <2>2. dials' = dials + 1 /\ dials < MaxDials /\ connId' = connId
    BY <1>2 DEF InitMark
  <2>3. IsFiniteSet(Dials') /\ k = n + 1
    BY <1>0, <2>1, FS_AddElement
  <2> HIDE DEF n, k
  <2>4. connId' + k <= dials' /\ dials' <= MaxDials /\ dials' \in Nat
    BY <1>0, <2>2, <2>3
  <2> QED BY <1>0, <2>2, <2>3, <2>4 DEF CountInv, k
<1>3. ASSUME NEW t \in Threads, DialSucceeds(t) PROVE CountInv'
  <2>1. Dials' = Dials \ {t} /\ t \in Dials
    BY <1>0, <1>3 DEF DialSucceeds, Goto, Dials
  <2>2. dials' = dials /\ connId' = connId + 1
    BY <1>3 DEF DialSucceeds, bounds, NextId
  <2>3. IsFiniteSet(Dials') /\ k = n - 1
    BY <1>0, <2>1, FS_RemoveElement
  <2> HIDE DEF n, k
  <2>4. connId' + k <= dials' /\ connId' \in Nat
    BY <1>0, <2>2, <2>3
  <2> QED BY <1>0, <2>2, <2>3, <2>4 DEF CountInv, k
<1>4. ASSUME NEW t \in {App} \cup Reconnectors, InitStep(t), ~InitMark(t), ~DialSucceeds(t) PROVE CountInv'
  <2>0. t \in Threads
    BY Kinds
  <2>1. connId' = connId /\ dials' = dials
    BY <1>4 DEF InitStep, InitEnter, InitGate, InitSwap, DialFails, Backoff, BackoffEnds, InitGivesUp,
       ReplaceHandle, PublishOpen, InstallActor, FlushTake, FlushHandle, FlushWrite, FlushFails, SendPeek,
       InitFinish, bounds, shared
  <2>2. \E s \in Steps \ {"dial"} : at' = [at EXCEPT ![t] = s]
    <3> USE DEF Steps, AppSteps, InitSteps, SendSteps, OtherSteps, Goto, AfterInit
    <3>1. CASE InitEnter(t) \/ InitGate(t) \/ InitSwap(t) \/ DialFails(t) \/ Backoff(t) \/ BackoffEnds(t)
      BY <3>1 DEF InitEnter, InitGate, InitSwap, DialFails, Backoff, BackoffEnds
    <3>2. CASE InitGivesUp(t) \/ ReplaceHandle(t) \/ PublishOpen(t) \/ InstallActor(t) \/ FlushTake(t)
      BY <3>2 DEF InitGivesUp, ReplaceHandle, PublishOpen, InstallActor, FlushTake
    <3>3. CASE FlushHandle(t) \/ FlushWrite(t) \/ FlushFails(t) \/ SendPeek(t) \/ InitFinish(t)
      BY <3>3 DEF FlushHandle, FlushWrite, FlushFails, SendPeek, InitFinish
    <3> QED BY <1>4, <3>1, <3>2, <3>3 DEF InitStep
  <2>3. Dials' \subseteq Dials
    BY <1>0, <2>0, <2>2 DEF Dials
  <2> QED BY <1>1, <2>1, <2>3
<1>5. CASE ~\E t \in {App} \cup Reconnectors : InitStep(t)
  <2>1. connId' = connId /\ dials' = dials
    BY <1>5 DEF Next, AppInit, SendStep, SendReady, SendHandle, Enqueue, SendWrite, SendFails, SendBroken,
       SendLost, SendReport, ReconnectStep, ReconnectLoop, ReconnectWaited, ReconnectRecheck,
       ReconnectSettle, CloseStep, AppClose, CloseDisable, CloseMark, CloseRelease, CloseTake,
       CloseClosed, CloseNotify, OverflowBegins, OverflowMark, OverflowCut, ActorStep, ActorFrame,
       ActorFails, ActorMarksClosed, ActorStops, ActorExits, ActorReports, bounds, shared, vars
  <2>2. \/ at' = at
        \/ \E t \in Threads : \E s : s # "dial" /\ Moves(t, s)
    <3>1. CASE \E t \in Threads \ {Overflow} : SendStep(t)
      <4>1. PICK t \in Threads \ {Overflow} : SendStep(t)
        BY <3>1
      <4>2. CASE SendReport(t)
        BY <4>2 DEF SendReport, OnClose, Moves, AfterSend, AfterInit
      <4>3. CASE ~SendReport(t)
        <5>1. \E s : s # "dial" /\ at' = [at EXCEPT ![t] = s]
          BY <4>1, <4>3 DEF SendStep, SendReady, SendHandle, Enqueue, SendWrite, SendFails, SendBroken,
             SendLost, QueueOrRefuse, SendErr, Goto, AfterSend, AfterInit
        <5> QED BY <5>1 DEF Moves
      <4> QED BY <4>2, <4>3
    <3>2. CASE AppInit \/ CloseStep
      BY <3>2, CloseStepMoves, Kinds DEF AppSteps
    <3>3. CASE OverflowBegins \/ OverflowMark \/ OverflowCut
      BY <3>3, OverflowStepMoves, Kinds DEF OverflowSteps
    <3>4. CASE \E r \in Reconnectors : ReconnectStep(r)
      BY <3>4, ReconnectStepMoves, Kinds DEF Moves
    <3>5. CASE \E c \in Conns : ActorStep(c)
      BY <3>5, ActorStepMoves, Kinds DEF Moves
    <3>6. CASE UNCHANGED vars
      BY <3>6 DEF vars, threads
    <3> QED BY <1>5, <3>1, <3>2, <3>3, <3>4, <3>5, <3>6 DEF Next
  <2>3. Dials' \subseteq Dials
    <3>1. ASSUME NEW t \in Threads, NEW s, s # "dial", at' = [at EXCEPT ![t] = s]
          PROVE  Dials' \subseteq Dials
      BY <1>0, <3>1 DEF Dials
    <3>2. ASSUME NEW t \in Threads, NEW s, s # "dial", NEW r \in Reconnectors,
                 at' = [at EXCEPT ![t] = s, ![r] = "loop"]
          PROVE  Dials' \subseteq Dials
      BY <1>0, <3>2, Kinds DEF Dials
    <3>3. at' = at => Dials' \subseteq Dials
      BY DEF Dials
    <3> QED BY <2>2, <3>1, <3>2, <3>3 DEF Moves
  <2> QED BY <1>1, <2>1, <2>3
<1> QED BY <1>2, <1>3, <1>4, <1>5, Kinds

ActorStates == {"none", "running", "failing", "stopping", "leaving", "left", "gone"}

(* What CriticalInv does not say of the types already. *)
SharedTypes ==
    /\ status \in Statuses
    /\ shouldReconnect \in BOOLEAN /\ connecting \in BOOLEAN /\ pendingPeek \in BOOLEAN
    /\ times \in Nat
    /\ io \in 0 .. MaxDials
    /\ actor \in [Conns -> ActorStates]
    /\ shutdown \subseteq Conns

OtherTypes ==
    /\ hold \in [Threads -> 0 .. MaxDials]
    /\ losses \in Nat /\ calls \in Nat /\ cuts \in Nat /\ failed \in BOOLEAN
    /\ written \subseteq Messages \X Conns
    /\ dropped \subseteq Messages

Holding == {"sending", "flushing", "replace", "publish", "install"}
Holds == \A t \in Threads : at[t] \in Holding => hold[t] # 0

TypeInv == ThreadInv /\ CriticalInv /\ CountInv /\ SharedTypes /\ OtherTypes /\ Holds

LEMMA TypeInit == Init => SharedTypes /\ OtherTypes /\ Holds
<1> SUFFICES ASSUME Init PROVE SharedTypes /\ OtherTypes /\ Holds
  OBVIOUS
<1>0. 0 \in 0 .. MaxDials /\ 0 \in Nat
  BY WsAssumption
<1>1. SharedTypes
  <2>1. actor \in [Conns -> ActorStates]
    BY DEF Init, ActorStates
  <2> QED BY <1>0, <2>1 DEF Init, SharedTypes, Statuses
<1>2. OtherTypes
  BY <1>0 DEF Init, OtherTypes
<1>3. Holds
  BY DEF Init, Holds, Holding
<1> QED BY <1>1, <1>2, <1>3

LEMMA Written ==
    ASSUME TypeInv, NEW t \in Threads, at[t] \in {"sending", "flushing"}, Write(t)
    PROVE  written' \subseteq Messages \X Conns
<1>1. hold[t] \in Conns
  BY DEF TypeInv, Holds, Holding, OtherTypes, Conns
<1>2. load[t] # <<>> /\ load[t] \in Seq(Messages)
  BY DEF TypeInv, CriticalInv, Carrying, SendSteps
<1>3. Head(load[t]) \in Messages
  BY <1>2, HeadTailProperties
<1> QED BY <1>1, <1>3 DEF Write, TypeInv, OtherTypes

LEMMA SharedStep == TypeInv /\ [Next]_vars => SharedTypes'
<1> SUFFICES ASSUME TypeInv, [Next]_vars PROVE SharedTypes'
  OBVIOUS
<1> USE DEF SharedTypes, Statuses, ActorStates
<1>0. SharedTypes /\ hold \in [Threads -> 0 .. MaxDials]
  BY DEF TypeInv, OtherTypes
<1>1. shutdown \cup ({io} \ {0}) \subseteq Conns /\ 0 \in 0 .. MaxDials
  BY <1>0, WsAssumption DEF Conns
<1>2. ASSUME NEW t \in {App} \cup Reconnectors, InitStep(t) PROVE SharedTypes'
  <2>0. t \in Threads
    BY Kinds
  <2>1. CASE InitEnter(t) \/ InitGate(t) \/ InitSwap(t) \/ InitMark(t)
    BY <1>0, <2>1 DEF InitEnter, InitGate, InitSwap, InitMark, shared, actors
  <2>5. CASE DialFails(t) \/ BackoffEnds(t) \/ InitGivesUp(t)
    BY <1>0, <2>5 DEF DialFails, BackoffEnds, InitGivesUp, shared, actors
  <2>6. CASE Backoff(t)
    BY <1>0, <2>6 DEF Backoff, actors
  <2>2. CASE DialSucceeds(t) \/ ReplaceHandle(t) \/ PublishOpen(t) \/ InstallActor(t)
    BY <1>0, <1>1, <2>0, <2>2 DEF DialSucceeds, ReplaceHandle, PublishOpen, InstallActor, actors
  <2>3. CASE FlushTake(t) \/ FlushHandle(t) \/ FlushWrite(t) \/ SendPeek(t) \/ InitFinish(t)
    BY <1>0, <2>3 DEF FlushTake, FlushHandle, FlushWrite, SendPeek, InitFinish, shared, actors
  <2>4. CASE FlushFails(t)
    BY <1>0, <2>4 DEF FlushFails, WriteFails
  <2> QED BY <1>2, <2>1, <2>2, <2>3, <2>4, <2>5, <2>6 DEF InitStep
<1>3. ASSUME NEW t \in Threads, SendStep(t) PROVE SharedTypes'
  <2>1. CASE SendReady(t) \/ SendHandle(t) \/ Enqueue(t) \/ SendWrite(t)
    BY <1>0, <2>1 DEF SendReady, SendHandle, Enqueue, SendWrite, QueueOrRefuse, SendErr, shared, actors
  <2>2. CASE SendFails(t)
    BY <1>0, <2>2 DEF SendFails, WriteFails, shared
  <2>3. CASE SendBroken(t) \/ SendLost(t) \/ SendReport(t)
    BY <1>0, <2>3 DEF SendBroken, SendLost, SendReport, SendErr, shared, actors
  <2> QED BY <1>3, <2>1, <2>2, <2>3 DEF SendStep
<1>4. CASE AppInit \/ CloseStep
  BY <1>0, <1>1, <1>4 DEF AppInit, CloseStep, AppClose, CloseDisable, CloseMark, CloseRelease, CloseTake,
     CloseClosed, CloseNotify, shared, actors
<1>5. CASE OverflowBegins \/ OverflowMark \/ OverflowCut
  BY <1>0, <1>1, <1>5 DEF OverflowBegins, OverflowMark, OverflowCut, shared, actors
<1>6. CASE \E r \in Reconnectors : ReconnectStep(r)
  BY <1>0, <1>6 DEF ReconnectStep, ReconnectLoop, ReconnectWaited, ReconnectRecheck, ReconnectSettle,
     shared, actors
<1>7. CASE \E c \in Conns : ActorStep(c)
  BY <1>0, <1>7 DEF ActorStep, ActorFrame, ActorFails, ActorMarksClosed, ActorStops, ActorExits,
     ActorReports, shared, actors
<1>8. CASE UNCHANGED vars
  BY <1>0, <1>8 DEF vars, shared, actors
<1> QED BY <1>2, <1>3, <1>4, <1>5, <1>6, <1>7, <1>8 DEF Next

LEMMA OtherTypesStep == TypeInv /\ [Next]_vars => OtherTypes'
<1> SUFFICES ASSUME TypeInv, [Next]_vars PROVE OtherTypes'
  OBVIOUS
<1> USE DEF OtherTypes
<1>0. OtherTypes /\ io \in 0 .. MaxDials /\ connecting \in BOOLEAN /\ shouldReconnect \in BOOLEAN
  BY DEF TypeInv, SharedTypes
<1>2. ASSUME NEW t \in {App} \cup Reconnectors, InitStep(t) PROVE OtherTypes'
  <2>0. t \in Threads
    BY Kinds
  <2>1. CASE InitEnter(t) \/ InitGate(t) \/ InitSwap(t) \/ InitMark(t) \/ DialFails(t) \/ Backoff(t)
             \/ BackoffEnds(t) \/ InitGivesUp(t)
    BY <1>0, <2>1 DEF InitEnter, InitGate, InitSwap, InitMark, DialFails, Backoff, BackoffEnds,
       InitGivesUp, bounds, history
  <2>2. CASE DialSucceeds(t)
    <3>1. t \in Dials /\ IsFiniteSet(Dials)
      BY <2>0, <2>2 DEF DialSucceeds, Dials, TypeInv, CountInv
    <3>2. Cardinality(Dials) \in Nat /\ Cardinality(Dials) # 0
      BY <3>1, FS_CardinalityType, FS_EmptySet
    <3>3. connId \in Nat /\ dials \in Nat /\ dials <= MaxDials /\ connId + Cardinality(Dials) <= dials
          /\ MaxDials \in Nat
      BY WsAssumption DEF TypeInv, CountInv
    <3> DEFINE n == Cardinality(Dials)
    <3>4. n \in Nat /\ n # 0 /\ connId + n <= dials
      BY <3>2, <3>3
    <3> HIDE DEF n
    <3>5. NextId \in 0 .. MaxDials
      BY <3>3, <3>4 DEF NextId
    <3> QED BY <1>0, <2>0, <2>2, <3>5 DEF DialSucceeds, bounds, history
  <2>3. CASE ReplaceHandle(t) \/ PublishOpen(t) \/ InstallActor(t) \/ FlushTake(t) \/ SendPeek(t)
             \/ InitFinish(t)
    BY <1>0, <2>3 DEF ReplaceHandle, PublishOpen, InstallActor, FlushTake, SendPeek, InitFinish,
       bounds, history
  <2>4. CASE FlushHandle(t) \/ FlushFails(t)
    BY <1>0, <2>4 DEF FlushHandle, FlushFails, WriteFails, bounds, history
  <2>5. CASE FlushWrite(t)
    <3>1. written' \subseteq Messages \X Conns
      BY <2>0, <2>5, Written DEF FlushWrite
    <3> QED BY <1>0, <2>5, <3>1 DEF FlushWrite, bounds
  <2> QED BY <1>2, <2>1, <2>2, <2>3, <2>4, <2>5 DEF InitStep
<1>3. ASSUME NEW t \in Threads, SendStep(t) PROVE OtherTypes'
  <2>0. {TRUE} \subseteq BOOLEAN /\ (failed \/ t \notin Senders) \in BOOLEAN
    OBVIOUS
  <2>1. CASE SendReady(t) \/ SendHandle(t)
    BY <1>0, <2>0, <2>1 DEF SendReady, SendHandle, QueueOrRefuse, SendErr, bounds, history
  <2>2. CASE Enqueue(t)
    <3>1. Len(queue) >= QueueMax => Head(queue) \in Messages
      <4>1. queue \in Seq(Messages)
        BY SeqMonotonic DEF TypeInv, CriticalInv, Clean
      <4>2. Len(queue) >= QueueMax => queue # <<>>
        BY <4>1, WsAssumption
      <4> QED BY <4>1, <4>2, HeadTailProperties
    <3> QED BY <1>0, <2>2, <3>1 DEF Enqueue, bounds, history
  <2>3. CASE SendWrite(t)
    <3>1. written' \subseteq Messages \X Conns
      BY <2>3, Written DEF SendWrite
    <3> QED BY <1>0, <2>3, <3>1 DEF SendWrite, bounds
  <2>4. CASE SendFails(t)
    BY <1>0, <2>4 DEF SendFails, WriteFails, bounds, history
  <2>5. CASE SendBroken(t) \/ SendLost(t) \/ SendReport(t)
    BY <1>0, <2>0, <2>5 DEF SendBroken, SendLost, SendReport, SendErr, bounds, history
  <2> QED BY <1>3, <2>1, <2>2, <2>3, <2>4, <2>5 DEF SendStep
<1>4. CASE AppInit \/ CloseStep
  BY <1>0, <1>4 DEF AppInit, CloseStep, AppClose, CloseDisable, CloseMark, CloseRelease, CloseTake,
     CloseClosed, CloseNotify, bounds, history
<1>5. CASE OverflowBegins \/ OverflowMark \/ OverflowCut
  BY <1>0, <1>5 DEF OverflowBegins, OverflowMark, OverflowCut, bounds, history
<1>6. CASE \E r \in Reconnectors : ReconnectStep(r)
  BY <1>0, <1>6 DEF ReconnectStep, ReconnectLoop, ReconnectWaited, ReconnectRecheck, ReconnectSettle,
     bounds, history
<1>7. CASE \E c \in Conns : ActorStep(c)
  <2>1. UNCHANGED <<hold, calls, cuts, failed, written, dropped>>
    BY <1>7 DEF ActorStep, ActorFrame, ActorFails, ActorMarksClosed, ActorStops, ActorExits,
       ActorReports, threads, bounds, history
  <2>2. losses' = losses \/ losses' = losses + 1
    BY <1>7 DEF ActorStep, ActorFrame, ActorFails, ActorMarksClosed, ActorStops, ActorExits,
       ActorReports, threads, bounds, history
  <2> QED BY <1>0, <2>1, <2>2
<1>8. CASE UNCHANGED vars
  BY <1>0, <1>8 DEF vars, threads, bounds, history
<1> QED BY <1>2, <1>3, <1>4, <1>5, <1>6, <1>7, <1>8 DEF Next

LEMMA HoldsStep == TypeInv /\ [Next]_vars => Holds'
<1> SUFFICES ASSUME TypeInv, [Next]_vars PROVE Holds'
  OBVIOUS
<1>0. /\ at \in [Threads -> Steps] /\ hold \in [Threads -> 0 .. MaxDials] /\ Holds
      /\ connId \in Nat /\ ThreadInv
  BY DEF TypeInv, OtherTypes, CountInv, ThreadInv
<1>1. ASSUME NEW t \in Threads, NEW s, Moves(t, s),
             \A u \in Threads \ {t} : hold'[u] = hold[u],
             s \in Holding => hold'[t] # 0
      PROVE  Holds'
  <2>1. ASSUME at' = [at EXCEPT ![t] = s] PROVE Holds'
    BY <1>0, <1>1, <2>1 DEF Holds
  <2>2. ASSUME NEW r \in Reconnectors, at' = [at EXCEPT ![t] = s, ![r] = "loop"] PROVE Holds'
    BY <1>0, <1>1, <2>2, Kinds DEF Holds, Holding
  <2> QED BY <1>1, <2>1, <2>2 DEF Moves
<1>2. ASSUME NEW t \in {App} \cup Reconnectors, InitStep(t) PROVE Holds'
  <2>0. t \in Threads
    BY Kinds
  <2> USE DEF Goto, AfterInit, Moves, Holding
  <2>1. CASE InitEnter(t) \/ InitGate(t) \/ InitSwap(t) \/ InitMark(t)
    BY <1>0, <1>1, <2>0, <2>1 DEF InitEnter, InitGate, InitSwap, InitMark
  <2>2. CASE DialFails(t) \/ Backoff(t) \/ BackoffEnds(t) \/ InitGivesUp(t)
    BY <1>0, <1>1, <2>0, <2>2 DEF DialFails, Backoff, BackoffEnds, InitGivesUp
  <2>3. CASE DialSucceeds(t)
    BY <1>0, <1>1, <2>0, <2>3 DEF DialSucceeds, NextId
  <2>4. CASE ReplaceHandle(t) \/ PublishOpen(t) \/ InstallActor(t)
    BY <1>0, <1>1, <2>0, <2>4 DEF ReplaceHandle, PublishOpen, InstallActor, Holds
  <2>5. CASE FlushTake(t) \/ FlushHandle(t)
    BY <1>0, <1>1, <2>0, <2>5 DEF FlushTake, FlushHandle
  <2>6. CASE FlushWrite(t) \/ FlushFails(t) \/ SendPeek(t) \/ InitFinish(t)
    BY <1>0, <1>1, <2>0, <2>6 DEF FlushWrite, FlushFails, SendPeek, InitFinish, Holds
  <2> QED BY <1>2, <2>1, <2>2, <2>3, <2>4, <2>5, <2>6 DEF InitStep
<1>3. ASSUME NEW t \in Threads, SendStep(t) PROVE Holds'
  <2>0. AfterSend(t, TRUE) \notin Holding /\ AfterSend(t, FALSE) \notin Holding
    BY DEF AfterSend, AfterInit, Holding
  <2>1. CASE SendReady(t) \/ SendHandle(t)
    BY <1>0, <1>1, <2>0, <2>1 DEF SendReady, SendHandle, QueueOrRefuse, SendErr, Goto, Moves, Holding
  <2>2. CASE Enqueue(t) \/ SendWrite(t) \/ SendFails(t)
    BY <1>0, <1>1, <2>0, <2>2 DEF Enqueue, SendWrite, SendFails, Goto, Moves, Holding
  <2>3. CASE SendBroken(t) \/ SendLost(t)
    BY <1>0, <1>1, <2>0, <2>3 DEF SendBroken, SendLost, SendErr, Goto, Moves, Holding
  <2>4. CASE SendReport(t)
    BY <1>0, <1>1, <2>0, <2>4 DEF SendReport, OnClose, Moves, Holding
  <2> QED BY <1>3, <2>1, <2>2, <2>3, <2>4 DEF SendStep
<1>4. CASE AppInit \/ CloseStep
  <2>1. hold' = hold
    BY <1>4 DEF AppInit, CloseStep, AppClose, CloseDisable, CloseMark, CloseRelease, CloseTake,
     CloseClosed, CloseNotify
  <2> QED BY <1>0, <1>1, <1>4, <2>1, CloseStepMoves, Kinds DEF AppSteps, Holding
<1>5. CASE OverflowBegins \/ OverflowMark \/ OverflowCut
  <2>1. hold' = hold
    BY <1>5 DEF OverflowBegins, OverflowMark, OverflowCut
  <2> QED BY <1>0, <1>1, <1>5, <2>1, OverflowStepMoves, Kinds DEF OverflowSteps, Holding
<1>6. ASSUME NEW r \in Reconnectors, ReconnectStep(r) PROVE Holds'
  <2>1. hold' = hold
    BY <1>6 DEF ReconnectStep, ReconnectLoop, ReconnectWaited, ReconnectRecheck, ReconnectSettle
  <2> QED BY <1>0, <1>1, <1>6, <2>1, ReconnectStepMoves, Kinds DEF Moves, Holding
<1>7. ASSUME NEW c \in Conns, ActorStep(c) PROVE Holds'
  <2>1. hold' = hold
    BY <1>7 DEF ActorStep, ActorFrame, ActorFails, ActorMarksClosed, ActorStops, ActorExits,
       ActorReports, threads
  <2>2. at' = at => Holds'
    BY <1>0, <2>1 DEF Holds
  <2> QED BY <1>0, <1>1, <1>7, <2>1, <2>2, ActorStepMoves, Kinds DEF Moves, Holding
<1>8. CASE UNCHANGED vars
  BY <1>0, <1>8 DEF vars, threads, Holds
<1> QED BY <1>2, <1>3, <1>4, <1>5, <1>6, <1>7, <1>8 DEF Next

LEMMA TypeStep == TypeInv /\ [Next]_vars => TypeInv'
BY ThreadStep, CriticalStep, CountStep, SharedStep, OtherTypesStep, HoldsStep DEF TypeInv

LEMMA TypesFollow == TypeInv => TypeOK
<1> SUFFICES ASSUME TypeInv PROVE TypeOK
  OBVIOUS
<1>1. queue \in Seq(Messages)
  BY SeqMonotonic DEF TypeInv, CriticalInv, Clean
<1>2. connId \in 0 .. MaxDials /\ dials \in Nat
  <2>1. Cardinality(Dials) \in Nat
    BY FS_CardinalityType DEF TypeInv, CountInv
  <2> DEFINE n == Cardinality(Dials)
  <2>2. n \in Nat /\ connId \in Nat /\ dials \in Nat /\ dials <= MaxDials /\ connId + n <= dials
        /\ MaxDials \in Nat
    BY <2>1, WsAssumption DEF TypeInv, CountInv
  <2> HIDE DEF n
  <2> QED BY <2>2
<1>3. load \in [Threads -> Seq(Messages)]
  BY DEF TypeInv, CriticalInv
<1> QED BY <1>1, <1>2, <1>3 DEF TypeInv, ThreadInv, Steps, SharedTypes, OtherTypes, ActorStates, TypeOK

(* The state of a connection stays type correct for any threads and bounds: no  *)
(* attempt numbers a connection past MaxDials, no actor is installed under a    *)
(* number that is none, and nothing is written but messages on connections.     *)
THEOREM WsTypesHold == Spec => []TypeOK
<1>1. Init => TypeInv
  BY ThreadInit, CriticalInit, CountInit, TypeInit DEF TypeInv
<1> QED
  BY <1>1, TypeStep, TypesFollow, PTL DEF Spec

(***************************************************************************)
(* Messages that send() accepted.                                          *)
(*                                                                         *)
(* The invariant follows a message from hand to hand: while its sender is  *)
(* in send() the sender alone carries it; afterwards it is in one place of *)
(* the queue or of the hands of one thread that empties it, once, until it *)
(* is written, and then nowhere.  So whoever takes the queue must have had *)
(* empty hands, or what it held would be lost.                             *)
(***************************************************************************)
In(s) == {s[i] : i \in 1 .. Len(s)}
Single(s) == \A i, j \in 1 .. Len(s) : s[i] = s[j] /\ s[i] \in Senders => i = j
Own(t) == IF t \in Senders THEN t ELSE Peek

HandsInv ==
    /\ \A t \in Threads : at[t] \in SendSteps => load[t] = <<Own(t)>>
    /\ \A t \in Threads : at[t] \notin Carrying => load[t] = <<>>

PlacesInv ==
    /\ Single(queue)
    /\ \A t \in Threads : Single(load[t])
    /\ \A m \in Senders : \A t \in Threads : m \in In(load[t]) => m \notin In(queue)
    /\ \A m \in Senders : \A t, u \in Threads : m \in In(load[t]) /\ m \in In(load[u]) => t = u

OnceInv ==
    \A m \in Senders : \A c \in Conns : <<m, c>> \in written =>
        /\ m \notin In(queue)
        /\ \A t \in Threads : m \notin In(load[t])
        /\ \A d \in Conns : <<m, d>> \in written => c = d

KeptInv ==
    \A m \in Senders : at[m] = "sent" =>
        \/ \E c \in Conns : <<m, c>> \in written
        \/ m \in dropped
        \/ m \in In(queue)
        \/ \E t \in Threads : m \in In(load[t])

AccountedInv == HandsInv /\ PlacesInv /\ OnceInv /\ KeptInv

LEMMA InEmpty == In(<<>>) = {} /\ Single(<<>>)
BY DEF In, Single

LEMMA InOne == \A m : In(<<m>>) = {m} /\ Single(<<m>>)
<1> SUFFICES ASSUME NEW m PROVE In(<<m>>) = {m} /\ Single(<<m>>)
  OBVIOUS
<1>1. Len(<<m>>) = 1 /\ <<m>>[1] = m
  OBVIOUS
<1>2. 1 .. Len(<<m>>) = {1}
  BY <1>1
<1> QED BY <1>1, <1>2 DEF In, Single

LEMMA InConcat ==
    ASSUME NEW s \in Seq(Messages), NEW u \in Seq(Messages)
    PROVE  /\ s \o u \in Seq(Messages)
           /\ In(s \o u) = In(s) \cup In(u)
           /\ Single(s) /\ Single(u) /\ (\A m \in Senders : m \in In(s) => m \notin In(u)) => Single(s \o u)
<1>1. /\ s \o u \in Seq(Messages) /\ Len(s \o u) = Len(s) + Len(u) /\ Len(s) \in Nat /\ Len(u) \in Nat
      /\ \A i \in 1 .. (Len(s) + Len(u)) : (s \o u)[i] = IF i <= Len(s) THEN s[i] ELSE u[i - Len(s)]
  BY ConcatProperties
<1>2. In(s \o u) \subseteq In(s) \cup In(u)
  <2> SUFFICES ASSUME NEW i \in 1 .. Len(s \o u) PROVE (s \o u)[i] \in In(s) \cup In(u)
    BY DEF In
  <2>1. CASE i <= Len(s)
    BY <1>1, <2>1 DEF In
  <2>2. CASE ~(i <= Len(s))
    <3>1. i - Len(s) \in 1 .. Len(u) /\ (s \o u)[i] = u[i - Len(s)]
      BY <1>1, <2>2
    <3> QED BY <3>1 DEF In
  <2> QED BY <2>1, <2>2
<1>3. In(s) \cup In(u) \subseteq In(s \o u)
  <2>1. ASSUME NEW i \in 1 .. Len(s) PROVE s[i] \in In(s \o u)
    <3>1. i \in 1 .. Len(s \o u) /\ (s \o u)[i] = s[i]
      BY <1>1
    <3> QED BY <3>1 DEF In
  <2>2. ASSUME NEW i \in 1 .. Len(u) PROVE u[i] \in In(s \o u)
    <3>1. i + Len(s) \in 1 .. Len(s \o u) /\ (s \o u)[i + Len(s)] = u[i]
      BY <1>1
    <3> QED BY <3>1 DEF In
  <2> QED BY <2>1, <2>2 DEF In
<1>4. ASSUME Single(s), Single(u), \A m \in Senders : m \in In(s) => m \notin In(u)
      PROVE  Single(s \o u)
  <2> SUFFICES ASSUME NEW i \in 1 .. Len(s \o u), NEW j \in 1 .. Len(s \o u),
                      (s \o u)[i] = (s \o u)[j], (s \o u)[i] \in Senders
               PROVE  i = j
    BY DEF Single
  <2>1. CASE i <= Len(s) /\ j <= Len(s)
    BY <1>1, <1>4, <2>1 DEF Single
  <2>2. CASE ~(i <= Len(s)) /\ ~(j <= Len(s))
    <3>1. /\ i - Len(s) \in 1 .. Len(u) /\ j - Len(s) \in 1 .. Len(u)
          /\ (s \o u)[i] = u[i - Len(s)] /\ (s \o u)[j] = u[j - Len(s)]
      BY <1>1, <2>2
    <3>2. i - Len(s) = j - Len(s)
      BY <1>4, <3>1 DEF Single
    <3> QED BY <1>1, <3>2
  <2>3. CASE (i <= Len(s)) # (j <= Len(s))
    <3>1. ASSUME NEW a \in 1 .. Len(s \o u), NEW b \in 1 .. Len(s \o u), a <= Len(s), ~(b <= Len(s)),
                 (s \o u)[a] = (s \o u)[b], (s \o u)[a] \in Senders
          PROVE  FALSE
      <4>1. (s \o u)[a] = s[a] /\ a \in 1 .. Len(s)
        BY <1>1, <3>1
      <4>2. (s \o u)[b] = u[b - Len(s)] /\ b - Len(s) \in 1 .. Len(u)
        BY <1>1, <3>1
      <4>3. (s \o u)[a] \in In(s) /\ (s \o u)[b] \in In(u)
        BY <4>1, <4>2 DEF In
      <4> QED BY <1>4, <3>1, <4>3
    <3> QED BY <2>3, <3>1
  <2> QED BY <2>1, <2>2, <2>3
<1> QED BY <1>1, <1>2, <1>3, <1>4

LEMMA InTail ==
    ASSUME NEW s \in Seq(Messages), s # <<>>
    PROVE  /\ Tail(s) \in Seq(Messages)
           /\ In(s) = {Head(s)} \cup In(Tail(s))
           /\ Single(s) => Single(Tail(s)) /\ (Head(s) \in Senders => Head(s) \notin In(Tail(s)))
<1>1. /\ Len(s) \in Nat /\ Len(s) >= 1 /\ Head(s) = s[1] /\ Tail(s) \in Seq(Messages)
      /\ Len(Tail(s)) = Len(s) - 1 /\ \A i \in 1 .. Len(Tail(s)) : Tail(s)[i] = s[i + 1]
  <2>1. Len(s) \in Nat /\ Len(s) # 0
    BY EmptySeq
  <2> QED BY <2>1, HeadTailProperties
<1>2. In(s) \subseteq {Head(s)} \cup In(Tail(s))
  <2> SUFFICES ASSUME NEW i \in 1 .. Len(s) PROVE s[i] \in {Head(s)} \cup In(Tail(s))
    BY DEF In
  <2>1. CASE i = 1
    BY <1>1, <2>1
  <2>2. CASE i # 1
    <3>1. i - 1 \in 1 .. Len(Tail(s)) /\ (i - 1) + 1 = i
      BY <1>1, <2>2
    <3>2. Tail(s)[i - 1] = s[i]
      BY <1>1, <3>1
    <3> QED BY <3>1, <3>2 DEF In
  <2> QED BY <2>1, <2>2
<1>3. {Head(s)} \cup In(Tail(s)) \subseteq In(s)
  <2>1. Head(s) \in In(s)
    BY <1>1 DEF In
  <2>2. ASSUME NEW i \in 1 .. Len(Tail(s)) PROVE Tail(s)[i] \in In(s)
    <3>1. i + 1 \in 1 .. Len(s) /\ Tail(s)[i] = s[i + 1]
      BY <1>1
    <3> QED BY <3>1 DEF In
  <2> QED BY <2>1, <2>2 DEF In
<1>4. ASSUME Single(s) PROVE Single(Tail(s)) /\ (Head(s) \in Senders => Head(s) \notin In(Tail(s)))
  <2>1. ASSUME NEW i \in 1 .. Len(Tail(s)), NEW j \in 1 .. Len(Tail(s)),
               Tail(s)[i] = Tail(s)[j], Tail(s)[i] \in Senders
        PROVE  i = j
    <3>1. i + 1 \in 1 .. Len(s) /\ j + 1 \in 1 .. Len(s) /\ s[i + 1] = s[j + 1] /\ s[i + 1] \in Senders
      BY <1>1, <2>1
    <3>2. i + 1 = j + 1
      BY <1>4, <3>1 DEF Single
    <3> QED BY <3>2
  <2>2. ASSUME NEW i \in 1 .. Len(Tail(s)), Head(s) \in Senders, Head(s) = Tail(s)[i] PROVE FALSE
    <3>1. i + 1 \in 1 .. Len(s) /\ 1 \in 1 .. Len(s) /\ s[i + 1] = s[1] /\ s[1] \in Senders
      BY <1>1, <2>2
    <3>2. i + 1 = 1
      BY <1>4, <3>1 DEF Single
    <3> QED BY <3>2
  <2> QED BY <2>1, <2>2 DEF Single, In
<1> QED BY <1>1, <1>2, <1>3, <1>4

LEMMA HandsMove ==
    ASSUME ThreadInv, HandsInv, NEW t \in Threads, NEW s, Moves(t, s),
           \A u \in Threads \ {t} : load'[u] = load[u],
           s \in SendSteps => load'[t] = <<Own(t)>>,
           s \notin Carrying => load'[t] = <<>>,
           s \in Carrying => at[t] # "none"
    PROVE  HandsInv'
<1>0. at \in [Threads -> Steps]
  BY DEF ThreadInv
<1> USE DEF Carrying, SendSteps, Own
<1>1. ASSUME at' = [at EXCEPT ![t] = s] PROVE HandsInv'
  BY <1>0, <1>1 DEF HandsInv
<1>2. ASSUME NEW r \in Reconnectors, at[r] = "none", at' = [at EXCEPT ![t] = s, ![r] = "loop"]
      PROVE  HandsInv'
  <2>1. r \in Threads /\ \A u \in Threads : at'[u] = IF u = r THEN "loop" ELSE IF u = t THEN s ELSE at[u]
    BY <1>0, <1>2, Kinds
  <2>2. load[r] = <<>>
    BY <1>2, <2>1 DEF HandsInv
  <2>3. CASE r # t
    <3>1. load'[r] = <<>>
      BY <2>1, <2>2, <2>3
    <3>2. \A u \in Threads \ {r, t} : at'[u] = at[u] /\ load'[u] = load[u]
      BY <2>1
    <3>3. at'[r] = "loop" /\ at'[t] = s
      BY <2>1, <2>3
    <3> HIDE DEF Own
    <3> QED BY <3>1, <3>2, <3>3 DEF HandsInv
  <2>4. CASE r = t
    <3>1. at[t] = "none" /\ at' = [at EXCEPT ![t] = "loop"]
      BY <1>0, <1>2, <2>4
    <3>2. load'[t] = <<>>
      BY <3>1
    <3>3. at'[t] = "loop" /\ \A u \in Threads \ {t} : at'[u] = at[u] /\ load'[u] = load[u]
      BY <1>0, <3>1
    <3> HIDE DEF Own
    <3> QED
      BY <3>2, <3>3 DEF HandsInv
  <2> QED BY <2>3, <2>4
<1> QED BY <1>1, <1>2 DEF Moves

(***************************************************************************)
(* A step of thread t hands over what t held and what was in the queue:    *)
(* nothing of it comes to be in two places, what is written leaves both,   *)
(* and what leaves both is written or dropped, but for what t itself was   *)
(* asked to send.                                                          *)
(***************************************************************************)
Within(t) == In(queue) \cup In(load[t])
Written1(m) == \E c \in Conns : <<m, c>> \in written
Placed(m) == Written1(m) \/ m \in dropped \/ m \in In(queue) \/ \E t \in Threads : m \in In(load[t])

Handover(t) ==
    /\ \A u \in Threads \ {t} : load'[u] = load[u]
    /\ Single(queue') /\ Single(load'[t])
    /\ \A m \in Senders :
          /\ m \in In(queue') => m \in Within(t) /\ m \notin In(load'[t])
          /\ m \in In(load'[t]) => m \in Within(t)
          /\ m \in Within(t) => (m = t /\ at[t] # "sent") \/ m \in dropped' \/ Written1(m)' \/ m \in In(queue') \/ m \in In(load'[t])
    /\ \A m \in Senders : \A c \in Conns : <<m, c>> \in written' =>
          \/ <<m, c>> \in written
          \/ m \in In(load[t]) /\ m \notin In(load'[t]) /\ m \notin In(queue') /\ c = hold[t]
    /\ written \subseteq written' /\ dropped \subseteq dropped'

LEMMA HandoverKeeps ==
    ASSUME PlacesInv, OnceInv, NEW t \in Threads, Handover(t)
    PROVE  PlacesInv' /\ OnceInv'
<1>1. Single(queue') /\ \A u \in Threads : Single(load'[u])
  BY DEF Handover, PlacesInv
<1>2. ASSUME NEW m \in Senders, NEW u \in Threads, m \in In(load'[u]) PROVE m \notin In(queue')
  BY <1>2 DEF Handover, PlacesInv, Within
<1>3. ASSUME NEW m \in Senders, NEW u \in Threads, NEW v \in Threads,
             m \in In(load'[u]), m \in In(load'[v])
      PROVE  u = v
  BY <1>3 DEF Handover, PlacesInv, Within
<1>4. ASSUME NEW m \in Senders, NEW c \in Conns, <<m, c>> \in written'
      PROVE  /\ m \notin In(queue')
             /\ \A u \in Threads : m \notin In(load'[u])
             /\ \A d \in Conns : <<m, d>> \in written' => c = d
  <2>1. CASE <<m, c>> \in written
    <3>1. m \notin Within(t) /\ \A u \in Threads : m \notin In(load[u])
      BY <2>1 DEF OnceInv, Within
    <3>2. m \notin In(queue') /\ \A u \in Threads : m \notin In(load'[u])
      BY <3>1 DEF Handover
    <3>3. \A d \in Conns : <<m, d>> \in written' => <<m, d>> \in written
      BY <3>1 DEF Handover
    <3> QED BY <2>1, <3>2, <3>3 DEF OnceInv
  <2>2. CASE <<m, c>> \notin written
    <3>1. m \in In(load[t]) /\ m \notin In(load'[t]) /\ m \notin In(queue') /\ c = hold[t]
      BY <1>4, <2>2 DEF Handover
    <3>2. \A u \in Threads \ {t} : m \notin In(load'[u])
      BY <3>1 DEF Handover, PlacesInv
    <3>3. \A d \in Conns : <<m, d>> \notin written
      BY <3>1 DEF OnceInv
    <3> QED BY <3>1, <3>2, <3>3 DEF Handover
  <2> QED BY <2>1, <2>2
<1>5. PlacesInv'
  BY <1>1, <1>2, <1>3 DEF PlacesInv
<1>6. OnceInv'
  BY <1>4 DEF OnceInv
<1> QED BY <1>5, <1>6

LEMMA HandoverAccounts ==
    ASSUME ThreadInv, KeptInv, NEW t \in Threads, NEW s, Moves(t, s), Handover(t),
           t \in Senders /\ s = "sent" => at[t] = "sent" \/ Placed(t)'
    PROVE  KeptInv'
<1>1. \A u \in Threads \ {t} : u \in Senders => at'[u] = at[u]
  BY Kinds DEF ThreadInv, Moves
<1>2. t \in Senders => at'[t] = s
  BY Kinds DEF ThreadInv, Moves
<1>3. ASSUME NEW m \in Senders, at'[m] = "sent" PROVE Placed(m)'
  <2>1. CASE at[m] = "sent"
    <3>1. Placed(m)
      BY <2>1 DEF KeptInv, Placed, Written1
    <3>2. Written1(m) => Written1(m)'
      BY DEF Written1, Handover
    <3>3. m \in Within(t) => Placed(m)'
      BY <2>1 DEF Placed, Handover
    <3>4. ASSUME NEW u \in Threads \ {t}, m \in In(load[u]) PROVE Placed(m)'
      BY <3>4 DEF Handover, Placed
    <3>5. m \in dropped => Placed(m)'
      BY DEF Handover, Placed
    <3> QED BY <3>1, <3>2, <3>3, <3>4, <3>5 DEF Placed, Within
  <2>2. CASE at[m] # "sent"
    BY <1>1, <1>2, <1>3, <2>2, Kinds
  <2> QED BY <2>1, <2>2
<1> QED BY <1>3 DEF KeptInv, Placed, Written1

LEMMA AccountMove ==
    ASSUME ThreadInv, AccountedInv, NEW t \in Threads, NEW s, Moves(t, s), Handover(t),
           s \in SendSteps => load'[t] = <<Own(t)>>,
           s \notin Carrying => load'[t] = <<>>,
           s \in Carrying => at[t] # "none",
           t \in Senders /\ s = "sent" => at[t] = "sent" \/ Placed(t)'
    PROVE  AccountedInv'
<1>1. HandsInv'
  BY HandsMove DEF AccountedInv, Handover
<1>2. PlacesInv' /\ OnceInv'
  BY HandoverKeeps DEF AccountedInv
<1>3. KeptInv'
  BY HandoverAccounts DEF AccountedInv
<1> QED BY <1>1, <1>2, <1>3 DEF AccountedInv

(* A step that moves no message. *)
LEMMA AccountIdle ==
    ASSUME ThreadInv, AccountedInv, NEW t \in Threads, NEW s, Moves(t, s),
           UNCHANGED <<load, queue, written, dropped>>,
           s \in SendSteps => at[t] \in SendSteps,
           s \in Carrying <=> at[t] \in Carrying,
           t \in Senders => s # "sent"
    PROVE  AccountedInv'
<1>1. Handover(t)
  BY DEF Handover, AccountedInv, PlacesInv, Within
<1>2. /\ s \in SendSteps => load'[t] = <<Own(t)>>
      /\ s \notin Carrying => load'[t] = <<>>
      /\ s \in Carrying => at[t] # "none"
  BY DEF AccountedInv, HandsInv, Carrying, SendSteps
<1> QED BY <1>1, <1>2, AccountMove

(* A call of send() that fails: the message is its caller's own. *)
LEMMA AccountRefused ==
    ASSUME ThreadInv, AccountedInv, load \in [Threads -> Seq(Messages)], NEW t \in Threads,
           at[t] \in SendSteps, Moves(t, AfterSend(t, FALSE)),
           load' = [load EXCEPT ![t] = <<>>],
           UNCHANGED <<queue, written, dropped>>
    PROVE  AccountedInv'
<1>1. load[t] = <<Own(t)>> /\ In(load[t]) = {Own(t)}
  BY InOne DEF AccountedInv, HandsInv
<1>2. load'[t] = <<>> /\ In(load'[t]) = {} /\ Single(load'[t]) /\ \A u \in Threads \ {t} : load'[u] = load[u]
  BY InEmpty
<1>3. \A m \in Senders : m \in In(load[t]) => m = t
  BY <1>1, WsAssumption DEF Own
<1>4. at[t] # "sent"
  BY DEF SendSteps
<1>5. Handover(t)
  BY <1>1, <1>2, <1>3, <1>4 DEF Handover, AccountedInv, PlacesInv, Within
<1>6. AfterSend(t, FALSE) \notin Carrying /\ AfterSend(t, FALSE) \notin SendSteps
      /\ (t \in Senders => AfterSend(t, FALSE) # "sent")
  BY DEF AfterSend, AfterInit, Carrying, SendSteps
<1> QED BY <1>2, <1>5, <1>6, AccountMove

(* A write hands the first message on to the connection. *)
LEMMA WriteHands ==
    ASSUME TypeInv, AccountedInv, NEW t \in Threads, at[t] \in {"sending", "flushing"}, Write(t),
           UNCHANGED <<queue, dropped>>
    PROVE  Handover(t) /\ \A m \in Senders : m = Head(load[t]) => Written1(m)'
<1>1. hold[t] \in Conns
  BY DEF TypeInv, Holds, Holding, OtherTypes, Conns
<1>2. load[t] # <<>> /\ load[t] \in Seq(Messages) /\ load \in [Threads -> Seq(Messages)]
  BY DEF TypeInv, CriticalInv, Carrying, SendSteps
<1>3. /\ In(load[t]) = {Head(load[t])} \cup In(Tail(load[t]))
      /\ Single(Tail(load[t])) /\ (Head(load[t]) \in Senders => Head(load[t]) \notin In(Tail(load[t])))
  BY <1>2, InTail DEF AccountedInv, PlacesInv
<1>4. load'[t] = Tail(load[t]) /\ \A u \in Threads \ {t} : load'[u] = load[u]
  BY <1>2 DEF Write
<1>5. written' = written \cup {<<Head(load[t]), hold[t]>>}
  BY DEF Write
<1>6. \A m \in Senders : m \in In(load[t]) => m \notin In(queue)
  BY DEF AccountedInv, PlacesInv
<1>7. \A m \in Senders : m = Head(load[t]) => Written1(m)'
  BY <1>1, <1>5 DEF Written1
<1>8. \A m \in Senders : \A c \in Conns : <<m, c>> \in written' =>
          <<m, c>> \in written \/ (m = Head(load[t]) /\ c = hold[t])
  BY <1>5
<1>9. Single(queue)
  BY DEF AccountedInv, PlacesInv
<1>10. Handover(t)
  BY <1>3, <1>4, <1>5, <1>6, <1>7, <1>8, <1>9 DEF Handover, Within
<1> QED BY <1>7, <1>10

LEMMA AccountInitStep ==
    ASSUME TypeInv, AccountedInv, NEW t \in {App} \cup Reconnectors, InitStep(t)
    PROVE  AccountedInv'
<1>0. t \in Threads /\ t \notin Senders /\ ThreadInv /\ load \in [Threads -> Seq(Messages)]
      /\ queue \in Seq(Messages) /\ Own(t) = Peek /\ Peek \notin Senders
  BY Kinds, SeqMonotonic, WsAssumption DEF TypeInv, CriticalInv, Clean, Own
<1>1. ASSUME NEW s, at' = [at EXCEPT ![t] = s], Handover(t),
             s \in SendSteps => load'[t] = <<Peek>>, s \notin Carrying => load'[t] = <<>>,
             s \in Carrying => at[t] # "none"
      PROVE  AccountedInv'
  <2>1. Moves(t, s)
    BY <1>1 DEF Moves
  <2> QED BY <1>0, <1>1, <2>1, AccountMove
<1>2. ASSUME InitEnter(t) \/ InitGate(t) \/ InitSwap(t) \/ InitMark(t) \/ DialFails(t) \/ Backoff(t)
             \/ BackoffEnds(t) \/ InitGivesUp(t) \/ DialSucceeds(t) \/ ReplaceHandle(t) \/ PublishOpen(t)
             \/ InstallActor(t) \/ InitFinish(t)
      PROVE  AccountedInv'
  <2>1. UNCHANGED <<load, queue, written, dropped>> /\ at[t] \notin Carrying
    BY <1>2 DEF InitEnter, InitGate, InitSwap, InitMark, DialFails, Backoff, BackoffEnds,
       InitGivesUp, DialSucceeds, ReplaceHandle, PublishOpen, InstallActor, InitFinish, shared, history,
       Carrying, SendSteps
  <2>2. \E s : s \notin Carrying /\ at' = [at EXCEPT ![t] = s]
    <3> USE DEF Carrying, SendSteps, Goto, AfterInit
    <3>1. CASE InitEnter(t) \/ InitGate(t) \/ InitSwap(t) \/ InitMark(t) \/ DialFails(t) \/ Backoff(t)
      BY <3>1 DEF InitEnter, InitGate, InitSwap, InitMark, DialFails, Backoff
    <3>2. CASE BackoffEnds(t) \/ InitGivesUp(t) \/ DialSucceeds(t) \/ ReplaceHandle(t)
      BY <3>2 DEF BackoffEnds, InitGivesUp, DialSucceeds, ReplaceHandle
    <3>3. CASE PublishOpen(t) \/ InstallActor(t) \/ InitFinish(t)
      BY <3>3 DEF PublishOpen, InstallActor, InitFinish
    <3> QED BY <1>2, <3>1, <3>2, <3>3
  <2>3. PICK s : s \notin Carrying /\ at' = [at EXCEPT ![t] = s]
    BY <2>2
  <2>4. Moves(t, s) /\ s \notin SendSteps
    BY <2>3 DEF Moves, Carrying
  <2> QED BY <1>0, <2>1, <2>3, <2>4, AccountIdle
<1>3. CASE FlushTake(t)
  <2>1. load[t] = <<>> /\ at[t] # "none"
    BY <1>0, <1>3 DEF FlushTake, AccountedInv, HandsInv, Carrying, SendSteps
  <2>2. load'[t] = queue /\ queue' = <<>> /\ \A u \in Threads \ {t} : load'[u] = load[u]
    BY <1>0, <1>3 DEF FlushTake
  <2>3. In(queue') = {} /\ Single(queue') /\ In(load[t]) = {}
    BY <2>1, <2>2, InEmpty
  <2>4. written' = written /\ dropped' = dropped /\ Single(queue)
    BY <1>3 DEF FlushTake, history, AccountedInv, PlacesInv
  <2>5. Handover(t)
    BY <2>2, <2>3, <2>4 DEF Handover, Within
  <2>6. PICK s \in {"peek", "flushHandle"} : at' = [at EXCEPT ![t] = s] /\ (s = "peek" => queue = <<>>)
    BY <1>3 DEF FlushTake, Goto
  <2>7. s \notin SendSteps /\ (s \notin Carrying => s = "peek")
    BY DEF Carrying, SendSteps
  <2> QED BY <1>1, <2>1, <2>2, <2>5, <2>6, <2>7
<1>4. CASE (FlushHandle(t) /\ io = 0) \/ FlushFails(t)
  <2>1. /\ queue' = queue \o load[t] /\ load'[t] = <<>> /\ \A u \in Threads \ {t} : load'[u] = load[u]
        /\ written' = written /\ dropped' = dropped /\ at' = [at EXCEPT ![t] = "peek"]
    BY <1>0, <1>4 DEF FlushHandle, FlushFails, Requeued, Goto, history
  <2>2. load[t] \in Seq(Messages) /\ Single(queue) /\ Single(load[t])
        /\ (\A m \in Senders : m \in In(queue) => m \notin In(load[t]))
    BY <1>0 DEF AccountedInv, PlacesInv
  <2>3. In(queue') = In(queue) \cup In(load[t]) /\ Single(queue')
    BY <1>0, <2>1, <2>2, InConcat
  <2>4. In(load'[t]) = {} /\ Single(load'[t])
    BY <2>1, InEmpty
  <2>5. Handover(t)
    BY <2>1, <2>3, <2>4 DEF Handover, Within
  <2>6. "peek" \notin Carrying /\ "peek" \notin SendSteps
    BY DEF Carrying, SendSteps
  <2> QED BY <1>1, <2>1, <2>5, <2>6
<1>5. CASE FlushHandle(t) /\ io # 0
  <2>1. UNCHANGED <<load, queue, written, dropped>> /\ Moves(t, "flushing") /\ at[t] = "flushHandle"
    BY <1>5 DEF FlushHandle, Goto, Moves, history
  <2>2. "flushing" \notin SendSteps /\ "flushing" \in Carrying /\ "flushHandle" \in Carrying
    BY DEF Carrying, SendSteps
  <2> QED BY <1>0, <2>1, <2>2, AccountIdle
<1>6. CASE FlushWrite(t)
  <2>1. Handover(t)
    BY <1>0, <1>6, WriteHands DEF FlushWrite, shared
  <2>2. load[t] # <<>> /\ load[t] \in Seq(Messages) /\ load'[t] = Tail(load[t])
    BY <1>0, <1>6 DEF FlushWrite, Write, TypeInv, CriticalInv, Carrying
  <2>3. Len(load[t]) = 1 => load'[t] = <<>>
    <3>1. Len(Tail(load[t])) = Len(load[t]) - 1 /\ Tail(load[t]) \in Seq(Messages)
      BY <2>2, HeadTailProperties
    <3>2. Tail(load[t]) # <<>> => Len(Tail(load[t])) # 0
      BY <3>1, EmptySeq
    <3>3. Len(load[t]) = 1 => Len(Tail(load[t])) = 0
      BY <3>1
    <3> QED BY <2>2, <3>2, <3>3
  <2>4. PICK s \in {"peek", "flushing"} : at' = [at EXCEPT ![t] = s] /\ (s = "peek" => Len(load[t]) = 1)
    BY <1>6 DEF FlushWrite, Goto
  <2>5. s \notin SendSteps /\ (s \notin Carrying => s = "peek") /\ at[t] # "none"
    BY <1>6 DEF Carrying, SendSteps, FlushWrite
  <2> QED BY <1>1, <2>1, <2>3, <2>4, <2>5
<1>7. CASE SendPeek(t)
  <2>0. load[t] = <<>> /\ at[t] # "none"
    BY <1>0, <1>7 DEF SendPeek, AccountedInv, HandsInv, Carrying, SendSteps
  <2>1. CASE pendingPeek
    <3>1. UNCHANGED <<load, queue, written, dropped>> /\ Moves(t, "finish") /\ at[t] = "peek"
      BY <1>7, <2>1 DEF SendPeek, Goto, Moves, history
    <3>2. "finish" \notin Carrying /\ "peek" \notin Carrying /\ "finish" \notin SendSteps
      BY DEF Carrying, SendSteps
    <3> QED BY <1>0, <3>1, <3>2, AccountIdle
  <2>2. CASE ~pendingPeek
    <3>1. /\ load'[t] = <<Peek>> /\ \A u \in Threads \ {t} : load'[u] = load[u]
          /\ UNCHANGED <<queue, written, dropped>> /\ at' = [at EXCEPT ![t] = "ready"]
      BY <1>0, <1>7, <2>2 DEF SendPeek, Goto, history
    <3>2. In(load'[t]) = {Peek} /\ Single(load'[t]) /\ In(load[t]) = {}
      BY <2>0, <3>1, InOne, InEmpty
    <3>3. Single(queue)
      BY DEF AccountedInv, PlacesInv
    <3>4. Handover(t)
      BY <1>0, <3>1, <3>2, <3>3 DEF Handover, Within
    <3>5. "ready" \in Carrying
      BY DEF Carrying, SendSteps
    <3> QED BY <1>1, <2>0, <3>1, <3>4, <3>5
  <2> QED BY <2>1, <2>2
<1> QED BY <1>2, <1>3, <1>4, <1>5, <1>6, <1>7 DEF InitStep

LEMMA AccountSendStep ==
    ASSUME TypeInv, AccountedInv, NEW t \in Threads \ {Overflow}, SendStep(t)
    PROVE  AccountedInv'
<1>0. t \in Threads /\ ThreadInv /\ load \in [Threads -> Seq(Messages)] /\ queue \in Seq(Messages)
  BY SeqMonotonic DEF TypeInv, CriticalInv, Clean
<1>1. at[t] \in SendSteps
  BY DEF SendStep, SendReady, SendHandle, Enqueue, SendWrite, SendFails, SendBroken,
     SendLost, SendReport, SendSteps
<1>2. load[t] = <<Own(t)>> /\ In(load[t]) = {Own(t)} /\ load[t] \in Seq(Messages)
  BY <1>0, <1>1, InOne DEF AccountedInv, HandsInv
<1>3. at[t] \in Carrying /\ SendSteps \subseteq Carrying /\ "sent" \notin SendSteps
  BY <1>1 DEF Carrying, SendSteps
<1>4. ASSUME SendErr(t), UNCHANGED <<queue, written, dropped>> PROVE AccountedInv'
  <2>1. Moves(t, AfterSend(t, FALSE)) /\ load' = [load EXCEPT ![t] = <<>>]
    BY <1>4 DEF SendErr, Goto, Moves
  <2> QED BY <1>0, <1>1, <1>4, <2>1, AccountRefused
<1>5. ASSUME NEW s \in SendSteps, Goto(t, s), UNCHANGED <<load, queue, written, dropped>> PROVE AccountedInv'
  <2>1. Moves(t, s) /\ s # "sent" /\ s \in Carrying
    BY <1>3, <1>5 DEF Goto, Moves
  <2> QED BY <1>0, <1>1, <1>3, <1>5, <2>1, AccountIdle
<1>6. {"handle", "sending", "enqueue", "broken", "lost", "report"} \subseteq SendSteps
  BY DEF SendSteps
<1>7. CASE SendReady(t) \/ SendHandle(t)
  <2>1. UNCHANGED <<queue, written, dropped>>
    BY <1>7 DEF SendReady, SendHandle
  <2>2. \/ \E s \in SendSteps : Goto(t, s) /\ UNCHANGED load
        \/ SendErr(t)
    BY <1>6, <1>7 DEF SendReady, SendHandle, QueueOrRefuse
  <2> QED BY <1>4, <1>5, <2>1, <2>2
<1>8. CASE SendFails(t) \/ SendBroken(t) \/ SendLost(t)
  <2>1. UNCHANGED <<queue, written, dropped>>
    BY <1>8 DEF SendFails, SendBroken, SendLost, shared, history
  <2>2. \/ \E s \in SendSteps : Goto(t, s) /\ UNCHANGED load
        \/ SendErr(t)
    BY <1>6, <1>8 DEF SendFails, SendBroken, SendLost
  <2> QED BY <1>4, <1>5, <2>1, <2>2
<1>9. CASE SendReport(t)
  <2>1. /\ UNCHANGED <<queue, written, dropped>> /\ load' = [load EXCEPT ![t] = <<>>]
        /\ Moves(t, AfterSend(t, FALSE))
    BY <1>9 DEF SendReport, OnClose, Moves
  <2> QED BY <1>0, <1>1, <2>1, AccountRefused
<1>10. Enqueue(t) \/ SendWrite(t) =>
          /\ AfterSend(t, TRUE) \notin SendSteps /\ AfterSend(t, TRUE) \notin Carrying
          /\ Moves(t, AfterSend(t, TRUE))
          /\ (t \in Senders => Own(t) = t) /\ Own(t) \in Messages
  BY DEF AfterSend, Carrying, SendSteps, Enqueue, SendWrite, Goto, Moves, Own, Messages
<1>11. CASE SendWrite(t)
  <2>1. at[t] = "sending" /\ Write(t) /\ UNCHANGED <<queue, dropped>>
    BY <1>11 DEF SendWrite, shared
  <2>2. Handover(t) /\ \A m \in Senders : m = Head(load[t]) => Written1(m)'
    BY <1>0, <2>1, WriteHands
  <2>3. Head(load[t]) = Own(t) /\ Tail(load[t]) = <<>>
    BY <1>2
  <2>4. load'[t] = <<>>
    BY <1>0, <2>1, <2>3 DEF Write
  <2>5. t \in Senders => Placed(t)'
    BY <1>10, <1>11, <2>2, <2>3 DEF Placed
  <2> QED BY <1>0, <1>10, <1>11, <2>2, <2>4, <2>5, AccountMove
<1>12. CASE Enqueue(t)
  <2> DEFINE full == Len(queue) >= QueueMax
             rest == IF full THEN Tail(queue) ELSE queue
  <2>1. /\ queue' = rest \o load[t]
        /\ dropped' = IF full THEN dropped \cup {Head(queue)} ELSE dropped
        /\ load'[t] = <<>> /\ \A u \in Threads \ {t} : load'[u] = load[u]
        /\ written' = written
    BY <1>0, <1>12 DEF Enqueue
  <2>2. Single(queue) /\ Single(load[t]) /\ \A m \in Senders : m \in In(load[t]) => m \notin In(queue)
    BY <1>0 DEF AccountedInv, PlacesInv
  <2>3. full => queue # <<>>
    BY <1>0, WsAssumption
  <2>4. /\ rest \in Seq(Messages) /\ Single(rest) /\ In(rest) \subseteq In(queue)
        /\ In(queue) \subseteq In(rest) \cup dropped'
    <3>1. CASE full
      BY <1>0, <2>1, <2>2, <2>3, <3>1, InTail
    <3>2. CASE ~full
      BY <1>0, <2>1, <2>2, <3>2
    <3> QED BY <3>1, <3>2
  <2>5. dropped \subseteq dropped'
    BY <2>1
  <2> HIDE DEF rest, full
  <2>6. In(queue') = In(rest) \cup In(load[t]) /\ Single(queue')
    BY <1>2, <2>1, <2>2, <2>4, InConcat
  <2>7. In(load'[t]) = {} /\ Single(load'[t])
    BY <2>1, InEmpty
  <2>8. Handover(t)
    BY <2>1, <2>4, <2>5, <2>6, <2>7 DEF Handover, Within
  <2>9. t \in Senders => Placed(t)'
    BY <1>2, <1>10, <1>12, <2>6 DEF Placed
  <2> QED BY <1>0, <1>10, <1>12, <2>1, <2>8, <2>9, AccountMove
<1> QED BY <1>7, <1>8, <1>9, <1>11, <1>12 DEF SendStep

(* Nobody else moves a message; what others do leaves their hands empty. *)
LEMMA AccountOtherStep ==
    ASSUME TypeInv, AccountedInv,
           \/ AppInit \/ CloseStep
           \/ \E r \in Reconnectors : ReconnectStep(r)
           \/ OverflowBegins \/ OverflowMark \/ OverflowCut
           \/ \E c \in Conns : ActorStep(c)
           \/ UNCHANGED vars
    PROVE  AccountedInv'
<1> DEFINE Bare == {"idle", "close", "closing", "release", "take", "closed", "notify", "enter",
                    "none", "loop", "wait", "recheck", "settle", "overflow", "cut", "cutShort"}
<1>0. ThreadInv
  BY DEF TypeInv
<1>1. UNCHANGED <<load, queue, written, dropped>>
  BY DEF AppInit, CloseStep, AppClose, CloseDisable, CloseMark, CloseRelease, CloseTake, CloseClosed,
     CloseNotify, ReconnectStep, ReconnectLoop, ReconnectWaited, ReconnectRecheck, ReconnectSettle,
     OverflowBegins, OverflowMark, OverflowCut, ActorStep, ActorFrame, ActorFails, ActorMarksClosed,
     ActorStops, ActorExits, ActorReports, OnClose, shared, threads, history, vars
<1>2. \/ \E t \in Threads \ Senders : at[t] \in Bare /\ \E s \in Bare : Moves(t, s)
      \/ at' = at
  <2>1. CASE AppInit \/ CloseStep
    <3>1. PICK s \in AppSteps \cup {"enter"} : Moves(App, s)
      BY <1>0, <2>1, CloseStepMoves
    <3>2. s \in Bare
      BY <3>1 DEF AppSteps
    <3>3. at[App] \in Bare
      BY <2>1 DEF AppInit, CloseStep, AppClose, CloseDisable, CloseMark, CloseRelease, CloseTake,
         CloseClosed, CloseNotify
    <3> QED BY <3>1, <3>2, <3>3, Kinds
  <2>2. ASSUME NEW r \in Reconnectors, ReconnectStep(r)
        PROVE  \E t \in Threads \ Senders : at[t] \in Bare /\ \E s \in Bare : Moves(t, s)
    <3>1. \E s \in Bare : Moves(r, s)
      BY <1>0, <2>2, ReconnectStepMoves DEF Moves
    <3>2. at[r] \in Bare
      BY <2>2 DEF ReconnectStep, ReconnectLoop, ReconnectWaited, ReconnectRecheck, ReconnectSettle
    <3> QED BY <3>1, <3>2, Kinds
  <2>3. CASE OverflowBegins \/ OverflowMark \/ OverflowCut
    <3>1. \E s \in Bare : Moves(Overflow, s)
      BY <1>0, <2>3, OverflowStepMoves DEF OverflowSteps
    <3>2. at[Overflow] \in Bare
      BY <2>3 DEF OverflowBegins, OverflowMark, OverflowCut
    <3> QED BY <3>1, <3>2, Kinds
  <2>4. CASE \E c \in Conns : ActorStep(c)
    <3>1. CASE at' = at
      BY <3>1
    <3>2. ASSUME NEW r \in Reconnectors, at[r] = "none", at' = [at EXCEPT ![r] = "loop"]
          PROVE  \E t \in Threads \ Senders : at[t] \in Bare /\ \E s \in Bare : Moves(t, s)
      <4>1. Moves(r, "loop") /\ "loop" \in Bare /\ at[r] \in Bare /\ r \in Threads \ Senders
        BY <3>2, Kinds DEF Moves
      <4> QED BY <4>1
    <3> QED BY <1>0, <2>4, <3>1, <3>2, ActorStepMoves
  <2>5. CASE UNCHANGED vars
    BY <2>5 DEF vars, threads
  <2> QED BY <2>1, <2>2, <2>3, <2>4, <2>5
<1>3. Bare \cap Carrying = {} /\ SendSteps \subseteq Carrying /\ "sent" \notin Bare
  BY DEF Carrying, SendSteps
<1> HIDE DEF Bare
<1>4. ASSUME NEW t \in Threads \ Senders, at[t] \in Bare, NEW s \in Bare, Moves(t, s) PROVE AccountedInv'
  <2>1. s \notin Carrying /\ at[t] \notin Carrying /\ s \notin SendSteps
    BY <1>3, <1>4
  <2> QED BY <1>0, <1>1, <1>4, <2>1, AccountIdle
<1>5. CASE at' = at
  <2>1. at' = at /\ load' = load /\ queue' = queue /\ written' = written /\ dropped' = dropped
    BY <1>1, <1>5
  <2>2. HandsInv' /\ PlacesInv'
    BY <2>1 DEF AccountedInv, HandsInv, PlacesInv
  <2>3. OnceInv' /\ KeptInv'
    BY <2>1 DEF AccountedInv, OnceInv, KeptInv
  <2> QED BY <2>2, <2>3 DEF AccountedInv
<1> QED BY <1>2, <1>4, <1>5

LEMMA AccountInit == Init => AccountedInv
<1> SUFFICES ASSUME Init PROVE AccountedInv
  OBVIOUS
<1>1. \A t \in Threads : load[t] = IF t \in Senders THEN <<t>> ELSE <<>>
  BY DEF Init
<1>2. \A t \in Threads : In(load[t]) = IF t \in Senders THEN {t} ELSE {}
  BY <1>1, InOne, InEmpty
<1>3. Single(queue) /\ In(queue) = {} /\ \A t \in Threads : Single(load[t])
  BY <1>1, InOne, InEmpty DEF Init
<1>4. \A t \in Threads : at[t] = IF t = App THEN "idle" ELSE IF t \in Senders THEN "ready" ELSE "none"
  BY Kinds DEF Init
<1>5. written = {}
  BY DEF Init
<1>6. HandsInv
  BY <1>1, <1>4, Kinds DEF HandsInv, Own, SendSteps, Carrying
<1>7. PlacesInv
  BY <1>2, <1>3 DEF PlacesInv
<1>8. OnceInv /\ KeptInv
  BY <1>4, <1>5, Kinds DEF OnceInv, KeptInv
<1> QED BY <1>6, <1>7, <1>8 DEF AccountedInv

(* A message that send() has accepted is not lost on the way and not written    *)
(* twice, however connections come and go while queues are emptied and put back *)
(* (send and flush_pending_queue, websocket/core.rs).                           *)
THEOREM AcceptedStaysAccounted == Spec => []AcceptedIsAccounted
<1>1. Init => TypeInv /\ AccountedInv
  BY ThreadInit, CriticalInit, CountInit, TypeInit, AccountInit DEF TypeInv
<1>2. TypeInv /\ AccountedInv /\ [Next]_vars => TypeInv' /\ AccountedInv'
  BY TypeStep, AccountInitStep, AccountSendStep, AccountOtherStep DEF Next
<1>3. TypeInv /\ AccountedInv => AcceptedIsAccounted
  <2> SUFFICES ASSUME AccountedInv, NEW m \in Senders
               PROVE  /\ at[m] = "sent" =>
                           \/ \E c \in Conns : <<m, c>> \in written
                           \/ m \in dropped
                           \/ \E i \in 1 .. Len(queue) : queue[i] = m
                           \/ \E t \in Threads : \E i \in 1 .. Len(load[t]) : load[t][i] = m
                      /\ Cardinality({c \in Conns : <<m, c>> \in written}) <= 1
    BY DEF AcceptedIsAccounted
  <2>1. at[m] = "sent" =>
           \/ \E c \in Conns : <<m, c>> \in written
           \/ m \in dropped
           \/ \E i \in 1 .. Len(queue) : queue[i] = m
           \/ \E t \in Threads : \E i \in 1 .. Len(load[t]) : load[t][i] = m
    BY DEF AccountedInv, KeptInv, In
  <2> DEFINE on == {c \in Conns : <<m, c>> \in written}
  <2>2. on = {} \/ \E c \in on : on = {c}
    BY DEF AccountedInv, OnceInv
  <2>3. Cardinality(on) \in {0, 1}
    BY <2>2, FS_EmptySet, FS_Singleton
  <2> HIDE DEF on
  <2>4. Cardinality(on) <= 1
    BY <2>3
  <2> QED BY <2>1, <2>4 DEF on
<1> QED BY <1>1, <1>2, <1>3, PTL DEF Spec

(***************************************************************************)
(* Losses.                                                                 *)
(*                                                                         *)
(* As long as no close() has cut into a reconnect there is one attempt to  *)
(* connect at most, `connecting` says so, and what it holds is the         *)
(* connection numbered last.  That gives an Open status a live actor, or   *)
(* the attempt that is about to install one, and finds for every loss      *)
(* somebody who has still to attend to it.  A thread on its way into       *)
(* init() counts for that only while no attempt is past installing its     *)
(* actor: otherwise it would find `connecting` set and turn back, and when *)
(* the actor is lost then nobody else might come.                          *)
(***************************************************************************)
Early == {"mark", "dial", "backoff", "nap", "giveUp", "replace", "publish", "install"}
Late(t) == Dialling(t) /\ at[t] \notin Early
Entering == {"recheck", "enter", "gate", "swap"}
Trying == {"dial", "backoff", "nap", "giveUp", "replace", "publish"}
Unopened == {"dial", "replace", "publish"}
Fresh == {"replace", "publish", "install"}
Alive == {"running", "failing", "stopping", "leaving"}

Apart ==
    /\ \A t, u \in Threads : Dialling(t) /\ Dialling(u) => t = u
    /\ \A t \in Threads : Dialling(t) => connecting

Numbered ==
    /\ \A t \in Threads : at[t] \in Unopened => status # "Open"
    /\ \A t \in Threads : at[t] \in Fresh => hold[t] = connId
    /\ \A t \in Threads : Late(t) =>
          io \in {0, connId} /\ (at[t] \in {"flushing", "sending"} => hold[t] = connId)

LiveOrComing ==
    status = "Open" =>
        \/ connId \in Conns /\ actor[connId] \in Alive
        \/ \E t \in Threads : at[t] = "install"

Honest ==
    /\ ~failed /\ connecting => \E t \in Threads : Dialling(t)
    /\ ~failed /\ status = "Connecting" => \E t \in Threads : at[t] \in Trying

Wanted ==
    /\ \A r \in Reconnectors : InInit(r) => shouldReconnect
    /\ at[App] \in {"closing", "release"} => ~shouldReconnect

Attended ==
    \/ actor[connId] \in Alive \cup {"left"}
    \/ \E t \in Threads : at[t] \in Early
    \/ \E t \in Threads : at[t] \in {"loop", "wait"}
    \/ (\E t \in Threads : at[t] \in Entering) /\ \A t \in Threads : ~Late(t)
AttendInv == ~failed /\ shouldReconnect /\ connId # 0 => Attended

Attempt == Apart /\ Numbered /\ LiveOrComing /\ Honest
LossInv == cuts = 0 => Attempt /\ Wanted /\ AttendInv

(* Thread t moves, and at most a reconnect task is woken besides. *)
Only(t) == \A u \in Threads \ {t} : at'[u] = at[u] \/ (at[u] = "none" /\ at'[u] = "loop")

LEMMA OnlyMeans ==
    ASSUME NEW t \in Threads, Only(t), NEW u \in Threads \ {t}
    PROVE  /\ InInit(u)' <=> InInit(u)
           /\ Dialling(u)' <=> Dialling(u)
           /\ Late(u)' <=> Late(u)
           /\ at'[u] \in Early <=> at[u] \in Early
           /\ at'[u] \in Entering <=> at[u] \in Entering
           /\ at'[u] \in Trying <=> at[u] \in Trying
           /\ at'[u] \in Fresh <=> at[u] \in Fresh
           /\ at'[u] \in Unopened <=> at[u] \in Unopened
           /\ at'[u] = "install" <=> at[u] = "install"
           /\ at'[u] \in {"flushing", "sending"} <=> at[u] \in {"flushing", "sending"}
           /\ at[u] \in {"loop", "wait"} => at'[u] \in {"loop", "wait"}
<1>1. at'[u] = at[u] \/ (at[u] = "none" /\ at'[u] = "loop")
  BY DEF Only
<1>2. CASE at'[u] = at[u]
  BY <1>2 DEF InInit, Dialling, Late
<1>3. CASE at[u] = "none" /\ at'[u] = "loop"
  BY <1>3 DEF InInit, Dialling, Late, InitSteps, SendSteps, Early, Entering, Trying, Fresh, Unopened
<1> QED BY <1>1, <1>2, <1>3

LEMMA OneMoves ==
    ASSUME ThreadInv, NEW t \in Threads, NEW s, at' = [at EXCEPT ![t] = s]
    PROVE  Only(t) /\ at'[t] = s
BY DEF ThreadInv, Only

LEMMA MovesOnly ==
    ASSUME ThreadInv, NEW t \in Threads, NEW s, Moves(t, s)
    PROVE  Only(t) /\ (at'[t] = s \/ (at[t] = "none" /\ at'[t] = "loop"))
BY Kinds DEF ThreadInv, Only, Moves

(* What a step may do without disturbing the attempt there is. *)
Tame(t) ==
    /\ Only(t)
    /\ connId' = connId /\ io' \in {io, 0} /\ (failed => failed')
    /\ status' = status \/ status' \in {"Closed", "Closing"}
    /\ \A u \in Threads \ {t} : hold'[u] = hold[u]
    /\ connId \in Conns /\ actor[connId] \in Alive => actor'[connId] \in Alive \/ status' # "Open"
    /\ connecting' = connecting \/ (~connecting' /\ \A u \in Threads : ~Dialling(u)')
    /\ Dialling(t)' => Dialling(t)
    /\ Dialling(t) => Dialling(t)' \/ ~connecting' \/ failed'
    /\ at'[t] \in Unopened => at[t] \in Unopened
    /\ at'[t] \in Fresh => at[t] \in Fresh /\ hold'[t] = hold[t]
    /\ Late(t)' => Late(t)
    /\ at'[t] \in {"flushing", "sending"} =>
          \/ at[t] \in {"flushing", "sending"} /\ hold'[t] = hold[t]
          \/ hold'[t] = io /\ io # 0
    /\ at[t] \in Trying => at'[t] \in Trying \/ failed'
    /\ at[t] = "install" => at'[t] = "install"

LEMMA TameKeeps ==
    ASSUME Attempt, NEW t \in Threads, Tame(t)
    PROVE  Attempt'
<1> USE DEF Tame
<1>1. Apart'
  BY OnlyMeans DEF Attempt, Apart
<1>2. ASSUME NEW u \in Threads, at'[u] \in Unopened PROVE status' # "Open"
  BY <1>2, OnlyMeans DEF Attempt, Numbered
<1>3. ASSUME NEW u \in Threads, at'[u] \in Fresh PROVE hold'[u] = connId'
  BY <1>3, OnlyMeans DEF Attempt, Numbered
<1>4. ASSUME NEW u \in Threads, Late(u)'
      PROVE  io' \in {0, connId'} /\ (at'[u] \in {"flushing", "sending"} => hold'[u] = connId')
  <2>1. Late(u)
    BY <1>4, OnlyMeans
  <2>2. io \in {0, connId} /\ (at[u] \in {"flushing", "sending"} => hold[u] = connId)
    BY <2>1 DEF Attempt, Numbered
  <2>3. CASE u = t
    BY <1>4, <2>2, <2>3
  <2>4. CASE u # t
    BY <2>2, <2>4, OnlyMeans
  <2> QED BY <2>3, <2>4
<1>5. Numbered'
  BY <1>2, <1>3, <1>4 DEF Numbered
<1>6. LiveOrComing'
  <2> SUFFICES ASSUME status' = "Open"
               PROVE  \/ connId \in Conns /\ actor'[connId] \in Alive
                      \/ \E u \in Threads : at'[u] = "install"
    BY DEF LiveOrComing
  <2>1. \/ connId \in Conns /\ actor[connId] \in Alive
        \/ \E u \in Threads : at[u] = "install"
    BY DEF Attempt, LiveOrComing
  <2>2. ASSUME NEW u \in Threads, at[u] = "install" PROVE at'[u] = "install"
    BY <2>2, OnlyMeans
  <2> QED BY <2>1, <2>2
<1>7. Honest'
  <2>1. ASSUME ~failed', connecting' PROVE \E u \in Threads : Dialling(u)'
    <3>1. PICK u \in Threads : Dialling(u)
      BY <2>1 DEF Attempt, Honest
    <3>2. Dialling(u)'
      BY <2>1, <3>1, OnlyMeans
    <3> QED BY <3>2
  <2>2. ASSUME ~failed', status' = "Connecting" PROVE \E u \in Threads : at'[u] \in Trying
    <3>1. PICK u \in Threads : at[u] \in Trying
      BY <2>2 DEF Attempt, Honest
    <3>2. at'[u] \in Trying
      BY <2>2, <3>1, OnlyMeans
    <3> QED BY <3>2
  <2> QED BY <2>1, <2>2 DEF Honest
<1> QED BY <1>1, <1>5, <1>6, <1>7 DEF Attempt

LEMMA AttemptInitStep ==
    ASSUME TypeInv, Attempt, NEW t \in {App} \cup Reconnectors, InitStep(t)
    PROVE  Attempt'
<1>0. t \in Threads /\ t \notin Senders /\ ThreadInv /\ at \in [Threads -> Steps]
      /\ hold \in [Threads -> 0 .. MaxDials] /\ actor \in [Conns -> ActorStates]
      /\ connId \in Nat /\ io \in 0 .. MaxDials /\ connecting \in BOOLEAN
  BY Kinds DEF TypeInv, ThreadInv, OtherTypes, SharedTypes, CountInv
<1>1. \A s : at' = [at EXCEPT ![t] = s] => Only(t) /\ at'[t] = s
  BY <1>0, OneMoves
<1> USE DEF InInit, Dialling, Late, InitSteps, SendSteps, Early, Trying, Unopened, Fresh, Goto, AfterInit
<1>2. CASE InitEnter(t) \/ InitGate(t)
  <2>1. Tame(t)
    BY <1>0, <1>1, <1>2 DEF Tame, InitEnter, InitGate, shared, actors, bounds, history
  <2> QED BY <1>0, <2>1, TameKeeps
<1>2a. CASE InitSwap(t) /\ connecting
  <2>0. connecting' = connecting
    BY <1>0, <1>2a DEF InitSwap
  <2>1. Tame(t)
    BY <1>0, <1>1, <1>2a, <2>0 DEF Tame, InitSwap, shared, actors, bounds, history
  <2> QED BY <1>0, <2>1, TameKeeps
<1>3. CASE DialFails(t) \/ Backoff(t) \/ BackoffEnds(t) \/ ReplaceHandle(t)
  <2>1. Tame(t)
    BY <1>0, <1>1, <1>3 DEF Tame, DialFails, Backoff, BackoffEnds, ReplaceHandle, shared, actors, bounds, history
  <2> QED BY <1>0, <2>1, TameKeeps
<1>4. CASE InitGivesUp(t) \/ InitFinish(t)
  <2>1. Dialling(t) /\ ~Dialling(t)'
    BY <1>0, <1>1, <1>4 DEF InitGivesUp, InitFinish
  <2>2. \A u \in Threads : ~Dialling(u)'
    <3> HIDE DEF Dialling
    <3> QED BY <1>0, <1>1, <1>4, <2>1, OnlyMeans DEF InitGivesUp, InitFinish, Attempt, Apart
  <2>3. Tame(t)
    BY <1>0, <1>1, <1>4, <2>2 DEF Tame, InitGivesUp, InitFinish, actors, bounds, history
  <2> QED BY <1>0, <2>3, TameKeeps
<1>5. CASE FlushTake(t) \/ FlushHandle(t) \/ SendPeek(t)
  <2>1. Tame(t)
    BY <1>0, <1>1, <1>5 DEF Tame, FlushTake, FlushHandle, SendPeek, shared, actors, bounds, history
  <2> QED BY <1>0, <2>1, TameKeeps
<1>6. CASE FlushWrite(t) \/ FlushFails(t)
  <2>1. Tame(t)
    BY <1>0, <1>1, <1>6 DEF Tame, FlushWrite, FlushFails, WriteFails, Write, shared, actors, bounds, history, Alive
  <2> QED BY <1>0, <2>1, TameKeeps
<1> HIDE DEF Dialling, Late
<1>7. CASE InitSwap(t) /\ ~connecting
  <2>1. Only(t) /\ at'[t] = "mark" /\ at[t] = "swap" /\ connecting' = TRUE
        /\ UNCHANGED <<status, connId, io, hold, actor, failed>>
    BY <1>0, <1>1, <1>7 DEF InitSwap, actors, history
  <2>2. \A u \in Threads : ~Dialling(u)
    BY <1>7 DEF Attempt, Apart
  <2>3. \A u \in Threads \ {t} : ~Dialling(u)'
    BY <1>0, <2>1, <2>2, OnlyMeans
  <2>4. Apart' /\ Dialling(t)'
    BY <1>0, <2>1, <2>3 DEF Apart, Dialling
  <2>5. Numbered'
    BY <1>0, <2>1, <2>3, OnlyMeans DEF Attempt, Numbered, Late, Unopened, Fresh
  <2>6. LiveOrComing'
    BY <1>0, <2>1, OnlyMeans DEF Attempt, LiveOrComing
  <2>7. Honest'
    BY <1>0, <2>1, <2>4, OnlyMeans DEF Attempt, Honest, Trying
  <2> QED BY <2>4, <2>5, <2>6, <2>7 DEF Attempt
(* An attempt goes on: nobody else is inside. *)
<1>8. ASSUME Dialling(t), Dialling(t)', Only(t), connecting' = connecting, failed' = failed
      PROVE  /\ \A u \in Threads \ {t} : ~Dialling(u)' /\ at'[u] \notin Fresh \cup Unopened /\ at'[u] # "install"
             /\ Apart'
             /\ ~failed' /\ connecting' => \E u \in Threads : Dialling(u)'
  <2>1. \A u \in Threads \ {t} : ~Dialling(u)'
    BY <1>0, <1>8, OnlyMeans DEF Attempt, Apart
  <2>2. \A u \in Threads \ {t} : at'[u] \notin Fresh \cup Unopened /\ at'[u] # "install"
    BY <2>1 DEF Dialling
  <2>3. Apart'
    BY <1>0, <1>8, <2>1 DEF Attempt, Apart
  <2> QED BY <1>0, <1>8, <2>1, <2>2, <2>3
<1>9. CASE InitMark(t)
  <2>1. Only(t) /\ at'[t] = "dial" /\ at[t] = "mark" /\ status' = "Connecting"
        /\ UNCHANGED <<connecting, failed>>
    BY <1>0, <1>1, <1>9 DEF InitMark, actors, history
  <2>2. Dialling(t) /\ Dialling(t)'
    BY <1>0, <2>1 DEF Dialling
  <2>3. Numbered'
    BY <1>0, <1>8, <2>1, <2>2 DEF Numbered, Late, Unopened, Fresh
  <2>4. LiveOrComing' /\ Honest'
    BY <1>0, <1>8, <2>1, <2>2 DEF LiveOrComing, Honest, Trying
  <2> QED BY <1>8, <2>1, <2>2, <2>3, <2>4 DEF Attempt
<1>10. CASE DialSucceeds(t)
  <2>1. Only(t) /\ at'[t] = "replace" /\ at[t] = "dial" /\ connId' = NextId /\ hold'[t] = NextId
        /\ UNCHANGED <<status, connecting, failed>>
    BY <1>0, <1>1, <1>10 DEF DialSucceeds, actors, history
  <2>2. Dialling(t) /\ Dialling(t)' /\ status # "Open"
    BY <1>0, <2>1 DEF Dialling, Attempt, Numbered, Unopened
  <2>3. Numbered'
    BY <1>0, <1>8, <2>1, <2>2 DEF Numbered, Late, Unopened, Fresh
  <2>4. LiveOrComing' /\ Honest'
    BY <1>0, <1>8, <2>1, <2>2 DEF LiveOrComing, Honest, Trying
  <2> QED BY <1>8, <2>1, <2>2, <2>3, <2>4 DEF Attempt
<1>11. CASE PublishOpen(t)
  <2>1. Only(t) /\ at'[t] = "install" /\ at[t] = "publish" /\ status' = "Open"
        /\ UNCHANGED <<connecting, connId, hold, failed>>
    BY <1>0, <1>1, <1>11 DEF PublishOpen, actors, history
  <2>2. Dialling(t) /\ Dialling(t)' /\ hold[t] = connId
    BY <1>0, <2>1 DEF Dialling, Attempt, Numbered, Fresh
  <2>3. Numbered'
    BY <1>0, <1>8, <2>1, <2>2 DEF Numbered, Late, Unopened, Fresh
  <2>4. LiveOrComing' /\ Honest'
    BY <1>0, <1>8, <2>1, <2>2 DEF LiveOrComing, Honest
  <2> QED BY <1>8, <2>1, <2>2, <2>3, <2>4 DEF Attempt
<1>12. CASE InstallActor(t)
  <2>1. Only(t) /\ at'[t] = "flush" /\ at[t] = "install" /\ io' = hold[t]
        /\ actor' = [actor EXCEPT ![hold[t]] = "running"]
        /\ UNCHANGED <<status, connecting, connId, hold, failed>>
    BY <1>0, <1>1, <1>12 DEF InstallActor, history
  <2>2. Dialling(t) /\ Dialling(t)' /\ hold[t] = connId
    BY <1>0, <2>1 DEF Dialling, Attempt, Numbered, Fresh
  <2>3. connId \in Conns /\ actor'[connId] = "running"
    <3>1. hold[t] # 0
      BY <1>0, <2>1 DEF TypeInv, Holds, Holding
    <3>2. hold[t] \in Conns
      BY <1>0, <3>1 DEF Conns
    <3> QED BY <1>0, <2>1, <2>2, <3>2
  <2>4. Numbered'
    BY <1>0, <1>8, <2>1, <2>2 DEF Numbered, Late, Unopened, Fresh
  <2>5. LiveOrComing' /\ Honest'
    <3>1. ~failed /\ status = "Connecting" => \E u \in Threads : at'[u] \in Trying
      <4>1. ASSUME ~failed, status = "Connecting" PROVE FALSE
        <5>1. PICK u \in Threads : at[u] \in Trying
          BY <4>1 DEF Attempt, Honest
        <5>2. Dialling(u) /\ u # t
          BY <2>1, <5>1 DEF Dialling, Trying
        <5> QED BY <1>0, <2>2, <5>2 DEF Attempt, Apart
      <4> QED BY <4>1
    <3> QED BY <1>0, <1>8, <2>1, <2>2, <2>3, <3>1 DEF LiveOrComing, Honest, Alive
  <2> QED BY <1>8, <2>1, <2>2, <2>4, <2>5 DEF Attempt
<1> QED BY <1>2, <1>2a, <1>3, <1>4, <1>5, <1>6, <1>7, <1>9, <1>10, <1>11, <1>12 DEF InitStep

LEMMA AttemptSendStep ==
    ASSUME TypeInv, Attempt, NEW t \in Threads \ {Overflow}, SendStep(t)
    PROVE  Attempt'
<1>0. t \in Threads /\ ThreadInv /\ at \in [Threads -> Steps] /\ hold \in [Threads -> 0 .. MaxDials]
      /\ actor \in [Conns -> ActorStates] /\ connId \in Nat /\ io \in 0 .. MaxDials
      /\ connecting \in BOOLEAN /\ failed \in BOOLEAN
  BY DEF TypeInv, ThreadInv, OtherTypes, SharedTypes, CountInv
<1>1. \A s : Moves(t, s) => Only(t) /\ (at'[t] = s \/ (at[t] = "none" /\ at'[t] = "loop"))
  BY <1>0, MovesOnly
<1>2. /\ at[t] \in SendSteps /\ at[t] # "none"
      /\ connId' = connId /\ io' = io /\ connecting' = connecting /\ (failed => failed')
      /\ status' = status \/ status' \in {"Closed", "Closing"}
      /\ \A u \in Threads \ {t} : hold'[u] = hold[u]
      /\ connId \in Conns /\ actor[connId] \in Alive => actor'[connId] \in Alive \/ status' # "Open"
  <2>1. CASE SendReady(t) \/ SendHandle(t) \/ Enqueue(t) \/ SendWrite(t)
    BY <1>0, <2>1 DEF SendReady, SendHandle, Enqueue, SendWrite, QueueOrRefuse, SendErr, SendSteps,
       shared, actors, bounds, history
  <2>2. CASE SendFails(t)
    BY <1>0, <2>2 DEF SendFails, WriteFails, SendSteps, shared, history, Alive
  <2>3. CASE SendBroken(t) \/ SendLost(t) \/ SendReport(t)
    BY <1>0, <2>3 DEF SendBroken, SendLost, SendReport, SendErr, SendSteps, shared, actors, history
  <2> QED BY <2>1, <2>2, <2>3 DEF SendStep
<1>3. \/ /\ Only(t) /\ at'[t] \in SendSteps \ {"sending"} /\ hold' = hold
      \/ /\ Only(t) /\ at'[t] \in SendSteps
         /\ at'[t] = "sending" => hold'[t] = io /\ io # 0
      \/ Only(t) /\ at'[t] = AfterSend(t, TRUE)
      \/ Only(t) /\ at'[t] = AfterSend(t, FALSE) /\ (t \notin Senders => failed')
  <2> USE DEF Moves, Goto, QueueOrRefuse, SendErr
  <2>1. CASE SendReady(t)
    BY <1>0, <1>1, <1>2, <2>1 DEF SendReady, SendSteps
  <2>2. CASE SendHandle(t)
    BY <1>0, <1>1, <1>2, <2>2 DEF SendHandle, SendSteps
  <2>3. CASE Enqueue(t) \/ SendWrite(t)
    BY <1>0, <1>1, <1>2, <2>3 DEF Enqueue, SendWrite
  <2>4. CASE SendFails(t) \/ SendBroken(t) \/ SendLost(t)
    BY <1>0, <1>1, <1>2, <2>4 DEF SendFails, SendBroken, SendLost, SendSteps
  <2>5. CASE SendReport(t)
    BY <1>0, <1>1, <1>2, <2>5 DEF SendReport, OnClose
  <2> QED BY <2>1, <2>2, <2>3, <2>4, <2>5 DEF SendStep
<1>4. (t \notin Senders => Dialling(t) /\ Late(t)) /\ (t \in Senders => ~Dialling(t) /\ ~Late(t))
  BY <1>2 DEF Dialling, Late, InInit, InitSteps, SendSteps, Early
<1>5. at[t] \notin Trying /\ at[t] # "install" /\ at[t] \notin Unopened /\ at[t] \notin Fresh /\ at[t] # "flushing"
  BY <1>2 DEF SendSteps, Trying, Unopened, Fresh
<1>6. at'[t] \notin Unopened /\ at'[t] \notin Fresh /\ at'[t] # "flushing"
      /\ (at'[t] = "sending" => hold'[t] = io /\ io # 0)
      /\ (t \in Senders => ~Dialling(t)' /\ ~Late(t)')
      /\ (t \notin Senders => Dialling(t)' \/ failed')
      /\ Only(t)
  BY <1>3 DEF SendSteps, InitSteps, Unopened, Fresh, AfterSend, AfterInit, Dialling, InInit, Late
<1>7. Tame(t)
  BY <1>2, <1>4, <1>5, <1>6 DEF Tame
<1> QED BY <1>0, <1>7, TameKeeps

(* Nobody else takes part in an attempt.  A close() that lets go of `connecting` *)
(* finds no reconnect inside init(): it would have cut into it.                  *)
LEMMA AttemptOtherStep ==
    ASSUME TypeInv, Attempt, Wanted,
           \/ AppInit \/ CloseStep
           \/ \E r \in Reconnectors : ReconnectStep(r)
           \/ OverflowBegins \/ OverflowMark \/ OverflowCut
           \/ \E c \in Conns : ActorStep(c)
    PROVE  Attempt'
<1> DEFINE Bare == {"idle", "close", "closing", "release", "take", "closed", "notify", "enter",
                    "none", "loop", "wait", "recheck", "settle", "overflow", "cut", "cutShort"}
<1>0. ThreadInv /\ at \in [Threads -> Steps] /\ actor \in [Conns -> ActorStates] /\ connId \in Nat
      /\ failed \in BOOLEAN
  BY DEF TypeInv, ThreadInv, OtherTypes, SharedTypes, CountInv
<1>1. /\ connId' = connId /\ io' \in {io, 0} /\ hold' = hold /\ (failed => failed')
      /\ status' = status \/ status' \in {"Closed", "Closing"}
      /\ connecting' = connecting \/ (CloseRelease /\ connecting' = FALSE)
  <2>1. CASE AppInit \/ CloseStep
    BY <2>1 DEF AppInit, CloseStep, AppClose, CloseDisable, CloseMark, CloseRelease, CloseTake, CloseClosed,
       CloseNotify, shared, history
  <2>2. CASE \E r \in Reconnectors : ReconnectStep(r)
    <3>1. UNCHANGED <<connId, io, hold, status, connecting>>
      BY <2>2 DEF ReconnectStep, ReconnectLoop, ReconnectWaited, ReconnectRecheck, ReconnectSettle, shared
    <3>2. failed => failed'
      BY <1>0, <2>2 DEF ReconnectStep, ReconnectLoop, ReconnectWaited, ReconnectRecheck, ReconnectSettle, history
    <3> QED BY <3>1, <3>2
  <2>3. CASE OverflowBegins \/ OverflowMark \/ OverflowCut
    BY <2>3 DEF OverflowBegins, OverflowMark, OverflowCut, shared, history
  <2>4. CASE \E c \in Conns : ActorStep(c)
    <3>1. UNCHANGED <<connId, io, hold, connecting, failed>>
      BY <2>4 DEF ActorStep, ActorFrame, ActorFails, ActorMarksClosed, ActorStops, ActorExits, ActorReports,
         shared, threads, history
    <3>2. status' = status \/ status' = "Closed"
      BY <2>4 DEF ActorStep, ActorFrame, ActorFails, ActorMarksClosed, ActorStops, ActorExits, ActorReports, shared
    <3> QED BY <3>1, <3>2
  <2> QED BY <2>1, <2>2, <2>3, <2>4
<1>2. connId \in Conns /\ actor[connId] \in Alive => actor'[connId] \in Alive \/ status' # "Open"
  <2>1. CASE \E c \in Conns : ActorStep(c)
    BY <1>0, <2>1 DEF ActorStep, ActorFrame, ActorFails, ActorMarksClosed, ActorStops, ActorExits, ActorReports,
       ActorMustStop, actors, Alive
  <2>2. CASE ~\E c \in Conns : ActorStep(c)
    BY <2>2 DEF AppInit, CloseStep, AppClose, CloseDisable, CloseMark, CloseRelease, CloseTake, CloseClosed,
       CloseNotify, ReconnectStep, ReconnectLoop, ReconnectWaited, ReconnectRecheck, ReconnectSettle,
       OverflowBegins, OverflowMark, OverflowCut, actors
  <2> QED BY <2>1, <2>2
<1>3. \E t \in Threads : Only(t) /\ at[t] \in Bare /\ at'[t] \in Bare
  <2> USE <1>0
  <2>1. CASE AppInit \/ CloseStep
    <3>1. PICK s \in AppSteps \cup {"enter"} : Moves(App, s)
      BY <2>1, CloseStepMoves
    <3>2. s \in Bare /\ at[App] \in Bare
      BY <2>1, <3>1 DEF AppSteps, AppInit, CloseStep, AppClose, CloseDisable, CloseMark, CloseRelease, CloseTake,
         CloseClosed, CloseNotify
    <3> QED BY <3>1, <3>2, Kinds, MovesOnly
  <2>2. ASSUME NEW r \in Reconnectors, ReconnectStep(r)
        PROVE  \E t \in Threads : Only(t) /\ at[t] \in Bare /\ at'[t] \in Bare
    <3>1. \E s \in Bare : at' = [at EXCEPT ![r] = s]
      BY <2>2, ReconnectStepMoves
    <3>2. at[r] \in Bare /\ r \in Threads
      BY <2>2, Kinds DEF ReconnectStep, ReconnectLoop, ReconnectWaited, ReconnectRecheck, ReconnectSettle
    <3> QED BY <3>1, <3>2, OneMoves
  <2>3. CASE OverflowBegins \/ OverflowMark \/ OverflowCut
    <3>1. \E s \in Bare : Moves(Overflow, s)
      BY <2>3, OverflowStepMoves DEF OverflowSteps
    <3>2. at[Overflow] \in Bare
      BY <2>3 DEF OverflowBegins, OverflowMark, OverflowCut
    <3> QED BY <3>1, <3>2, Kinds, MovesOnly
  <2>4. CASE \E c \in Conns : ActorStep(c)
    <3>1. CASE at' = at
      <4>1. at[Overflow] \in Bare
        BY Kinds, StepsOfAre DEF ThreadInv, OverflowSteps
      <4> QED BY <3>1, <4>1, Kinds DEF Only
    <3>2. ASSUME NEW r \in Reconnectors, at[r] = "none", at' = [at EXCEPT ![r] = "loop"]
          PROVE  \E t \in Threads : Only(t) /\ at[t] \in Bare /\ at'[t] \in Bare
      BY <3>2, Kinds, OneMoves
    <3> QED BY <2>4, <3>1, <3>2, ActorStepMoves
  <2> QED BY <2>1, <2>2, <2>3, <2>4
<1>4. PICK t \in Threads : Only(t) /\ at[t] \in Bare /\ at'[t] \in Bare
  BY <1>3
<1>5. \A b \in Bare : b \notin SendSteps /\ (b \in InitSteps => b = "enter")
  BY DEF SendSteps, InitSteps
<1>6. ~Dialling(t) /\ ~Dialling(t)'
  BY <1>4, <1>5 DEF Dialling, InInit
<1>7. \A b \in Bare : b \notin Unopened /\ b \notin Fresh /\ b \notin {"flushing", "sending", "install"} /\ b \notin Trying
  BY DEF Unopened, Fresh, Trying
<1>8. ASSUME CloseRelease PROVE \A u \in Threads : ~Dialling(u)'
  <2>1. at[App] = "release" /\ at' = [at EXCEPT ![App] = "take"] /\ ~shouldReconnect
    BY <1>8 DEF CloseRelease, Goto, Wanted
  <2>2. \A r \in Reconnectors : ~InInit(r)
    BY <2>1 DEF Wanted
  <2>3. Dialers = {}
    BY <1>0, <2>1, <2>2, NobodyDials DEF Closing, Quiet
  <2>4. Only(App) /\ at'[App] = "take"
    BY <1>0, <2>1, Kinds, OneMoves
  <2>5. ~Dialling(App)'
    BY <2>4 DEF Dialling, InInit, InitSteps, SendSteps
  <2> QED BY <2>3, <2>4, <2>5, Kinds, OnlyMeans DEF Dialers
<1> HIDE DEF Bare
<1>9. Tame(t)
  BY <1>1, <1>2, <1>4, <1>6, <1>7, <1>8 DEF Tame, Late
<1> QED BY <1>9, TameKeeps

(* A reconnect gets inside init() only while reconnecting is switched on, and   *)
(* only a close() that meets none there switches it off without being counted.  *)
LEMMA WantedStep ==
    ASSUME TypeInv, Wanted, [Next]_vars, cuts = 0, cuts' = 0
    PROVE  Wanted'
<1>0. ThreadInv /\ at \in [Threads -> Steps]
  BY DEF TypeInv, ThreadInv
<1> DEFINE Keeps == /\ \A r \in Reconnectors : InInit(r)' => InInit(r) \/ shouldReconnect'
                    /\ at'[App] \in {"closing", "release"} => at[App] \in {"closing", "release"}
<1>1. ASSUME shouldReconnect' = shouldReconnect, Keeps PROVE Wanted'
  BY <1>1 DEF Wanted
<1>2. ASSUME NEW t \in {App} \cup Reconnectors, InitStep(t) PROVE Wanted'
  <2>0. t \in Threads /\ t \notin Senders
    BY <1>2, Kinds
  <2>1. InInit(t)
    BY <1>2, <2>0 DEF InInit, InitSteps, InitStep, InitEnter, InitGate, InitSwap, InitMark, DialFails, Backoff,
       BackoffEnds, InitGivesUp, DialSucceeds, ReplaceHandle, PublishOpen, InstallActor, FlushTake, FlushHandle,
       FlushWrite, FlushFails, SendPeek, InitFinish
  <2>2. PICK s \in StepsOf(t) : at' = [at EXCEPT ![t] = s]
    BY <1>0, <1>2, InitStepMoves
  <2>3. Only(t) /\ at'[t] = s
    BY <1>0, <2>0, <2>2, OneMoves
  <2>4. at'[t] \notin {"closing", "release"}
    <3> USE <2>0, <1>0 DEF Goto, AfterInit
    <3>1. CASE InitEnter(t) \/ InitGate(t) \/ InitSwap(t) \/ InitMark(t) \/ DialFails(t) \/ Backoff(t)
      BY <3>1 DEF InitEnter, InitGate, InitSwap, InitMark, DialFails, Backoff
    <3>2. CASE BackoffEnds(t) \/ InitGivesUp(t) \/ DialSucceeds(t) \/ ReplaceHandle(t) \/ PublishOpen(t)
      BY <3>2 DEF BackoffEnds, InitGivesUp, DialSucceeds, ReplaceHandle, PublishOpen
    <3>3. CASE InstallActor(t) \/ FlushTake(t) \/ FlushHandle(t) \/ FlushWrite(t) \/ FlushFails(t)
      BY <3>3 DEF InstallActor, FlushTake, FlushHandle, FlushWrite, FlushFails
    <3>4. CASE SendPeek(t) \/ InitFinish(t)
      BY <3>4 DEF SendPeek, InitFinish
    <3> QED BY <1>2, <3>1, <3>2, <3>3, <3>4 DEF InitStep
  <2>5. Keeps
    BY <2>0, <2>1, <2>3, <2>4, Kinds, OnlyMeans DEF Only
  <2>6. CASE InitEnter(t)
    <3>1. shouldReconnect' = TRUE /\ at[t] = "enter"
      BY <2>6 DEF InitEnter
    <3>2. CASE t = App
      BY <2>3, <2>4, <3>1, <3>2 DEF Wanted
    <3>3. CASE t \in Reconnectors
      BY <2>1, <2>5, <3>1, <3>3 DEF Wanted
    <3> QED BY <3>2, <3>3
  <2>7. CASE ~InitEnter(t)
    <3>1. shouldReconnect' = shouldReconnect
      BY <1>2, <2>7 DEF InitStep, InitGate, InitSwap, InitMark, DialFails, Backoff,
         BackoffEnds, InitGivesUp, DialSucceeds, ReplaceHandle, PublishOpen, InstallActor, FlushTake, FlushHandle,
         FlushWrite, FlushFails, SendPeek, InitFinish, shared
    <3> QED BY <1>1, <2>5, <3>1
  <2> QED BY <2>6, <2>7
<1>3. ASSUME NEW t \in Threads \ {Overflow}, SendStep(t) PROVE Wanted'
  <2>1. PICK s \in StepsOf(t) : Moves(t, s)
    BY <1>0, <1>3, SendStepMoves
  <2>2. shouldReconnect' = shouldReconnect /\ at[t] \in SendSteps /\ at[t] # "none"
    BY <1>3 DEF SendStep, SendReady, SendHandle, Enqueue, SendWrite, SendFails, SendBroken,
       SendLost, SendReport, SendSteps, shared
  <2>3. Only(t) /\ at'[t] = s
    BY <1>0, <2>1, <2>2, MovesOnly
  <2>4. t \notin Senders => InInit(t)
    BY <2>2 DEF InInit
  <2>5. at'[t] \notin {"closing", "release"}
    <3>1. \/ at'[t] \in SendSteps
          \/ at'[t] \in {AfterSend(t, TRUE), AfterSend(t, FALSE)}
      <4>1. CASE SendReport(t)
        BY <1>0, <2>2, <4>1, MovesOnly DEF SendReport, OnClose, Moves
      <4>2. CASE ~SendReport(t)
        BY <1>0, <1>3, <4>2 DEF SendStep, SendReady, SendHandle, Enqueue, SendWrite, SendFails, SendBroken,
         SendLost, QueueOrRefuse, SendErr, Goto, SendSteps
      <4> QED BY <4>1, <4>2
    <3> QED BY <3>1 DEF SendSteps, AfterSend, AfterInit
  <2>6. Keeps
    <3>1. \A r \in Reconnectors : InInit(r)' => InInit(r)
      BY <2>3, <2>4, Kinds, OnlyMeans
    <3>2. at'[App] \in {"closing", "release"} => at[App] \in {"closing", "release"}
      BY <2>3, <2>5, Kinds DEF Only
    <3> QED BY <3>1, <3>2
  <2> QED BY <1>1, <2>2, <2>6
<1>4. CASE AppInit \/ CloseStep
  <2>1. PICK s \in AppSteps \cup {"enter"} : Moves(App, s)
    BY <1>0, <1>4, CloseStepMoves
  <2>2. Only(App)
    BY <1>0, <2>1, Kinds, MovesOnly
  <2>3. \A r \in Reconnectors : InInit(r)' <=> InInit(r)
    BY <2>2, Kinds, OnlyMeans
  <2>4. CASE CloseDisable
    <3>1. ~shouldReconnect' /\ ~\E r \in Reconnectors : InInit(r)
      BY <2>4 DEF CloseDisable
    <3> QED BY <2>3, <3>1 DEF Wanted
  <2>5. CASE ~CloseDisable
    <3>1. shouldReconnect' = shouldReconnect
      BY <1>4, <2>5 DEF AppInit, CloseStep, AppClose, CloseMark, CloseRelease, CloseTake, CloseClosed,
         CloseNotify, shared
    <3>2. at'[App] \in {"closing", "release"} => at[App] \in {"closing", "release"}
      <4>1. CASE CloseNotify
        BY <1>0, <4>1, Kinds DEF CloseNotify, OnClose
      <4>2. CASE ~CloseNotify
        BY <1>0, <1>4, <2>5, <4>2, Kinds DEF AppInit, CloseStep, AppClose, CloseMark, CloseRelease, CloseTake,
           CloseClosed, Goto
      <4> QED BY <4>1, <4>2
    <3> QED BY <1>1, <2>3, <3>1, <3>2
  <2> QED BY <2>4, <2>5
<1>5. ASSUME NEW r \in Reconnectors, ReconnectStep(r) PROVE Wanted'
  <2>1. shouldReconnect' = shouldReconnect
    BY <1>5 DEF ReconnectStep, ReconnectLoop, ReconnectWaited, ReconnectRecheck, ReconnectSettle, shared
  <2>2. PICK s \in {"none", "wait", "recheck", "enter"} :
           at' = [at EXCEPT ![r] = s] /\ (s = "enter" => shouldReconnect)
    BY <1>5 DEF ReconnectStep, ReconnectLoop, ReconnectWaited, ReconnectRecheck, ReconnectSettle, Goto
  <2>3. Only(r) /\ at'[r] = s /\ r \in Threads
    BY <1>0, <2>2, Kinds, OneMoves
  <2>4. InInit(r)' => shouldReconnect'
    BY <2>1, <2>2, <2>3 DEF InInit, InitSteps, SendSteps
  <2>5. Keeps
    BY <2>3, <2>4, Kinds, OnlyMeans DEF Only
  <2> QED BY <1>1, <2>1, <2>5
<1>6. CASE OverflowBegins \/ OverflowMark \/ OverflowCut
  <2>1. shouldReconnect' = shouldReconnect
    BY <1>6 DEF OverflowBegins, OverflowMark, OverflowCut, shared
  <2>2. Only(Overflow)
    BY <1>0, <1>6, OverflowStepMoves, Kinds, MovesOnly
  <2>3. Keeps
    BY <2>2, Kinds, OnlyMeans DEF Only
  <2> QED BY <1>1, <2>1, <2>3
<1>7. ASSUME NEW c \in Conns, ActorStep(c) PROVE Wanted'
  <2>1. shouldReconnect' = shouldReconnect
    BY <1>7 DEF ActorStep, ActorFrame, ActorFails, ActorMarksClosed, ActorStops, ActorExits, ActorReports, shared
  <2>2. \A u \in Threads : at'[u] = at[u] \/ (at[u] = "none" /\ at'[u] = "loop")
    BY <1>0, <1>7, ActorStepMoves
  <2>3. \A r \in Reconnectors : InInit(r)' => InInit(r)
    BY <2>2, Kinds DEF InInit, InitSteps, SendSteps
  <2>4. Keeps
    BY <2>2, <2>3, Kinds
  <2> QED BY <1>1, <2>1, <2>4
<1>8. CASE UNCHANGED vars
  <2>1. shouldReconnect' = shouldReconnect /\ at' = at
    BY <1>8 DEF vars, shared, threads
  <2>2. Keeps
    BY <2>1 DEF InInit
  <2> QED BY <1>1, <2>1, <2>2
<1> QED BY <1>2, <1>3, <1>4, <1>5, <1>6, <1>7, <1>8 DEF Next

(* What a step may do without taking anybody away from a loss. *)
Tended == actor[connId] \in Alive \cup {"left"}
Steady(t) ==
    /\ Only(t)
    /\ Tended => Tended' \/ \E u \in Threads : at'[u] = "loop"
    /\ at[t] \in Early => at'[t] \in Early
    /\ at[t] \in {"loop", "wait"} => at'[t] \in {"loop", "wait"}
    /\ at[t] \in Entering => at'[t] \in Entering
    /\ Late(t)' => Late(t)

LEMMA SteadyKeeps ==
    ASSUME Attended, NEW t \in Threads, Steady(t)
    PROVE  Attended'
<1> USE DEF Steady
<1>1. CASE Tended
  BY <1>1 DEF Attended, Tended
<1>2. ASSUME NEW u \in Threads, at[u] \in Early PROVE at'[u] \in Early
  BY <1>2, OnlyMeans
<1>3. ASSUME NEW u \in Threads, at[u] \in {"loop", "wait"} PROVE at'[u] \in {"loop", "wait"}
  BY <1>3, OnlyMeans
<1>4. CASE (\E u \in Threads : at[u] \in Entering) /\ \A u \in Threads : ~Late(u)
  <2>1. \E u \in Threads : at'[u] \in Entering
    BY <1>4, OnlyMeans
  <2>2. \A u \in Threads : ~Late(u)'
    BY <1>4, OnlyMeans
  <2> QED BY <2>1, <2>2 DEF Attended
<1> QED BY <1>1, <1>2, <1>3, <1>4 DEF Attended, Tended

(* A thread that is not inside init() yet while reconnecting is switched off    *)
(* finds nobody there who has got past installing an actor.                     *)
LEMMA NobodyLate ==
    ASSUME TypeInv, Wanted, NEW t \in {App} \cup Reconnectors, at[t] = "enter", ~shouldReconnect
    PROVE  t = App /\ \A u \in Threads : ~Late(u)
<1>0. ThreadInv
  BY DEF TypeInv
<1>1. \A r \in Reconnectors : ~InInit(r)
  BY DEF Wanted
<1>2. t = App
  BY <1>1 DEF InInit, InitSteps
<1>3. ASSUME NEW u \in Threads, Dialling(u) PROVE FALSE
  <2>1. CASE u = App
    BY <1>2, <1>3, <2>1 DEF Dialling
  <2>2. CASE u = Overflow
    <3>1. at[u] \in OverflowSteps
      BY <1>0, <2>2, Kinds, StepsOfAre DEF ThreadInv
    <3> QED BY <1>3, <3>1 DEF Dialling, InInit, InitSteps, SendSteps, OverflowSteps
  <2>3. CASE u \in Reconnectors
    BY <1>1, <1>3, <2>3 DEF Dialling
  <2>4. CASE u \in Senders
    <3>1. at[u] \in SendSteps \cup {"sent", "refused"}
      BY <1>0, <2>4, StepsOfAre DEF ThreadInv
    <3> QED BY <1>3, <2>4, <3>1 DEF Dialling, InInit, InitSteps, SendSteps
  <2> QED BY <2>1, <2>2, <2>3, <2>4, Kinds
<1> QED BY <1>2, <1>3 DEF Late

LEMMA AttendInitStep ==
    ASSUME TypeInv, Attempt, Wanted, AttendInv, NEW t \in {App} \cup Reconnectors, InitStep(t)
    PROVE  AttendInv'
<1>0. t \in Threads /\ t \notin Senders /\ ThreadInv /\ at \in [Threads -> Steps]
      /\ hold \in [Threads -> 0 .. MaxDials] /\ actor \in [Conns -> ActorStates]
      /\ connecting \in BOOLEAN /\ failed \in BOOLEAN
  BY Kinds DEF TypeInv, ThreadInv, OtherTypes, SharedTypes
<1>1. \A s : at' = [at EXCEPT ![t] = s] => Only(t) /\ at'[t] = s
  BY <1>0, OneMoves
<1> USE DEF Goto, AfterInit
<1>2. CASE InitEnter(t)
  <2>1. Only(t) /\ at[t] = "enter" /\ at'[t] = "gate" /\ shouldReconnect' = TRUE
        /\ UNCHANGED <<actor, connId, failed>>
    BY <1>1, <1>2 DEF InitEnter, actors, history
  <2>2. ~Late(t)'
    BY <2>1 DEF Late, Dialling
  <2>3. CASE shouldReconnect
    <3>1. Steady(t)
      BY <2>1, <2>2 DEF Steady, Tended, Early, Entering
    <3> QED BY <1>0, <2>1, <2>3, <3>1, SteadyKeeps DEF AttendInv
  <2>4. CASE ~shouldReconnect
    <3>1. \A u \in Threads : ~Late(u)
      BY <2>1, <2>4, NobodyLate
    <3>2. \A u \in Threads : ~Late(u)'
      BY <1>0, <2>1, <2>2, <3>1, OnlyMeans
    <3>3. at'[t] \in Entering
      BY <2>1 DEF Entering
    <3> QED BY <1>0, <3>2, <3>3 DEF AttendInv, Attended
  <2> QED BY <2>3, <2>4
<1>3. CASE InitGate(t) \/ InitSwap(t)
  <2>1. Only(t) /\ at[t] \in {"gate", "swap"} /\ UNCHANGED <<shouldReconnect, actor, connId, failed>>
        /\ at'[t] \in {"idle", "settle", "swap", "mark"}
    BY <1>1, <1>3 DEF InitGate, InitSwap, shared, actors, history
  <2>2. ~Late(t)' /\ ~Late(t)
    BY <2>1 DEF Late, Dialling, Early, InInit, InitSteps, SendSteps
  <2>3. CASE at'[t] = "mark"
    BY <1>0, <2>3 DEF AttendInv, Attended, Early
  <2>4. CASE at'[t] = "swap"
    <3>1. Steady(t)
      BY <2>1, <2>2, <2>4 DEF Steady, Tended, Early, Entering
    <3> QED BY <1>0, <2>1, <3>1, SteadyKeeps DEF AttendInv
  <2>5. CASE InitGate(t) /\ status = "Open"
    <3>1. (connId \in Conns /\ actor[connId] \in Alive) \/ \E u \in Threads \ {t} : at[u] = "install"
      BY <2>1, <2>5 DEF Attempt, LiveOrComing
    <3>2. Tended' \/ \E u \in Threads : at'[u] \in Early
      BY <1>0, <2>1, <3>1, OnlyMeans DEF Tended, Early
    <3> QED BY <3>2 DEF AttendInv, Attended, Tended
  <2>6. CASE InitGate(t) /\ status = "Connecting"
    <3>1. ~failed => \E u \in Threads \ {t} : at[u] \in Trying
      BY <2>1, <2>6 DEF Attempt, Honest, Trying
    <3>2. ~failed => \E u \in Threads : at'[u] \in Trying
      BY <1>0, <2>1, <3>1, OnlyMeans
    <3> QED BY <2>1, <3>2 DEF AttendInv, Attended, Trying, Early
  <2>7. CASE InitSwap(t) /\ connecting
    <3>1. ASSUME ~failed, shouldReconnect, connId # 0 PROVE Attended'
      <4>1. PICK u \in Threads : Dialling(u)
        BY <2>7, <3>1 DEF Attempt, Honest
      <4>2. u # t
        BY <2>1, <4>1 DEF Dialling
      <4>3. CASE at[u] \in Early
        BY <1>0, <2>1, <4>2, <4>3, OnlyMeans DEF Attended
      <4>4. CASE Late(u)
        <5>1. Attended
          BY <3>1 DEF AttendInv
        <5>2. Tended \/ \E v \in Threads \ {t} : at[v] \in Early \/ at[v] \in {"loop", "wait"}
          BY <2>1, <4>4, <5>1 DEF Attended, Tended, Early
        <5>3. Tended => Tended'
          BY <2>1 DEF Tended
        <5> QED BY <1>0, <2>1, <5>2, <5>3, OnlyMeans DEF Attended, Tended
      <4> QED BY <4>1, <4>3, <4>4 DEF Late
    <3> QED BY <2>1, <3>1 DEF AttendInv
  <2>8. at'[t] \in {"swap", "mark"} \/ (InitGate(t) /\ status \in {"Open", "Connecting"})
        \/ (InitSwap(t) /\ connecting)
    BY <1>1, <1>3 DEF InitGate, InitSwap
  <2> QED BY <2>3, <2>4, <2>5, <2>6, <2>7, <2>8
<1>4. CASE InitMark(t) \/ DialFails(t) \/ Backoff(t) \/ BackoffEnds(t) \/ DialSucceeds(t)
           \/ ReplaceHandle(t) \/ PublishOpen(t)
  <2>1. at'[t] \in Early
    BY <1>1, <1>4 DEF Early, InitMark, DialFails, Backoff, BackoffEnds, DialSucceeds, ReplaceHandle, PublishOpen
  <2> QED BY <1>0, <2>1 DEF AttendInv, Attended
<1>5. CASE InitGivesUp(t)
  BY <1>5 DEF InitGivesUp, AttendInv
<1>6. CASE InstallActor(t)
  <2>1. hold[t] = connId /\ hold[t] # 0 /\ at[t] = "install"
    BY <1>0, <1>6 DEF InstallActor, Attempt, Numbered, Fresh, TypeInv, Holds, Holding
  <2>2. connId \in Conns
    BY <1>0, <2>1 DEF Conns
  <2>3. Tended'
    BY <1>0, <1>6, <2>1, <2>2 DEF InstallActor, Tended, Alive
  <2> QED BY <2>3 DEF AttendInv, Attended, Tended
<1>7. CASE FlushTake(t) \/ FlushHandle(t) \/ FlushWrite(t) \/ FlushFails(t) \/ SendPeek(t) \/ InitFinish(t)
  <2>1. at[t] \in {"flush", "flushHandle", "flushing", "peek", "finish"} /\ Only(t)
        /\ UNCHANGED <<shouldReconnect, connId, failed>>
    <3>1. CASE FlushTake(t) \/ FlushHandle(t) \/ FlushWrite(t)
      BY <1>1, <3>1 DEF FlushTake, FlushHandle, FlushWrite, shared, history
    <3>2. CASE FlushFails(t) \/ SendPeek(t) \/ InitFinish(t)
      BY <1>1, <3>2 DEF FlushFails, SendPeek, InitFinish, shared, history
    <3> QED BY <1>7, <3>1, <3>2
  <2>2. Late(t) /\ at[t] \notin Early /\ at[t] \notin Entering /\ at[t] \notin {"loop", "wait"}
    BY <2>1 DEF Late, Dialling, InInit, InitSteps, Early, Entering
  <2>3. connId # 0 /\ Tended => Tended'
    <3>1. CASE FlushFails(t)
      <4>1. hold[t] \in Conns
        BY <1>0, <3>1 DEF FlushFails, TypeInv, Holds, Holding, Conns
      <4>2. \/ actor' = actor
            \/ actor[hold[t]] = "running" /\ actor' = [actor EXCEPT ![hold[t]] = "failing"]
        BY <3>1 DEF FlushFails, WriteFails
      <4>3. connId \in Conns => (connId # 0 /\ Tended => Tended')
        BY <1>0, <2>1, <4>1, <4>2 DEF Tended, Alive
      <4>4. connId \in Conns \/ connId = 0
        BY TypesFollow DEF TypeOK, Conns
      <4> QED BY <4>3, <4>4
    <3>2. CASE ~FlushFails(t)
      BY <1>7, <2>1, <3>2 DEF FlushTake, FlushHandle, FlushWrite, SendPeek, InitFinish, actors, Tended
    <3> QED BY <3>1, <3>2
  <2>4. connId # 0 => Steady(t)
    BY <2>1, <2>2, <2>3 DEF Steady
  <2> QED BY <1>0, <2>1, <2>4, SteadyKeeps DEF AttendInv
<1> QED BY <1>2, <1>3, <1>4, <1>5, <1>6, <1>7 DEF InitStep

(* A writer that marks the connection lost wakes a reconnect task itself. *)
LEMMA AttendSendStep ==
    ASSUME TypeInv, Attempt, AttendInv, NEW t \in Threads \ {Overflow}, SendStep(t)
    PROVE  AttendInv'
<1>0. t \in Threads /\ ThreadInv /\ at \in [Threads -> Steps] /\ actor \in [Conns -> ActorStates]
      /\ hold \in [Threads -> 0 .. MaxDials] /\ failed \in BOOLEAN
  BY DEF TypeInv, ThreadInv, OtherTypes, SharedTypes
<1>1. /\ at[t] \in SendSteps /\ at[t] # "none"
      /\ UNCHANGED <<connId, shouldReconnect>> /\ (failed => failed')
      /\ at[t] \notin Early /\ at[t] \notin Entering /\ at[t] \notin {"loop", "wait"}
  <2>1. at[t] \in SendSteps /\ UNCHANGED <<connId, shouldReconnect>>
    BY DEF SendStep, SendReady, SendHandle, Enqueue, SendWrite, SendFails, SendBroken, SendLost, SendReport,
       SendSteps, shared
  <2>2. failed => failed'
    <3>1. CASE SendReady(t) \/ SendHandle(t) \/ Enqueue(t) \/ SendWrite(t)
      BY <1>0, <3>1 DEF SendReady, SendHandle, Enqueue, SendWrite, QueueOrRefuse, SendErr
    <3>2. CASE SendFails(t) \/ SendBroken(t) \/ SendLost(t) \/ SendReport(t)
      BY <1>0, <3>2 DEF SendFails, SendBroken, SendLost, SendReport, SendErr, history
    <3> QED BY <3>1, <3>2 DEF SendStep
  <2> QED BY <2>1, <2>2 DEF SendSteps, Early, Entering
<1>2. PICK s \in StepsOf(t) : Moves(t, s)
  BY <1>0, SendStepMoves
<1>3. Only(t)
  BY <1>0, <1>2, MovesOnly
<1>4. Late(t)' => Late(t)
  <2>1. t \notin Senders => Late(t)
    BY <1>1 DEF Late, Dialling, InInit, SendSteps
  <2>2. t \in Senders => ~Late(t)'
    <3>1. ThreadInv'
      BY <1>0, ThreadStep DEF Next
    <3>2. t \in Senders => at'[t] \in SendSteps \cup {"sent", "refused"}
      BY <1>0, <3>1, Kinds, StepsOfAre DEF ThreadInv, StepsOf
    <3> QED BY <3>2 DEF Late, Dialling, InInit, InitSteps, SendSteps
  <2> QED BY <2>1, <2>2
<1>5. connId # 0 /\ Tended => Tended'
  <2>1. CASE SendFails(t)
    <3>1. hold[t] \in Conns
      BY <1>0, <2>1 DEF SendFails, TypeInv, Holds, Holding, Conns
    <3>2. \/ actor' = actor
          \/ actor[hold[t]] = "running" /\ actor' = [actor EXCEPT ![hold[t]] = "failing"]
      BY <2>1 DEF SendFails, WriteFails
    <3>3. connId \in Conns => (connId # 0 /\ Tended => Tended')
      BY <1>0, <1>1, <3>1, <3>2 DEF Tended, Alive
    <3>4. connId \in Conns \/ connId = 0
      BY TypesFollow DEF TypeOK, Conns
    <3> QED BY <3>3, <3>4
  <2>2. CASE ~SendFails(t)
    <3>1. actor' = actor
      BY <2>2 DEF SendStep, SendReady, SendHandle, Enqueue, SendWrite, SendBroken, SendLost, SendReport, actors
    <3> QED BY <1>1, <3>1 DEF Tended
  <2> QED BY <2>1, <2>2
<1>6. connId # 0 => Steady(t)
  BY <1>1, <1>3, <1>4, <1>5 DEF Steady
<1> QED BY <1>0, <1>1, <1>6, SteadyKeeps DEF AttendInv

(* A reconnect task that has waited, when all that is left in motion waits too, *)
(* meets no attempt that is past its actor but one whose actor runs.            *)
LEMMA CalmMeansTended ==
    ASSUME TypeInv, Attempt, Calm, NEW u \in Threads, Late(u)
    PROVE  Tended
<1>1. at[u] \in Resting \/ Waiting(u)
  BY DEF Calm
<1>2. at[u] \in InitSteps \cup SendSteps /\ at[u] \notin Early
  BY DEF Late, Dialling, InInit
<1>3. at[u] \in {"flushing", "sending"} /\ actor[hold[u]] = "running"
  BY <1>1, <1>2 DEF Resting, Waiting, InitSteps, SendSteps, Early
<1>4. hold[u] = connId
  BY <1>3 DEF Attempt, Numbered
<1> QED BY <1>3, <1>4 DEF Tended, Alive

LEMMA AttendReconnectStep ==
    ASSUME TypeInv, Attempt, AttendInv, NEW r \in Reconnectors, ReconnectStep(r)
    PROVE  AttendInv'
<1>0. r \in Threads /\ ThreadInv /\ failed \in BOOLEAN /\ shouldReconnect \in BOOLEAN
  BY Kinds DEF TypeInv, OtherTypes, SharedTypes
<1>1. UNCHANGED <<connId, shouldReconnect, actor>>
  BY DEF ReconnectStep, ReconnectLoop, ReconnectWaited, ReconnectRecheck, ReconnectSettle, shared, actors
<1>2. \A s : at' = [at EXCEPT ![r] = s] => Only(r) /\ at'[r] = s
  BY <1>0, OneMoves
<1> USE DEF Goto
<1>3. ASSUME Only(r), at[r] \notin Early, at'[r] \notin {"flush", "flushHandle", "flushing", "peek", "finish"},
             at'[r] \notin SendSteps,
             at[r] \in Entering => at'[r] \in Entering,
             at[r] \in {"loop", "wait"} => at'[r] \in {"loop", "wait"},
             failed' = failed
      PROVE  AttendInv'
  <2>1. ~Late(r)'
    BY <1>3 DEF Late, Dialling, InInit, InitSteps, Early
  <2>2. Steady(r)
    BY <1>1, <1>3, <2>1 DEF Steady, Tended
  <2> QED BY <1>0, <1>1, <1>3, <2>2, SteadyKeeps DEF AttendInv
<1>4. CASE ReconnectLoop(r)
  <2>1. CASE ~shouldReconnect \/ times >= MaxTimes
    <3>1. ~failed' => ~shouldReconnect'
      BY <1>0, <1>1, <1>4, <2>1 DEF ReconnectLoop
    <3> QED BY <3>1 DEF AttendInv
  <2>2. CASE ~(~shouldReconnect \/ times >= MaxTimes)
    <3>1. at'[r] = "wait"
      BY <1>2, <1>4, <2>2 DEF ReconnectLoop
    <3> QED BY <1>0, <3>1 DEF AttendInv, Attended
  <2> QED BY <2>1, <2>2
<1>5. CASE ReconnectWaited(r)
  <2>1. at'[r] = "recheck" /\ Only(r) /\ Calm /\ at[r] = "wait"
    BY <1>2, <1>5 DEF ReconnectWaited
  <2>2. CASE \E u \in Threads : Late(u)
    <3>1. Tended'
      BY <1>1, <2>1, <2>2, CalmMeansTended DEF Tended
    <3> QED BY <3>1 DEF AttendInv, Attended, Tended
  <2>3. CASE ~\E u \in Threads : Late(u)
    <3>1. \A u \in Threads : ~Late(u)'
      <4>1. ~Late(r)'
        BY <2>1 DEF Late, Dialling, InInit, InitSteps, SendSteps
      <4> QED BY <1>0, <2>1, <2>3, <4>1, OnlyMeans
    <3> QED BY <1>0, <2>1, <3>1 DEF AttendInv, Attended, Entering
  <2> QED BY <2>2, <2>3
<1>6. CASE ReconnectRecheck(r)
  <2>1. CASE shouldReconnect
    <3>1. at'[r] = "enter" /\ Only(r) /\ at[r] = "recheck" /\ failed' = failed
      BY <1>2, <1>6, <2>1 DEF ReconnectRecheck, history
    <3> QED BY <1>3, <3>1 DEF Early, Entering, SendSteps
  <2>2. CASE ~shouldReconnect
    BY <1>1, <2>2 DEF AttendInv
  <2> QED BY <2>1, <2>2
<1>7. CASE ReconnectSettle(r)
  <2>1. at'[r] = "none" /\ Only(r) /\ at[r] = "settle" /\ failed' = failed
    BY <1>2, <1>7 DEF ReconnectSettle, history
  <2> QED BY <1>3, <2>1 DEF Early, Entering, SendSteps
<1> QED BY <1>4, <1>5, <1>6, <1>7 DEF ReconnectStep

LEMMA AttendOtherStep ==
    ASSUME TypeInv, Attempt, AttendInv,
           AppInit \/ CloseStep \/ OverflowBegins \/ OverflowMark \/ OverflowCut \/ (\E c \in Conns : ActorStep(c))
    PROVE  AttendInv'
<1>0. ThreadInv /\ at \in [Threads -> Steps] /\ actor \in [Conns -> ActorStates] /\ failed \in BOOLEAN
  BY DEF TypeInv, ThreadInv, OtherTypes, SharedTypes
<1>1. ASSUME NEW t \in Threads, connId # 0 => Steady(t), connId' = connId, failed' = failed,
             shouldReconnect' => shouldReconnect
      PROVE  AttendInv'
  BY <1>1, SteadyKeeps DEF AttendInv
<1>2. CASE AppInit \/ CloseStep
  <2>1. PICK s \in AppSteps \cup {"enter"} : Moves(App, s)
    BY <1>0, <1>2, CloseStepMoves
  <2>2. Only(App) /\ at'[App] = s
    BY <1>0, <1>2, <2>1, Kinds, MovesOnly DEF AppInit, CloseStep, AppClose, CloseDisable, CloseMark, CloseRelease,
       CloseTake, CloseClosed, CloseNotify
  <2>3. at[App] \in AppSteps
    BY <1>2 DEF AppSteps, AppInit, CloseStep, AppClose, CloseDisable, CloseMark, CloseRelease, CloseTake, CloseClosed,
       CloseNotify
  <2>4. UNCHANGED <<actor, connId, failed>> /\ (shouldReconnect' => shouldReconnect)
    BY <1>2 DEF AppInit, CloseStep, AppClose, CloseDisable, CloseMark, CloseRelease, CloseTake, CloseClosed,
       CloseNotify, shared, actors, history
  <2>5. Steady(App)
    <3>1. ~Late(App)'
      BY <2>1, <2>2 DEF AppSteps, Late, Dialling, InInit, InitSteps, SendSteps
    <3> QED BY <2>1, <2>2, <2>3, <2>4, <3>1 DEF Steady, Tended, Early, Entering, AppSteps
  <2> QED BY <1>1, <2>4, <2>5, Kinds
<1>3. CASE OverflowBegins \/ OverflowMark \/ OverflowCut
  <2>1. PICK s \in OverflowSteps : Moves(Overflow, s)
    BY <1>0, <1>3, OverflowStepMoves
  <2>2. Only(Overflow) /\ at'[Overflow] \in OverflowSteps \cup {"loop"} /\ at[Overflow] \in OverflowSteps
    BY <1>0, <1>3, <2>1, Kinds, StepsOfAre, MovesOnly DEF ThreadInv
  <2>3. UNCHANGED <<actor, connId, failed, shouldReconnect>>
    BY <1>3 DEF OverflowBegins, OverflowMark, OverflowCut, shared, actors, history
  <2>4. Steady(Overflow)
    BY <2>2, <2>3 DEF Steady, Tended, Early, Entering, OverflowSteps, Late, Dialling, InInit, InitSteps, SendSteps
  <2> QED BY <1>1, <2>3, <2>4, Kinds
<1>4. ASSUME NEW c \in Conns, ActorStep(c) PROVE AttendInv'
  <2>1. UNCHANGED <<connId, failed, shouldReconnect>>
    BY <1>4 DEF ActorStep, ActorFrame, ActorFails, ActorMarksClosed, ActorStops, ActorExits, ActorReports,
       shared, history
  <2>2. Only(Overflow) /\ at'[Overflow] = at[Overflow] /\ at[Overflow] \in OverflowSteps
    <3>1. \A u \in Threads : at'[u] = at[u] \/ (u \in Reconnectors /\ at[u] = "none" /\ at'[u] = "loop")
      BY <1>0, <1>4, ActorStepMoves
    <3> QED BY <1>0, <3>1, Kinds, StepsOfAre DEF Only, ThreadInv
  <2>3. connId # 0 /\ Tended => Tended' \/ \E u \in Threads : at'[u] = "loop"
    <3>0. connId \in Conns \/ connId = 0
      BY TypesFollow DEF TypeOK, Conns
    <3>1. CASE ActorReports(c)
      BY <1>0, <3>1, Kinds DEF ActorReports, Goto
    <3>2. CASE ~ActorReports(c)
      BY <1>0, <1>4, <2>1, <3>0, <3>2 DEF ActorStep, ActorFrame, ActorFails, ActorMarksClosed, ActorStops, ActorExits,
         ActorMustStop, actors, Tended, Alive
    <3> QED BY <3>1, <3>2
  <2>4. connId # 0 => Steady(Overflow)
    BY <2>2, <2>3 DEF Steady, Early, Entering, OverflowSteps, Late, Dialling, InInit, InitSteps, SendSteps
  <2> QED BY <1>1, <2>1, <2>4, Kinds
<1> QED BY <1>2, <1>3, <1>4

LEMMA LossInit == Init => LossInv
<1> SUFFICES ASSUME Init PROVE LossInv
  OBVIOUS
<1>1. \A t \in Threads : at[t] \in {"idle", "ready", "none"}
  BY DEF Init
<1>2. \A t \in Threads : ~Dialling(t) /\ at[t] \notin Fresh /\ at[t] \notin Unopened
  <2>1. \A t \in Threads : t \notin Senders => at[t] \in {"idle", "none"}
    BY DEF Init
  <2> QED BY <1>1, <2>1 DEF Dialling, InInit, InitSteps, SendSteps, Fresh, Unopened
<1>3. Attempt
  BY <1>2 DEF Init, Attempt, Apart, Numbered, LiveOrComing, Honest, Late
<1>4. Wanted
  BY <1>1, Kinds DEF Init, Wanted
<1>5. AttendInv
  BY DEF Init, AttendInv
<1> QED BY <1>3, <1>4, <1>5 DEF LossInv

LEMMA LossStep == TypeInv /\ LossInv /\ [Next]_vars => LossInv'
<1> SUFFICES ASSUME TypeInv, LossInv, [Next]_vars, cuts' = 0
             PROVE  Attempt' /\ Wanted' /\ AttendInv'
  BY DEF LossInv
<1>1. cuts = 0
  <2>0. cuts \in Nat
    BY DEF TypeInv, OtherTypes
  <2>1. cuts' = cuts \/ cuts' = cuts + 1
    <3>1. CASE CloseDisable
      BY <3>1 DEF CloseDisable
    <3>2. CASE \E t \in {App} \cup Reconnectors : InitStep(t)
      BY <3>2 DEF InitStep, InitEnter, InitGate, InitSwap, InitMark, DialFails, Backoff, BackoffEnds, InitGivesUp,
         DialSucceeds, ReplaceHandle, PublishOpen, InstallActor, FlushTake, FlushHandle, FlushWrite, FlushFails,
         SendPeek, InitFinish, history
    <3>3. CASE \E t \in Threads \ {Overflow} : SendStep(t)
      BY <3>3 DEF SendStep, SendReady, SendHandle, Enqueue, SendWrite, SendFails, SendBroken, SendLost, SendReport,
         history
    <3>4. CASE \E c \in Conns : ActorStep(c)
      BY <3>4 DEF ActorStep, ActorFrame, ActorFails, ActorMarksClosed, ActorStops, ActorExits, ActorReports, history
    <3>5. CASE AppInit \/ (CloseStep /\ ~CloseDisable) \/ (\E r \in Reconnectors : ReconnectStep(r))
               \/ OverflowBegins \/ OverflowMark \/ OverflowCut \/ UNCHANGED vars
      BY <3>5 DEF AppInit, CloseStep, AppClose, CloseMark, CloseRelease, CloseTake, CloseClosed, CloseNotify,
         ReconnectStep, ReconnectLoop, ReconnectWaited, ReconnectRecheck, ReconnectSettle,
         OverflowBegins, OverflowMark, OverflowCut, history, vars
    <3> QED BY <3>1, <3>2, <3>3, <3>4, <3>5 DEF Next
  <2> QED BY <2>0, <2>1
<1>2. Attempt /\ Wanted /\ AttendInv
  BY <1>1 DEF LossInv
<1>3. Wanted'
  BY <1>1, <1>2, WantedStep
<1>4. CASE UNCHANGED vars
  <2>1. Attempt'
    BY <1>2, <1>4 DEF vars, shared, actors, threads, history, Attempt, Apart, Numbered, LiveOrComing, Honest,
       Late, Dialling, InInit
  <2>2. AttendInv'
    BY <1>2, <1>4 DEF vars, shared, actors, threads, history, AttendInv, Attended, Late, Dialling, InInit
  <2> QED BY <1>3, <2>1, <2>2
<1>5. CASE Next
  <2>1. Attempt'
    BY <1>2, <1>5, AttemptInitStep, AttemptSendStep, AttemptOtherStep DEF Next
  <2>2. AttendInv'
    BY <1>2, <1>5, AttendInitStep, AttendSendStep, AttendReconnectStep, AttendOtherStep DEF Next
  <2> QED BY <1>3, <2>1, <2>2
<1> QED BY <1>4, <1>5

LEMMA WsSafe == Spec => [](TypeInv /\ LossInv)
<1>1. Init => TypeInv /\ LossInv
  BY ThreadInit, CriticalInit, CountInit, TypeInit, LossInit DEF TypeInv
<1>2. TypeInv /\ LossInv /\ [Next]_vars => TypeInv' /\ LossInv'
  BY TypeStep, LossStep
<1> QED BY <1>1, <1>2, PTL DEF Spec

(* However a connection is lost - a write that fails, the stream that ends, the *)
(* handler of a full backlog, a close() - and however many threads notice it:   *)
(* while it is wanted, and nothing has failed, somebody still has to attend to  *)
(* it (disconnect_and_close, on_close and reconnect, websocket/core.rs).        *)
THEOREM LossesAreAttended == Spec => []LossIsAttended
<1>1. TypeInv /\ LossInv => LossIsAttended
  <2> SUFFICES ASSUME TypeInv, LossInv, cuts = 0, Unattended, ~failed PROVE FALSE
    BY DEF LossIsAttended, TypeInv, OtherTypes
  <2>1. connId \in Conns /\ shouldReconnect
    BY TypesFollow DEF Unattended, TypeOK, Conns
  <2>2. Attended
    BY <2>1 DEF LossInv, AttendInv, Unattended, Conns
  <2>3. actor[connId] \in {"none", "gone"}
    BY <2>1 DEF Unattended
  <2>4. \A t \in Threads : at[t] \in {"idle", "none", "sent", "refused"}
    BY DEF Unattended, Resting
  <2> QED BY <2>2, <2>3, <2>4 DEF Attended, Alive, Early, Entering
<1> QED BY <1>1, WsSafe, PTL

(* When nothing is in motion, an Open status has a running actor behind it that *)
(* the handle reaches, whichever calls of init(), close() and reconnect() have  *)
(* crossed before, but for a close() that cut into a reconnect.                 *)
THEOREM OpenStaysTrue == Spec => []OpenMeansUp
<1>1. TypeInv /\ LossInv => OpenMeansUp
  <2> SUFFICES ASSUME TypeInv, LossInv, cuts = 0, Settled, status = "Open" PROVE Up /\ io = connId
    BY DEF OpenMeansUp
  <2>1. \A t \in Threads : at[t] \in {"idle", "none", "sent", "refused"}
    BY DEF Settled, Resting
  <2>2. connId \in Conns /\ actor[connId] \in Alive
    BY <2>1 DEF LossInv, Attempt, LiveOrComing
  <2>3. actor[connId] = "running" /\ ~ActorMustStop(connId)
    BY <2>2 DEF Settled, Alive
  <2>4. ~Orphaned(connId)
    BY <2>3 DEF ActorMustStop
  <2>5. io = connId
    BY <2>1, <2>4 DEF Orphaned
  <2>6. connId > 0
    BY <2>2 DEF Conns
  <2> QED BY <2>3, <2>5, <2>6 DEF Up
<1> QED BY <1>1, WsSafe, PTL

=============================================================================
