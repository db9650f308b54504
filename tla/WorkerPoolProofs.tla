-------------------------- MODULE WorkerPoolProofs --------------------------
(***************************************************************************)
(* Theorems about WorkerPool for every number of workers, every tracker    *)
(* and every number of pieces.                                             *)
(***************************************************************************)
EXTENDS WorkerPool, FiniteSetTheorems, SequenceTheorems, FunctionTheorems, TLAPS

-----------------------------------------------------------------------------
(* Lemmas on the operators of the model.                                   *)

\* A thread that goes to a label is there and nowhere else.
LEMMA ThoseAfterGoTo ==
    ASSUME pc \in [Workers -> WorkerLabels], NEW w \in Workers, NEW label,
           GoTo(w, label), NEW other
    PROVE  Those(other)' = IF other = label THEN Those(other) \union {w}
                           ELSE Those(other) \ {w}
PROOF
  BY DEF Those, GoTo

\* The threads at a label are finitely many.
LEMMA ThoseFinite ==
    ASSUME NEW label
    PROVE  /\ IsFiniteSet(Those(label))
           /\ Cardinality(Those(label)) \in Nat
PROOF
<1>1. Those(label) \in SUBSET Workers
  BY DEF Those
<1> QED
  BY <1>1, WorkersAssumption, FS_Subset, FS_CardinalityType

\* terminate's dummies are peers, one for each thread.
LEMMA DummiesProperties ==
    /\ Dummies \in Seq(Ips)
    /\ Len(Dummies) = Cardinality(Workers)
    /\ \A i \in DOMAIN Dummies : Dummies[i] = DummyIp
PROOF
<1>1. Cardinality(Workers) \in Nat
  BY WorkersAssumption, FS_CardinalityType
<1>2. DummyIp \in Ips
  BY DEF Ips
<1> QED
  BY <1>1, <1>2 DEF Dummies

\* The positions of dummies in a sequence of peers.
DummiesOf(s) == {i \in DOMAIN s : s[i] = DummyIp}

LEMMA DummiesOfFinite ==
    ASSUME NEW s \in Seq(Ips)
    PROVE  /\ IsFiniteSet(DummiesOf(s))
           /\ Cardinality(DummiesOf(s)) \in Nat
PROOF
<1>1. DummiesOf(s) \in SUBSET (1 .. Len(s))
  BY DEF DummiesOf
<1>2. IsFiniteSet(1 .. Len(s))
  BY FS_Interval, LenProperties
<1> QED
  BY <1>1, <1>2, FS_Subset, FS_CardinalityType

\* One dummy less in the tail of a sequence that begins with one.
LEMMA DummiesOfTail ==
    ASSUME NEW s \in Seq(Ips), s # <<>>
    PROVE  Cardinality(DummiesOf(Tail(s))) =
               Cardinality(DummiesOf(s)) - (IF Head(s) = DummyIp THEN 1 ELSE 0)
PROOF
<1> DEFINE later == DummiesOf(s) \ {1}
           up == [i \in DummiesOf(Tail(s)) |-> i + 1]
<1>1. /\ Len(s) \in Nat \ {0}
      /\ Tail(s) \in Seq(Ips)
      /\ Len(Tail(s)) = Len(s) - 1
      /\ \A i \in 1 .. Len(s) - 1 : Tail(s)[i] = s[i + 1]
      /\ Head(s) = s[1]
  BY HeadTailProperties, EmptySeq, LenProperties
<1>2. up \in Bijection(DummiesOf(Tail(s)), later)
  <2>1. ASSUME NEW i \in DummiesOf(Tail(s))
        PROVE  i \in Int /\ up[i] = i + 1 /\ up[i] \in later
    BY <1>1 DEF DummiesOf
  <2>2. ASSUME NEW j \in later
        PROVE  \E i \in DummiesOf(Tail(s)) : up[i] = j
    <3>1. j - 1 \in DummiesOf(Tail(s)) /\ up[j - 1] = j
      BY <1>1 DEF DummiesOf
    <3> QED
      BY <3>1
  <2>3. \A i, j \in DummiesOf(Tail(s)) : up[i] = up[j] => i = j
    BY <2>1
  <2> HIDE DEF later
  <2> QED
    BY <2>1, <2>2, <2>3, Fun_IsBij
<1>3. Cardinality(later) = Cardinality(DummiesOf(Tail(s)))
  BY <1>1, <1>2, FS_Bijection, DummiesOfFinite DEF ExistsBijection
<1>4. Cardinality(later) =
          IF 1 \in DummiesOf(s) THEN Cardinality(DummiesOf(s)) - 1
          ELSE Cardinality(DummiesOf(s))
  BY DummiesOfFinite, FS_RemoveElement
<1>5. 1 \in DummiesOf(s) <=> Head(s) = DummyIp
  BY <1>1 DEF DummiesOf
<1>6. Cardinality(DummiesOf(s)) \in Nat
  BY DummiesOfFinite
<1> HIDE DEF later
<1> QED
  BY <1>3, <1>4, <1>5, <1>6

\* One more if a dummy is appended.
LEMMA DummiesOfAppend ==
    ASSUME NEW s \in Seq(Ips)
    PROVE  Cardinality(DummiesOf(Append(s, DummyIp))) = Cardinality(DummiesOf(s)) + 1
PROOF
<1>1. Len(s) \in Nat /\ DummyIp \in Ips
  BY LenProperties DEF Ips
<1>2. DummiesOf(Append(s, DummyIp)) = DummiesOf(s) \union {Len(s) + 1}
  BY <1>1 DEF DummiesOf
<1>3. Len(s) + 1 \notin DummiesOf(s)
  BY <1>1 DEF DummiesOf
<1> QED
  BY <1>2, <1>3, DummiesOfFinite, FS_AddElement

-----------------------------------------------------------------------------
(* Type correctness.                                                       *)

LEMMA TypeInit == Init => TypeOK
PROOF
<1> SUFFICES ASSUME Init PROVE TypeOK
  OBVIOUS
<1>1. /\ pc \in [Workers -> WorkerLabels]
      /\ main \in MainLabels
      /\ stopped \in SUBSET Workers
  BY DEF Init, WorkerLabels, MainLabels
<1>3. due \in BOOLEAN /\ ending \in BOOLEAN
  BY DEF Init
<1>4. have \in Nat
  BY DEF Init
<1>2. queue \in Seq(Ips) /\ toPush \in Seq(Ips)
  BY EmptySeq DEF Init
<1> QED
  BY <1>1, <1>2, <1>3, <1>4 DEF TypeOK

LEMMA TypeStep == TypeOK /\ [Next]_vars => TypeOK'
PROOF
<1> SUFFICES ASSUME TypeOK, [Next]_vars PROVE TypeOK'
  OBVIOUS
<1> USE DEF TypeOK, mainVars, At, GoTo, WorkerLabels, MainLabels
<1>1. ASSUME NEW w \in Workers, OuterTest(w)
      PROVE  TypeOK'
  BY <1>1 DEF OuterTest
<1>2. ASSUME NEW w \in Workers, PopFront(w)
      PROVE  TypeOK'
  <2>1. queue' \in Seq(Ips)
    BY <1>2, HeadTailProperties DEF PopFront, Take
  <2> QED
    BY <1>2, <2>1 DEF PopFront, Take
<1>3. ASSUME NEW w \in Workers, Wait(w) \/ WakeSpuriously(w)
      PROVE  TypeOK'
  BY <1>3 DEF Wait, WakeSpuriously
<1>4. ASSUME NEW w \in Workers, Establish(w) \/ ConnectionFails(w) \/ SessionEnds(w)
      PROVE  TypeOK'
  BY <1>4 DEF Establish, ConnectionFails, SessionEnds
<1>5. ASSUME NEW w \in Workers, PublishPiece(w) \/ SessionExits(w)
      PROVE  TypeOK'
  BY <1>5, PoolAssumption DEF PublishPiece, SessionExits
<1>6. CASE LoopEnds
  BY <1>6, DummiesProperties DEF LoopEnds, MainGoesOn
<1>7. CASE PushBack
  <2>1. queue' \in Seq(Ips) /\ toPush' \in Seq(Ips)
    BY <1>7, HeadTailProperties DEF PushBack
  <2> QED
    BY <1>7, <2>1 DEF PushBack
<1>8. CASE NotifyOne
  <2>1. \A w \in Those("waiting") : w \in Workers
    BY DEF Those
  <2> QED
    BY <1>8, <2>1 DEF NotifyOne
<1>9. CASE AllPushed \/ AllStopped \/ Join
  BY <1>9 DEF AllPushed, AllStopped, Join, MainGoesOn
<1>10. ASSUME NEW w \in Workers, Stop(w)
       PROVE  TypeOK'
  BY <1>10 DEF Stop
<1>11. CASE LoopAsks \/ AnswerEmpty \/ AnswerThrows
  BY <1>11 DEF LoopAsks, AnswerEmpty, AnswerThrows, MainGoesOn
<1>12. CASE Answer
  BY <1>12, ListsAssumption DEF Answer, MainGoesOn
<1>13. CASE Clear
  <2>1. queue' \in Seq(Ips)
    BY <1>13, EmptySeq DEF Clear
  <2> QED
    BY <1>13, <2>1 DEF Clear
<1>14. CASE Minute
  BY <1>14 DEF Minute
<1>15. CASE UNCHANGED vars
  BY <1>15 DEF vars
<1> QED
  BY <1>1, <1>2, <1>3, <1>4, <1>5, <1>6, <1>7, <1>8, <1>9, <1>10, <1>11, <1>12,
     <1>13, <1>14, <1>15
  DEF Next, InQueue, InConnection, Terminate, AskTracker, Finished

\* Every variable keeps its type, for every pool and every tracker, and however
\* often pieces are published.
THEOREM TypeCorrect == Spec => []TypeOK
PROOF
  BY TypeInit, TypeStep, PTL DEF Spec

-----------------------------------------------------------------------------
(* Wakeups.  Whoever takes a peer was awake for it or leaves one to those   *)
(* that are; whoever adds one is about to notify.  No strengthening is      *)
(* needed.                                                                 *)

\* What the invariant compares: the threads awake, and main's own part.
Awake == Cardinality(Those("awake"))
AboutToNotify == IF main = "notify" THEN 1 ELSE 0

LEMMA WakeupInit == Init => NoLostWakeup
PROOF
  BY DEF Init, NoLostWakeup, Those

\* A step that leaves the queue, the two sets of threads and the notification
\* alone, or empties the queue, keeps the invariant.
LEMMA WakeupUndisturbed ==
    ASSUME TypeOK, NoLostWakeup,
           \/ /\ queue' = queue
              /\ Those("waiting")' \subseteq Those("waiting")
              /\ Awake' = Awake
              /\ AboutToNotify' = AboutToNotify
           \/ /\ queue' = <<>>
              /\ Awake' \in Nat
    PROVE  NoLostWakeup'
PROOF
<1>1. CASE /\ queue' = queue
           /\ Those("waiting")' \subseteq Those("waiting")
           /\ Awake' = Awake
           /\ AboutToNotify' = AboutToNotify
  BY <1>1 DEF NoLostWakeup, Awake, AboutToNotify
<1>2. CASE queue' = <<>> /\ Awake' \in Nat
  <2>1. Len(queue') = 0
    BY <1>2
  <2> QED
    BY <1>2, <2>1 DEF NoLostWakeup, Awake
<1> QED
  BY <1>1, <1>2

LEMMA WakeupStep == TypeOK /\ TypeOK' /\ NoLostWakeup /\ [Next]_vars => NoLostWakeup'
PROOF
<1> SUFFICES ASSUME TypeOK, TypeOK', NoLostWakeup, [Next]_vars PROVE NoLostWakeup'
  OBVIOUS
<1>a. /\ pc \in [Workers -> WorkerLabels]
      /\ queue \in Seq(Ips) /\ queue' \in Seq(Ips)
      /\ Len(queue) \in Nat /\ Len(queue') \in Nat
  BY LenProperties DEF TypeOK
<1>b. /\ IsFiniteSet(Those("awake")) /\ Awake \in Nat
      /\ IsFiniteSet(Those("awake")') /\ Awake' \in Nat
  <2>1. Those("awake") \in SUBSET Workers /\ Those("awake")' \in SUBSET Workers
    BY DEF Those
  <2> QED
    BY <2>1, WorkersAssumption, FS_Subset, FS_CardinalityType DEF Awake
\* A thread that neither is awake nor waits, before the step and after it.
<1>c. ASSUME NEW w \in Workers, NEW label \in WorkerLabels, GoTo(w, label),
             pc[w] \notin {"awake", "waiting"}, label \notin {"awake", "waiting"},
             UNCHANGED <<main, queue>>
      PROVE  NoLostWakeup'
  <2>1. /\ Those("awake")' = Those("awake") \ {w}
        /\ Those("waiting")' = Those("waiting") \ {w}
    BY <1>a, <1>c, ThoseAfterGoTo
  <2>2. w \notin Those("awake") /\ w \notin Those("waiting")
    BY <1>c DEF Those
  <2>3. Those("awake")' = Those("awake") /\ Those("waiting")' = Those("waiting")
    BY <2>1, <2>2
  <2> QED
    BY <1>c, <2>3, WakeupUndisturbed DEF Awake, AboutToNotify
<1>d. ASSUME UNCHANGED <<pc, queue>>, main # "notify", main' # "notify"
      PROVE  NoLostWakeup'
  BY <1>d, WakeupUndisturbed DEF Awake, AboutToNotify, Those
<1>1. ASSUME NEW w \in Workers, OuterTest(w)
      PROVE  NoLostWakeup'
  BY <1>1, <1>c DEF OuterTest, At, mainVars, WorkerLabels
<1>2. ASSUME NEW w \in Workers, PopFront(w)
      PROVE  NoLostWakeup'
  <2>1. PICK label \in {"exit", "establish"} : GoTo(w, label)
    BY <1>2 DEF PopFront, Take
  <2>2. /\ Those("awake")' = Those("awake") \ {w}
        /\ Those("waiting")' = Those("waiting") \ {w}
    BY <1>a, <2>1, ThoseAfterGoTo
  <2>3. Awake' = IF pc[w] = "awake" THEN Awake - 1 ELSE Awake
    BY <1>b, <2>2, FS_RemoveElement DEF Awake, Those
  <2>4. Len(queue') = Len(queue) - 1
    BY <1>a, <1>2, HeadTailProperties DEF PopFront, Take
  <2>5. main' = main
    BY <1>2 DEF PopFront, mainVars
  <2> QED
    BY <1>a, <1>b, <2>2, <2>3, <2>4, <2>5 DEF NoLostWakeup, Awake
<1>3. ASSUME NEW w \in Workers, Wait(w)
      PROVE  NoLostWakeup'
  BY <1>3, <1>b, WakeupUndisturbed DEF Wait
<1>4. ASSUME NEW w \in Workers, WakeSpuriously(w)
      PROVE  NoLostWakeup'
  <2>1. /\ Those("awake")' = Those("awake") \union {w}
        /\ Those("waiting")' = Those("waiting") \ {w}
    BY <1>a, <1>4, ThoseAfterGoTo DEF WakeSpuriously
  <2>2. Awake' = Awake + 1
    BY <1>b, <1>4, <2>1, FS_AddElement DEF Awake, Those, WakeSpuriously, At
  <2>3. main' = main /\ queue' = queue
    BY <1>4 DEF WakeSpuriously, mainVars
  <2> QED
    BY <1>a, <1>b, <2>1, <2>2, <2>3 DEF NoLostWakeup, Awake
<1>5. ASSUME NEW w \in Workers, InConnection(w)
      PROVE  NoLostWakeup'
  <2>1. CASE PublishPiece(w)
    BY <2>1, WakeupUndisturbed DEF PublishPiece, mainVars, Awake, AboutToNotify, Those
  <2>2. CASE Establish(w)
    BY <2>2, <1>c DEF Establish, At, mainVars, WorkerLabels
  <2>3. CASE ConnectionFails(w)
    BY <2>3, <1>c DEF ConnectionFails, At, mainVars, WorkerLabels
  <2>4. CASE SessionEnds(w) \/ SessionExits(w)
    BY <2>4, <1>c DEF SessionEnds, SessionExits, At, mainVars, WorkerLabels
  <2> QED
    BY <1>5, <2>1, <2>2, <2>3, <2>4 DEF InConnection
<1>6. CASE PushBack
  <2>1. Len(queue') = Len(queue) + 1
    BY <1>6, <1>a DEF PushBack
  <2>2. main = "push" /\ main' = "notify" /\ pc' = pc
    BY <1>6 DEF PushBack
  <2>3. Those("waiting")' = Those("waiting") /\ Those("awake")' = Those("awake")
    BY <2>2 DEF Those
  <2> QED
    BY <1>a, <1>b, <2>1, <2>2, <2>3 DEF NoLostWakeup, Awake
<1>7. CASE NotifyOne
  <2>1. main = "notify" /\ main' = "push" /\ queue' = queue
    BY <1>7 DEF NotifyOne
  <2>2. CASE Those("waiting") = {} /\ UNCHANGED pc
    BY <2>2 DEF NoLostWakeup, Those
  <2>3. ASSUME NEW w \in Those("waiting"), GoTo(w, "awake")
        PROVE  NoLostWakeup'
    <3>1. w \in Workers /\ w \notin Those("awake")
      BY <2>3 DEF Those
    <3>2. Those("awake")' = Those("awake") \union {w}
      BY <1>a, <2>3, <3>1, ThoseAfterGoTo
    <3>3. Awake' = Awake + 1
      BY <1>b, <3>1, <3>2, FS_AddElement DEF Awake
    <3> QED
      BY <1>a, <1>b, <2>1, <2>3, <3>3 DEF NoLostWakeup, Awake
  <2> QED
    BY <1>7, <2>2, <2>3 DEF NotifyOne
<1>8. CASE LoopEnds \/ AllPushed \/ AllStopped \/ Join
  BY <1>8, <1>d DEF LoopEnds, AllPushed, AllStopped, Join, MainGoesOn
<1>9. CASE LoopAsks \/ AnswerEmpty \/ Answer \/ AnswerThrows
  BY <1>9, <1>d DEF LoopAsks, AnswerEmpty, Answer, AnswerThrows, MainGoesOn
<1>10. CASE Clear
  BY <1>10, <1>b, WakeupUndisturbed DEF Clear
<1>11. CASE Minute \/ (\E w \in Workers : Stop(w)) \/ UNCHANGED vars
  BY <1>11, WakeupUndisturbed DEF Minute, Stop, vars, Awake, AboutToNotify, Those
<1> QED
  BY <1>1, <1>2, <1>3, <1>4, <1>5, <1>6, <1>7, <1>8, <1>9, <1>10, <1>11
  DEF Next, InQueue, Terminate, AskTracker, Finished

\* While a thread waits in pop_front, every peer in the queue has a thread on
\* its way to it or main is about to wake one.
THEOREM NoWakeupIsLost == Spec => []NoLostWakeup
PROOF
<1>1. TypeOK /\ NoLostWakeup /\ [Next]_vars => (TypeOK /\ NoLostWakeup)'
  BY TypeStep, WakeupStep
<1> QED
  BY <1>1, TypeInit, WakeupInit, PTL DEF Spec

-----------------------------------------------------------------------------
(* Dummies.  The invariant needs to know that main no longer clears the     *)
(* queue once it is in terminate, and that all it pushes then are dummies.  *)

Alive == Cardinality(Workers \ Those("exit"))
Queued == Cardinality(DummiesOf(queue))

EndingInv == /\ main \in {"test", "ask", "clear"} => ~ending
             /\ ending => \A i \in DOMAIN toPush : toPush[i] = DummyIp

DummyInv == EndingInv /\ (ending => Alive <= Queued + Len(toPush))

LEMMA DummyInvImplies == DummyInv => DummyForEach
PROOF
  BY DEF DummyInv, DummyForEach, Alive, Queued, DummiesOf, DummiesQueued

LEMMA DummyInit == Init => DummyInv
PROOF
  BY DEF Init, DummyInv, EndingInv

LEMMA DummyStep == TypeOK /\ TypeOK' /\ DummyInv /\ [Next]_vars => DummyInv'
PROOF
<1> SUFFICES ASSUME TypeOK, TypeOK', DummyInv, [Next]_vars PROVE DummyInv'
  OBVIOUS
<1>a. /\ pc \in [Workers -> WorkerLabels]
      /\ queue \in Seq(Ips) /\ queue' \in Seq(Ips)
      /\ toPush \in Seq(Ips) /\ toPush' \in Seq(Ips)
      /\ Len(toPush) \in Nat /\ Len(toPush') \in Nat
      /\ Queued \in Nat /\ Queued' \in Nat
  BY LenProperties, DummiesOfFinite DEF TypeOK, Queued
<1>b. /\ IsFiniteSet(Workers \ Those("exit"))
      /\ Alive \in Nat /\ Alive' \in Nat
      /\ Alive <= Cardinality(Workers)
  <2>1. /\ Workers \ Those("exit") \in SUBSET Workers
        /\ Workers \ Those("exit")' \in SUBSET Workers
    OBVIOUS
  <2> QED
    BY <2>1, WorkersAssumption, FS_Subset, FS_CardinalityType DEF Alive
\* A thread that has not returned moves: the threads alive are as many as
\* before, or one less if it returns.
<1>c. ASSUME NEW w \in Workers, NEW label, GoTo(w, label), pc[w] # "exit"
      PROVE  Alive' = IF label = "exit" THEN Alive - 1 ELSE Alive
  <2>1. Those("exit")' = IF label = "exit" THEN Those("exit") \union {w}
                         ELSE Those("exit") \ {w}
    BY <1>a, <1>c, ThoseAfterGoTo
  <2>2. w \notin Those("exit")
    BY <1>c DEF Those
  <2>3. Workers \ Those("exit")' =
            IF label = "exit" THEN (Workers \ Those("exit")) \ {w}
            ELSE Workers \ Those("exit")
    BY <2>1, <2>2
  <2>4. w \in Workers \ Those("exit")
    BY <2>2
  <2> QED
    BY <1>b, <2>3, <2>4, FS_RemoveElement DEF Alive
<1>d. ASSUME UNCHANGED <<mainVars, queue>>, Alive' <= Alive
      PROVE  DummyInv'
  BY <1>a, <1>b, <1>d DEF DummyInv, EndingInv, Queued, mainVars
<1>e. ASSUME UNCHANGED pc
      PROVE  Alive' = Alive
  BY <1>e DEF Alive, Those
<1>1. ASSUME NEW w \in Workers, OuterTest(w)
      PROVE  DummyInv'
  BY <1>1, <1>b, <1>c, <1>d DEF OuterTest, At
<1>2. ASSUME NEW w \in Workers, PopFront(w)
      PROVE  DummyInv'
  <2>1. /\ queue # <<>> /\ queue' = Tail(queue)
        /\ GoTo(w, IF Head(queue) = DummyIp THEN "exit" ELSE "establish")
        /\ UNCHANGED mainVars
        /\ pc[w] # "exit"
    BY <1>2 DEF PopFront, Take, At
  <2>2. Alive' = IF Head(queue) = DummyIp THEN Alive - 1 ELSE Alive
    BY <1>c, <2>1
  <2>3. Queued' = Queued - (IF Head(queue) = DummyIp THEN 1 ELSE 0)
    BY <1>a, <2>1, DummiesOfTail DEF Queued
  <2> QED
    BY <1>a, <1>b, <2>1, <2>2, <2>3 DEF DummyInv, EndingInv, mainVars
<1>3. ASSUME NEW w \in Workers, Wait(w) \/ WakeSpuriously(w)
      PROVE  DummyInv'
  BY <1>3, <1>b, <1>c, <1>d DEF Wait, WakeSpuriously, At
<1>4. ASSUME NEW w \in Workers, InConnection(w)
      PROVE  DummyInv'
  <2>1. CASE PublishPiece(w)
    BY <2>1, <1>b, <1>d, <1>e DEF PublishPiece
  <2>2. CASE Establish(w) \/ ConnectionFails(w)
    BY <2>2, <1>b, <1>c, <1>d DEF Establish, ConnectionFails, At
  <2>3. CASE SessionEnds(w) \/ SessionExits(w)
    BY <2>3, <1>b, <1>c, <1>d DEF SessionEnds, SessionExits, At
  <2> QED
    BY <1>4, <2>1, <2>2, <2>3 DEF InConnection
<1>5. CASE LoopEnds
  <2>1. /\ toPush' = Dummies /\ main' = "push"
        /\ queue' = queue /\ pc' = pc
    BY <1>5 DEF LoopEnds, MainGoesOn
  <2>2. Len(toPush') = Cardinality(Workers)
    BY <2>1, DummiesProperties
  <2>3. EndingInv'
    BY <2>1, DummiesProperties DEF EndingInv
  <2>4. Cardinality(Workers) \in Nat
    BY WorkersAssumption, FS_CardinalityType
  <2> QED
    BY <1>a, <1>b, <1>e, <2>1, <2>2, <2>3, <2>4 DEF DummyInv
<1>6. CASE PushBack
  <2>1. /\ toPush # <<>> /\ toPush' = Tail(toPush)
        /\ queue' = Append(queue, Head(toPush))
        /\ main' = "notify" /\ ending' = ending /\ pc' = pc
    BY <1>6 DEF PushBack
  <2>2. /\ Len(toPush) \in Nat \ {0}
        /\ Len(toPush') = Len(toPush) - 1
        /\ Head(toPush) = toPush[1]
        /\ DOMAIN toPush = 1 .. Len(toPush) /\ DOMAIN toPush' = 1 .. Len(toPush')
        /\ \A i \in 1 .. Len(toPush') : toPush'[i] = toPush[i + 1]
    BY <1>a, <2>1, HeadTailProperties, EmptySeq, LenProperties
  <2>3. CASE ~ending
    BY <2>1, <2>3 DEF DummyInv, EndingInv
  <2>4. CASE ending
    <3>1. \A i \in DOMAIN toPush : toPush[i] = DummyIp
      BY <2>4 DEF DummyInv, EndingInv
    <3>2. \A i \in DOMAIN toPush' : toPush'[i] = DummyIp
      BY <2>2, <3>1
    <3>3. Head(toPush) = DummyIp
      BY <2>2, <3>1
    <3>4. Queued' = Queued + 1
      BY <1>a, <2>1, <3>3, DummiesOfAppend DEF Queued
    <3>5. EndingInv'
      BY <2>1, <3>2 DEF EndingInv
    <3> QED
      BY <1>a, <1>b, <1>e, <2>1, <2>2, <2>4, <3>4, <3>5 DEF DummyInv
  <2> QED
    BY <2>3, <2>4
<1>7. CASE NotifyOne
  <2>1. /\ UNCHANGED <<queue, toPush, ending>> /\ main' = "push"
    BY <1>7 DEF NotifyOne
  <2>2. Alive' = Alive
    <3>1. CASE UNCHANGED pc
      BY <3>1, <1>e
    <3>2. ASSUME NEW w \in Those("waiting"), GoTo(w, "awake")
          PROVE  Alive' = Alive
      <4>1. w \in Workers /\ pc[w] # "exit"
        BY DEF Those
      <4> QED
        BY <3>2, <4>1, <1>c
    <3> QED
      BY <1>7, <3>1, <3>2 DEF NotifyOne
  <2>3. Queued' = Queued
    BY <2>1 DEF Queued
  <2> QED
    BY <1>a, <1>b, <2>1, <2>2, <2>3 DEF DummyInv, EndingInv
<1>8. CASE AllPushed
  <2>1. /\ UNCHANGED <<queue, toPush, ending, pc>>
        /\ main' = IF ending THEN "stop" ELSE "test"
    BY <1>8 DEF AllPushed, MainGoesOn
  <2>2. Queued' = Queued /\ Alive' = Alive
    BY <2>1, <1>e DEF Queued
  <2> QED
    BY <2>1, <2>2 DEF DummyInv, EndingInv
<1>9. CASE AllStopped \/ Join
  <2>1. /\ UNCHANGED <<queue, toPush, ending, pc>>
        /\ main' \in {"join", "done"}
    BY <1>9 DEF AllStopped, Join, MainGoesOn
  <2>2. Queued' = Queued /\ Alive' = Alive
    BY <2>1, <1>e DEF Queued
  <2> QED
    BY <2>1, <2>2 DEF DummyInv, EndingInv
<1>10. CASE LoopAsks \/ AnswerEmpty \/ Answer \/ AnswerThrows \/ Clear
  <2>1. ~ending /\ ending' = ending
    BY <1>10 DEF LoopAsks, AnswerEmpty, Answer, AnswerThrows, Clear, DummyInv, EndingInv
  <2> QED
    BY <2>1 DEF DummyInv, EndingInv
<1>11. ASSUME NEW w \in Workers, Stop(w)
       PROVE  DummyInv'
  <2>1. UNCHANGED <<queue, toPush, ending, pc, main>>
    BY <1>11 DEF Stop
  <2>2. Queued' = Queued /\ Alive' = Alive
    BY <2>1, <1>e DEF Queued
  <2> QED
    BY <2>1, <2>2 DEF DummyInv, EndingInv
<1>12. CASE Minute \/ UNCHANGED vars
  <2>1. UNCHANGED <<queue, toPush, ending, pc, main>>
    BY <1>12 DEF Minute, vars
  <2>2. Queued' = Queued /\ Alive' = Alive
    BY <2>1, <1>e DEF Queued
  <2> QED
    BY <2>1, <2>2 DEF DummyInv, EndingInv
<1> QED
  BY <1>1, <1>2, <1>3, <1>4, <1>5, <1>6, <1>7, <1>8, <1>9, <1>10, <1>11, <1>12
  DEF Next, InQueue, Terminate, AskTracker, Finished

\* From the end of the loop on every thread that has not returned has a dummy
\* in the queue or among those still to be pushed.
THEOREM EveryThreadHasADummy == Spec => []DummyForEach
PROOF
<1>1. TypeOK /\ DummyInv /\ [Next]_vars => (TypeOK /\ DummyInv)'
  BY TypeStep, DummyStep
<1> QED
  BY <1>1, TypeInit, DummyInit, DummyInvImplies, PTL DEF Spec

-----------------------------------------------------------------------------
(* The two together.  When main has pushed all it had, the dummies that are *)
(* in the queue are as many as the threads that have not returned, and were *)
(* one of these waiting, as few as those of them that are awake.            *)

EndedInv == main \in {"stop", "join"} => ending /\ toPush = <<>>

LEMMA EndedStep == EndedInv /\ [Next]_vars => EndedInv'
PROOF
<1> SUFFICES ASSUME EndedInv, [Next]_vars PROVE EndedInv'
  OBVIOUS
<1>1. ASSUME NEW w \in Workers, InQueue(w) \/ WakeSpuriously(w) \/ InConnection(w)
      PROVE  UNCHANGED mainVars
  BY <1>1 DEF InQueue, OuterTest, PopFront, Wait, WakeSpuriously, InConnection, Establish,
              ConnectionFails, SessionEnds, PublishPiece, SessionExits
<1>2. CASE Terminate
  BY <1>2 DEF Terminate, LoopEnds, PushBack, NotifyOne, AllPushed, Stop, AllStopped, Join,
              EndedInv
<1>3. CASE AskTracker
  BY <1>3 DEF AskTracker, LoopAsks, AnswerEmpty, Answer, AnswerThrows, Clear, EndedInv
<1>4. CASE Minute \/ UNCHANGED vars
  BY <1>4 DEF Minute, vars, EndedInv
<1> QED
  BY <1>1, <1>2, <1>3, <1>4 DEF Next, Finished, mainVars, EndedInv

LEMMA NoneWaits == TypeOK /\ NoLostWakeup /\ DummyInv /\ EndedInv => NoneWaitsAtJoin
PROOF
<1> SUFFICES ASSUME TypeOK, NoLostWakeup, DummyInv, EndedInv, main \in {"stop", "join"},
                    NEW w \in Those("waiting")
             PROVE  FALSE
  BY DEF NoneWaitsAtJoin
<1>1. /\ IsFiniteSet(Workers \ Those("exit"))
      /\ Alive \in Nat
  <2>1. Workers \ Those("exit") \in SUBSET Workers
    OBVIOUS
  <2> QED
    BY <2>1, WorkersAssumption, FS_Subset, FS_CardinalityType DEF Alive
\* Those that are awake are among the threads that are left without w.
<1>2. Awake \in Nat /\ Awake <= Alive - 1
  <2>1. w \in Workers \ Those("exit") /\ Those("awake") \subseteq (Workers \ Those("exit")) \ {w}
    BY DEF Those
  <2>2. /\ IsFiniteSet((Workers \ Those("exit")) \ {w})
        /\ Cardinality((Workers \ Those("exit")) \ {w}) = Alive - 1
    BY <1>1, <2>1, FS_RemoveElement DEF Alive
  <2>3. Cardinality(Those("awake")) <= Cardinality((Workers \ Those("exit")) \ {w})
    BY <2>1, <2>2, FS_Subset
  <2> QED
    BY <2>2, <2>3, ThoseFinite DEF Awake
\* They are as many as the peers in the queue, at least.
<1>3. Len(queue) \in Nat /\ Len(queue) <= Awake
  BY <1>2, LenProperties DEF TypeOK, NoLostWakeup, Awake
\* Which are as many as the dummies, and these as the threads that are left.
<1>4. Queued \in Nat /\ Queued <= Len(queue)
  <2>1. DummiesOf(queue) \in SUBSET (1 .. Len(queue))
    BY DEF DummiesOf, TypeOK
  <2>2. IsFiniteSet(1 .. Len(queue)) /\ Cardinality(1 .. Len(queue)) = Len(queue)
    <3> DEFINE n == Len(queue)
    <3>1. n \in Nat /\ n \in Int
      BY <1>3
    <3> HIDE DEF n
    <3>2. /\ IsFiniteSet(1 .. n)
          /\ Cardinality(1 .. n) = IF 1 <= n THEN n - 1 + 1 ELSE 0
      BY <3>1, FS_Interval
    <3>3. Cardinality(1 .. n) = n
      BY <3>1, <3>2
    <3> QED
      BY <3>2, <3>3 DEF n
  <2> QED
    BY <2>1, <2>2, FS_Subset, DummiesOfFinite DEF Queued, TypeOK
<1>5. Alive <= Queued
  BY <1>4 DEF DummyInv, EndedInv
<1> QED
  BY <1>1, <1>2, <1>3, <1>4, <1>5

\* When terminate has pushed its dummies no thread waits in pop_front any
\* more: join never waits for one that nobody wakes.
THEOREM NoThreadLeftWaiting == Spec => []NoneWaitsAtJoin
PROOF
<1> DEFINE PoolInv == TypeOK /\ NoLostWakeup /\ DummyInv /\ EndedInv
<1>1. Init => PoolInv
  BY TypeInit, WakeupInit, DummyInit DEF Init, EndedInv
<1>2. PoolInv /\ [Next]_vars => PoolInv'
  BY TypeStep, WakeupStep, DummyStep, EndedStep
<1>3. PoolInv => NoneWaitsAtJoin
  BY NoneWaits
<1> QED
  BY <1>1, <1>2, <1>3, PTL DEF Spec

-----------------------------------------------------------------------------
(* Peers.  The queue and what is still to be pushed move along one list,    *)
(* which changes only when the queue is cleared for a new answer, or gets   *)
(* the dummies behind it when there is nothing left to push.                *)

\* What PeersOfOneAnswer speaks of.
Rest == IF main = "clear" THEN queue ELSE queue \o toPush
Whole(list) == IF ending THEN list \o Dummies ELSE list

ToPushInv == /\ main \in {"test", "ask"} => toPush = <<>>
             /\ main = "clear" => toPush \in TrackerLists

AnswerInv == PeersOfOneAnswer /\ ToPushInv /\ EndingInv

\* An empty sequence is what is left of any list, and a list of itself.
LEMMA RestOfAny ==
    ASSUME NEW list \in Seq(Ips)
    PROVE  IsRest(<<>>, list) /\ IsRest(list, list)
PROOF
<1>1. Len(list) \in Nat
  BY LenProperties
<1>2. SubSeq(list, Len(list) + 1, Len(list)) = <<>>
  BY <1>1, SubSeqEmpty
<1>3. SubSeq(list, 0 + 1, Len(list)) = list
  BY SubSeqFull
<1>4. Len(list) \in 0 .. Len(list) /\ 0 \in 0 .. Len(list)
  BY <1>1
<1> QED
  BY <1>2, <1>3, <1>4 DEF IsRest

\* What is left is shorter by its head when that is taken.
LEMMA RestTail ==
    ASSUME NEW list \in Seq(Ips), NEW s, s # <<>>, IsRest(s, list)
    PROVE  IsRest(Tail(s), list)
PROOF
<1>1. PICK taken \in 0 .. Len(list) : s = SubSeq(list, taken + 1, Len(list))
  BY DEF IsRest
<1>2. Len(list) \in Nat
  BY LenProperties
<1>3. taken + 1 \in 1 .. Len(list)
  <2>1. taken # Len(list)
    BY <1>1, <1>2, SubSeqEmpty
  <2> QED
    BY <1>2, <2>1
<1>4. Len(list) \in taken + 1 .. Len(list)
  BY <1>2, <1>3
<1>5. Tail(s) = SubSeq(list, (taken + 1) + 1, Len(list))
  BY <1>1, <1>3, <1>4, HeadTailOfSubSeq
<1>6. taken + 1 \in 0 .. Len(list)
  BY <1>3
<1> QED
  BY <1>5, <1>6 DEF IsRest

\* The elements of what is left.
LEMMA RestElements ==
    ASSUME NEW list \in Seq(Ips), NEW taken \in 0 .. Len(list), NEW s,
           s = SubSeq(list, taken + 1, Len(list))
    PROVE  /\ s \in Seq(Ips) /\ Len(s) = Len(list) - taken
           /\ \A i \in 1 .. Len(list) - taken : s[i] = list[taken + i]
PROOF
<1>1. Len(list) \in Nat
  BY LenProperties
<1>2. \A i \in taken + 1 .. Len(list) : list[i] \in Ips
  BY <1>1, ElementOfSeq
<1>3. taken + 1 \in Int /\ Len(list) \in Int
  BY <1>1
<1>4. /\ s \in Seq(Ips)
      /\ Len(s) = IF taken + 1 <= Len(list) THEN Len(list) - (taken + 1) + 1 ELSE 0
      /\ \A i \in 1 .. Len(list) - (taken + 1) + 1 : s[i] = list[(taken + 1) + i - 1]
  BY <1>2, <1>3, SubSeqProperties
<1>5. Len(s) = Len(list) - taken
  BY <1>1, <1>4
<1>6. ASSUME NEW i \in 1 .. Len(list) - taken
      PROVE  s[i] = list[taken + i]
  <2>1. i \in 1 .. Len(list) - (taken + 1) + 1
    BY <1>1
  <2>2. (taken + 1) + i - 1 = taken + i
    BY <1>1
  <2> QED
    BY <1>4, <2>1, <2>2
<1> QED
  BY <1>4, <1>5, <1>6

\* What is put behind a list is behind what is left of it.
LEMMA RestConcat ==
    ASSUME NEW list \in Seq(Ips), NEW s, IsRest(s, list), NEW t \in Seq(Ips)
    PROVE  IsRest(s \o t, list \o t)
PROOF
<1>1. PICK taken \in 0 .. Len(list) : s = SubSeq(list, taken + 1, Len(list))
  BY DEF IsRest
<1> DEFINE both == list \o t
           rest == SubSeq(both, taken + 1, Len(both))
<1>2. Len(list) \in Nat /\ Len(t) \in Nat
  BY LenProperties
<1>3. /\ both \in Seq(Ips) /\ Len(both) = Len(list) + Len(t)
      /\ \A i \in 1 .. Len(list) + Len(t) :
             both[i] = IF i <= Len(list) THEN list[i] ELSE t[i - Len(list)]
  BY ConcatProperties
<1>4. /\ s \in Seq(Ips) /\ Len(s) = Len(list) - taken
      /\ \A i \in 1 .. Len(list) - taken : s[i] = list[taken + i]
  BY <1>1, RestElements
<1>5. /\ s \o t \in Seq(Ips) /\ Len(s \o t) = Len(s) + Len(t)
      /\ \A i \in 1 .. Len(s) + Len(t) :
             (s \o t)[i] = IF i <= Len(s) THEN s[i] ELSE t[i - Len(s)]
  BY <1>4, ConcatProperties
<1>6. /\ rest \in Seq(Ips) /\ Len(rest) = Len(both) - taken
      /\ \A i \in 1 .. Len(both) - taken : rest[i] = both[taken + i]
  <2>1. taken \in 0 .. Len(both)
    BY <1>2, <1>3
  <2> QED
    BY <1>3, <2>1, RestElements
<1> HIDE DEF both, rest
<1>7. Len(s \o t) = Len(rest)
  BY <1>2, <1>3, <1>4, <1>5, <1>6
<1>8. ASSUME NEW i \in 1 .. Len(s \o t)
      PROVE  (s \o t)[i] = rest[i]
  <2>1. /\ rest[i] = both[taken + i]
        /\ taken + i \in 1 .. Len(list) + Len(t)
        /\ i \in 1 .. Len(s) + Len(t)
    BY <1>2, <1>3, <1>4, <1>5, <1>6
  <2>2. CASE i <= Len(s)
    BY <1>2, <1>3, <1>4, <1>5, <2>1, <2>2
  <2>3. CASE ~(i <= Len(s))
    <3>1. ~(taken + i <= Len(list)) /\ (taken + i) - Len(list) = i - Len(s)
      BY <1>2, <1>4, <2>3
    <3> QED
      BY <1>3, <1>5, <2>1, <2>3, <3>1
  <2> QED
    BY <2>2, <2>3
<1>9. s \o t = rest
  BY <1>5, <1>6, <1>7, <1>8, SeqEqual
<1>10. taken \in 0 .. Len(both)
  BY <1>2, <1>3
<1> QED
  BY <1>9, <1>10 DEF IsRest, both, rest

\* An element that moves from the head of one sequence to the end of another.
LEMMA MovedHead ==
    ASSUME NEW s \in Seq(Ips), NEW t \in Seq(Ips), t # <<>>
    PROVE  Append(s, Head(t)) \o Tail(t) = s \o t
PROOF
<1>1. /\ Head(t) \in Ips /\ Tail(t) \in Seq(Ips)
      /\ Len(Tail(t)) = Len(t) - 1
      /\ \A i \in 1 .. Len(Tail(t)) : Tail(t)[i] = t[i + 1]
  BY HeadTailProperties
<1>2. t = <<Head(t)>> \o Tail(t)
  <2>1. Len(t) \in Nat \ {0} /\ 1 \in 1 .. Len(t) /\ Len(t) \in 1 .. Len(t)
    BY EmptySeq
  <2>2. SubSeq(t, 1, Len(t)) = <<t[1]>> \o SubSeq(t, 1 + 1, Len(t))
    BY <2>1, SubSeqRecursiveFirst
  <2>3. /\ Head(SubSeq(t, 1, Len(t))) = t[1]
        /\ Tail(SubSeq(t, 1, Len(t))) = SubSeq(t, 1 + 1, Len(t))
    BY <2>1, HeadTailOfSubSeq
  <2>4. SubSeq(t, 1, Len(t)) = t
    BY SubSeqFull
  <2> QED
    BY <2>2, <2>3, <2>4
<1>3. Append(s, Head(t)) = s \o <<Head(t)>>
  BY <1>1, AppendIsConcat
<1>4. <<Head(t)>> \in Seq(Ips)
  BY <1>1
<1>5. (s \o <<Head(t)>>) \o Tail(t) = s \o (<<Head(t)>> \o Tail(t))
  BY <1>1, <1>4, ConcatAssociative
<1> QED
  BY <1>2, <1>3, <1>5

\* The tail of a concatenation.
LEMMA TailConcat ==
    ASSUME NEW s \in Seq(Ips), s # <<>>, NEW t \in Seq(Ips)
    PROVE  s \o t # <<>> /\ Tail(s) \o t = Tail(s \o t)
PROOF
<1>1. s \o t \in Seq(Ips) /\ s \o t # <<>>
  BY ConcatProperties, ConcatEqualIffEmpty
<1>2. Tail(s) \in Seq(Ips) /\ Len(s) \in Nat \ {0} /\ Len(t) \in Nat
  BY HeadTailProperties, EmptySeq, LenProperties
<1>3. /\ Len(s \o t) = Len(s) + Len(t)
      /\ \A i \in 1 .. Len(s) + Len(t) :
             (s \o t)[i] = IF i <= Len(s) THEN s[i] ELSE t[i - Len(s)]
  BY ConcatProperties
<1>4. /\ Tail(s \o t) \in Seq(Ips) /\ Len(Tail(s \o t)) = Len(s \o t) - 1
      /\ \A i \in 1 .. Len(Tail(s \o t)) : Tail(s \o t)[i] = (s \o t)[i + 1]
  BY <1>1, HeadTailProperties
<1>5. /\ Len(Tail(s)) = Len(s) - 1
      /\ \A i \in 1 .. Len(Tail(s)) : Tail(s)[i] = s[i + 1]
  BY HeadTailProperties
<1>6. /\ Tail(s) \o t \in Seq(Ips) /\ Len(Tail(s) \o t) = Len(Tail(s)) + Len(t)
      /\ \A i \in 1 .. Len(Tail(s)) + Len(t) :
             (Tail(s) \o t)[i] = IF i <= Len(Tail(s)) THEN Tail(s)[i] ELSE t[i - Len(Tail(s))]
  BY <1>2, ConcatProperties
<1>7. Len(Tail(s) \o t) = Len(Tail(s \o t))
  BY <1>2, <1>3, <1>4, <1>5, <1>6
<1>8. ASSUME NEW i \in 1 .. Len(Tail(s) \o t)
      PROVE  (Tail(s) \o t)[i] = Tail(s \o t)[i]
  <2>1. /\ i + 1 \in 1 .. Len(s) + Len(t)
        /\ i \in 1 .. Len(Tail(s)) + Len(t)
        /\ Tail(s \o t)[i] = (s \o t)[i + 1]
    BY <1>2, <1>3, <1>4, <1>5, <1>6
  <2>2. CASE i <= Len(Tail(s))
    BY <1>2, <1>3, <1>5, <1>6, <2>1, <2>2
  <2>3. CASE ~(i <= Len(Tail(s)))
    <3>1. ~(i + 1 <= Len(s)) /\ (i + 1) - Len(s) = i - Len(Tail(s))
      BY <1>2, <1>5, <2>3
    <3> QED
      BY <1>3, <1>6, <2>1, <2>3, <3>1
  <2> QED
    BY <2>2, <2>3
<1>9. Tail(s) \o t = Tail(s \o t)
  BY <1>4, <1>6, <1>7, <1>8, SeqEqual
<1> QED
  BY <1>1, <1>9

LEMMA AnswerInit == Init => AnswerInv
PROOF
<1> SUFFICES ASSUME Init PROVE AnswerInv
  OBVIOUS
<1>1. queue = <<>> /\ toPush = <<>> /\ main = "test" /\ ending = FALSE
  BY DEF Init
<1>2. <<>> \in Seq(Ips)
  BY EmptySeq
<1>3. <<>> \o <<>> = <<>>
  BY <1>2, ConcatEmptySeq
<1>4. IsRest(<<>>, <<>>)
  BY <1>2, RestOfAny
<1> QED
  BY <1>1, <1>3, <1>4 DEF AnswerInv, PeersOfOneAnswer, ToPushInv, EndingInv

\* What is left stays, or loses its head.
LEMMA AnswerKept ==
    ASSUME TypeOK, PeersOfOneAnswer, ending' = ending,
           Rest' = Rest \/ (Rest # <<>> /\ Rest' = Tail(Rest))
    PROVE  PeersOfOneAnswer'
PROOF
<1>1. PICK list \in TrackerLists \union {<<>>} : IsRest(Rest, Whole(list))
  BY DEF PeersOfOneAnswer, Rest, Whole
<1>2. list \in Seq(Ips)
  BY <1>1, ListsAssumption, EmptySeq
<1>3. Whole(list) \in Seq(Ips)
  BY <1>2, DummiesProperties, ConcatProperties DEF Whole
<1>4. IsRest(Rest', Whole(list))
  BY <1>1, <1>3, RestTail
<1>5. Whole(list)' = Whole(list)
  BY DEF Whole, Dummies
<1>6. IsRest(Rest', Whole(list)')
  BY <1>4, <1>5
<1> QED
  BY <1>1, <1>6 DEF PeersOfOneAnswer, Rest, Whole

LEMMA AnswerStep == TypeOK /\ AnswerInv /\ [Next]_vars => AnswerInv'
PROOF
<1> SUFFICES ASSUME TypeOK, AnswerInv, [Next]_vars PROVE AnswerInv'
  OBVIOUS
<1>a. queue \in Seq(Ips) /\ toPush \in Seq(Ips)
  BY DEF TypeOK
<1>b. PeersOfOneAnswer /\ ToPushInv /\ EndingInv
  BY DEF AnswerInv
\* A worker, and whatever else leaves main alone.
<1>c. ASSUME UNCHANGED <<main, toPush, ending>>,
             queue' = queue \/ (queue # <<>> /\ queue' = Tail(queue))
      PROVE  AnswerInv'
  <2>1. ToPushInv' /\ EndingInv'
    BY <1>b, <1>c DEF ToPushInv, EndingInv
  <2>2. Rest' = Rest \/ (Rest # <<>> /\ Rest' = Tail(Rest))
    BY <1>a, <1>c, TailConcat DEF Rest
  <2> QED
    BY <1>b, <1>c, <2>1, <2>2, AnswerKept DEF AnswerInv
<1>1. ASSUME NEW w \in Workers, InQueue(w) \/ WakeSpuriously(w) \/ InConnection(w)
      PROVE  AnswerInv'
  BY <1>1, <1>c DEF InQueue, OuterTest, PopFront, Take, Wait, WakeSpuriously, InConnection,
                    Establish, ConnectionFails, SessionEnds, PublishPiece, SessionExits,
                    mainVars
<1>2. CASE LoopEnds
  <2>1. /\ main = "test" /\ main' = "push" /\ ending' = TRUE
        /\ toPush' = Dummies /\ queue' = queue
        /\ ~ending /\ toPush = <<>>
    BY <1>2, <1>b DEF LoopEnds, MainGoesOn, ToPushInv, EndingInv
  <2>2. PICK list \in TrackerLists \union {<<>>} : IsRest(queue \o toPush, list)
    BY <1>b, <2>1 DEF PeersOfOneAnswer
  <2>3. list \in Seq(Ips)
    BY <2>2, ListsAssumption, EmptySeq
  <2>4. queue \o toPush = queue
    BY <1>a, <2>1, ConcatEmptySeq
  <2>5. IsRest(queue \o Dummies, list \o Dummies)
    BY <2>2, <2>3, <2>4, DummiesProperties, RestConcat
  <2>6. Dummies' = Dummies
    BY DEF Dummies
  <2>7. IsRest(queue' \o toPush', list \o Dummies')
    BY <2>1, <2>5, <2>6
  <2>8. PeersOfOneAnswer'
    BY <2>1, <2>2, <2>7 DEF PeersOfOneAnswer
  <2>9. ToPushInv' /\ EndingInv'
    BY <2>1, DummiesProperties DEF ToPushInv, EndingInv
  <2> QED
    BY <2>8, <2>9 DEF AnswerInv
<1>3. CASE PushBack
  <2>1. /\ main = "push" /\ main' = "notify" /\ ending' = ending
        /\ toPush # <<>> /\ toPush' = Tail(toPush)
        /\ queue' = Append(queue, Head(toPush))
    BY <1>3 DEF PushBack
  <2>2. Rest' = Rest
    BY <1>a, <2>1, MovedHead DEF Rest
  <2>3. PeersOfOneAnswer'
    BY <1>b, <2>1, <2>2, AnswerKept
  <2>4. ToPushInv'
    BY <2>1 DEF ToPushInv
  <2>5. EndingInv'
    <3>1. /\ DOMAIN toPush = 1 .. Len(toPush) /\ Len(toPush) \in Nat \ {0}
          /\ DOMAIN toPush' = 1 .. Len(toPush) - 1
          /\ \A i \in 1 .. Len(toPush) - 1 : toPush'[i] = toPush[i + 1]
      BY <1>a, <2>1, HeadTailProperties, LenProperties, EmptySeq
    <3> QED
      BY <1>b, <2>1, <3>1 DEF EndingInv
  <2> QED
    BY <2>3, <2>4, <2>5 DEF AnswerInv
<1>4. CASE NotifyOne \/ AllPushed \/ AllStopped \/ Join
  <2>1. /\ UNCHANGED <<queue, toPush, ending>>
        /\ main # "clear" /\ main' # "clear"
        /\ main' \in {"test", "ask"} => ~ending /\ toPush = <<>>
    BY <1>4 DEF NotifyOne, AllPushed, AllStopped, Join, MainGoesOn
  <2>2. Rest' = Rest
    BY <2>1 DEF Rest
  <2>3. ToPushInv' /\ EndingInv'
    BY <1>b, <2>1 DEF ToPushInv, EndingInv
  <2> QED
    BY <1>b, <2>1, <2>2, <2>3, AnswerKept DEF AnswerInv
<1>5. CASE LoopAsks \/ AnswerEmpty \/ AnswerThrows
  <2>1. /\ UNCHANGED <<queue, toPush, ending>>
        /\ main \in {"test", "ask"} /\ main' # "clear"
    BY <1>5 DEF LoopAsks, AnswerEmpty, AnswerThrows, MainGoesOn
  <2>2. Rest' = Rest
    BY <2>1 DEF Rest
  <2>3. ToPushInv' /\ EndingInv'
    BY <1>b, <2>1 DEF ToPushInv, EndingInv
  <2> QED
    BY <1>b, <2>1, <2>2, <2>3, AnswerKept DEF AnswerInv
<1>6. CASE Answer
  <2>1. /\ main = "ask" /\ main' = "clear" /\ UNCHANGED <<queue, ending>>
        /\ toPush' \in TrackerLists
        /\ toPush = <<>> /\ ~ending
    BY <1>6, <1>b DEF Answer, MainGoesOn, ToPushInv, EndingInv
  <2>2. Rest' = Rest
    BY <1>a, <2>1, ConcatEmptySeq DEF Rest
  <2>3. ToPushInv' /\ EndingInv'
    BY <2>1 DEF ToPushInv, EndingInv
  <2> QED
    BY <1>b, <2>1, <2>2, <2>3, AnswerKept DEF AnswerInv
<1>7. CASE Clear
  <2>1. /\ main = "clear" /\ main' = "push" /\ UNCHANGED <<toPush, ending>>
        /\ queue' = <<>> /\ toPush \in TrackerLists /\ ~ending
    BY <1>7, <1>b DEF Clear, ToPushInv, EndingInv
  <2>2. <<>> \o toPush = toPush /\ IsRest(toPush, toPush)
    BY <1>a, ConcatEmptySeq, RestOfAny
  <2>3. PeersOfOneAnswer'
    BY <2>1, <2>2 DEF PeersOfOneAnswer
  <2>4. ToPushInv' /\ EndingInv'
    BY <2>1 DEF ToPushInv, EndingInv
  <2> QED
    BY <2>3, <2>4 DEF AnswerInv
<1>8. CASE Minute \/ (\E w \in Workers : Stop(w)) \/ UNCHANGED vars
  BY <1>8, <1>c DEF Minute, Stop, vars
<1> QED
  BY <1>1, <1>2, <1>3, <1>4, <1>5, <1>6, <1>7, <1>8
  DEF Next, Terminate, AskTracker, Finished

\* The queue with what is yet to be pushed is the rest of one answer, in
\* order, and of the dummies after it, for every tracker and every pool.
THEOREM QueueHoldsOneAnswer == Spec => []PeersOfOneAnswer
PROOF
<1>1. (TypeOK /\ AnswerInv) /\ [Next]_vars => (TypeOK /\ AnswerInv)'
  BY TypeStep, AnswerStep
<1>2. AnswerInv => PeersOfOneAnswer
  BY DEF AnswerInv
<1> QED
  BY <1>1, <1>2, TypeInit, AnswerInit, PTL DEF Spec

=============================================================================
