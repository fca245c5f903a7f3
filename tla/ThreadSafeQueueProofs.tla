------------------------- MODULE ThreadSafeQueueProofs -------------------------
(***************************************************************************)
(* Proofs about ThreadSafeQueue, for any number of threads, any items and  *)
(* any max_size_: types, and that no wake-up is lost.                      *)
(***************************************************************************)
EXTENDS ThreadSafeQueue, FiniteSetTheorems, TLAPS

USE DEF Threads, PushCalls, PopCalls

\* notify_one removes at most one waiter.
LEMMA NotifyOneShrinks ==
  ASSUME NEW W, NEW W2 \in notify_one(W)
  PROVE  W2 \subseteq W
BY DEF notify_one

\* Every call and return leaves the variables well-typed.
LEMMA TypeStep == TypeOK /\ [Next]_vars => TypeOK'
<1> SUFFICES ASSUME TypeOK, [Next]_vars PROVE TypeOK'
  OBVIOUS
<1> USE QueueAssumption DEF QueueAssumption, TypeOK
<1>1. ASSUME NEW p \in Producers, NEW op \in PushCalls, NEW v \in Items, Call(p, op, v)
      PROVE  TypeOK'
  BY <1>1 DEF Call
<1>2. ASSUME NEW c \in Consumers, NEW op \in {"pop", "popWithTimeout"}, Call(c, op, NoItem)
      PROVE  TypeOK'
  BY <1>2 DEF Call
<1>3. ASSUME NEW t \in Threads, PushWait(t) PROVE TypeOK'
  BY <1>3 DEF PushWait
<1>4. ASSUME NEW t \in Threads, PushDiscard(t) PROVE TypeOK'
  BY <1>4 DEF PushDiscard, Return
<1>5. ASSUME NEW t \in Threads, PushEnqueue(t) PROVE TypeOK'
  <2>1. not_empty' \subseteq not_empty
    BY <1>5, NotifyOneShrinks DEF PushEnqueue
  <2>2. queue' \in Seq(Items) /\ Len(queue') <= MaxSize
    BY <1>5 DEF PushEnqueue, PushPredicate, HasRoom
  <2> QED
    BY <1>5, <2>1, <2>2 DEF PushEnqueue, Return
<1>6. ASSUME NEW t \in Threads, TryPush(t) PROVE TypeOK'
  <2>1. not_empty' \subseteq not_empty
    BY <1>6, NotifyOneShrinks DEF TryPush
  <2>2. queue' \in Seq(Items) /\ Len(queue') <= MaxSize
    <3>1. queue' = queue \/ (HasRoom /\ queue' = Append(queue, item[t]) /\ item[t] \in Items)
      BY <1>6 DEF TryPush
    <3> QED
      BY <3>1 DEF HasRoom
  <2> QED
    BY <1>6, <2>1, <2>2 DEF TryPush, Return
<1>7. ASSUME NEW t \in Threads, PopWait(t) PROVE TypeOK'
  BY <1>7 DEF PopWait, KeepsWaiting
<1>8. ASSUME NEW t \in Threads, PopNothing(t) PROVE TypeOK'
  BY <1>8 DEF PopNothing, Return
<1>9. ASSUME NEW t \in Threads, PopDequeue(t) PROVE TypeOK'
  <2>1. not_full' \subseteq not_full
    BY <1>9, NotifyOneShrinks DEF PopDequeue
  <2>2. queue' \in Seq(Items) /\ Len(queue') <= MaxSize /\ Head(queue) \in Items
    BY <1>9 DEF PopDequeue
  <2> QED
    BY <1>9, <2>1, <2>2 DEF PopDequeue, Return
<1>10. ASSUME NEW t \in Threads, DeadlinePasses(t) PROVE TypeOK'
  BY <1>10 DEF DeadlinePasses
<1>11. ASSUME NEW t \in Threads, SpuriousWakeup(t) PROVE TypeOK'
  BY <1>11 DEF SpuriousWakeup
<1>12. CASE Shutdown
  BY <1>12 DEF Shutdown, notify_all
<1>13. CASE UNCHANGED vars
  BY <1>13 DEF vars
<1> QED
  BY <1>1, <1>2, <1>3, <1>4, <1>5, <1>6, <1>7, <1>8, <1>9, <1>10, <1>11, <1>12, <1>13
     DEF Next, Step

\* The initial values have their types.
LEMMA TypeInit == Init => TypeOK
<1> SUFFICES ASSUME Init PROVE TypeOK
  OBVIOUS
<1>1. queue \in Seq(Items) /\ Len(queue) <= MaxSize
  BY QueueAssumption DEF QueueAssumption, Init
<1> QED
  BY <1>1 DEF Init, TypeOK

\* The queue never holds more than max_size_ items, a thread waits only on the
\* condition variable of the call it is in, and the rest of TypeOK.
THEOREM TypeCorrect == Spec => []TypeOK
BY TypeInit, TypeStep, PTL DEF Spec

---------------------------------------------------------------------------------
\* Nothing is added to a wait set once shutdown has emptied it.
LEMMA NoWaiterStep == NoWaiterAfterShutdown /\ [Next]_vars => NoWaiterAfterShutdown'
<1> SUFFICES ASSUME NoWaiterAfterShutdown, [Next]_vars PROVE NoWaiterAfterShutdown'
  OBVIOUS
<1> USE DEF NoWaiterAfterShutdown
<1>1. ASSUME NEW t \in Threads, NEW op, NEW v, Call(t, op, v) PROVE NoWaiterAfterShutdown'
  BY <1>1 DEF Call
<1>2. ASSUME NEW t \in Threads, Step(t) PROVE NoWaiterAfterShutdown'
  <2>1. CASE PushWait(t)
    BY <2>1 DEF PushWait, PushPredicate
  <2>2. CASE PushDiscard(t) \/ PopNothing(t)
    BY <2>2 DEF PushDiscard, PopNothing
  <2>3. CASE PushEnqueue(t)
    BY <2>3 DEF PushEnqueue
  <2>4. CASE TryPush(t)
    BY <2>4 DEF TryPush
  <2>5. CASE PopWait(t)
    BY <2>5 DEF PopWait, PopPredicate
  <2>6. CASE PopDequeue(t)
    BY <2>6, NotifyOneShrinks DEF PopDequeue
  <2> QED
    BY <1>2, <2>1, <2>2, <2>3, <2>4, <2>5, <2>6 DEF Step
<1>3. ASSUME NEW t \in Threads, DeadlinePasses(t) \/ SpuriousWakeup(t)
      PROVE  NoWaiterAfterShutdown'
  BY <1>3 DEF DeadlinePasses, SpuriousWakeup
<1>4. CASE Shutdown
  BY <1>4 DEF Shutdown, notify_all
<1>5. CASE UNCHANGED vars
  BY <1>5 DEF vars
<1> QED
  BY <1>1, <1>2, <1>3, <1>4, <1>5 DEF Next

\* "shutdown: wake up all waiting threads", and none waits later.
THEOREM NobodyWaitsAfterShutdown == Spec => []NoWaiterAfterShutdown
<1>1. Init => NoWaiterAfterShutdown
  BY DEF Init, NoWaiterAfterShutdown
<1> QED
  BY <1>1, NoWaiterStep, PTL DEF Spec

---------------------------------------------------------------------------------
\* The two halves of NoLostWakeup.
PoppersAwake == not_empty # {} => Len(queue) <= Cardinality(AwakePoppers)
PushersAwake == not_full # {} => MaxSize - Len(queue) <= Cardinality(AwakePushers)

\* Sets of threads can be counted.
LEMMA ThreadsCount ==
  ASSUME NEW S \in SUBSET Threads
  PROVE  IsFiniteSet(S) /\ Cardinality(S) \in Nat
<1>1. IsFiniteSet(Threads)
  BY QueueAssumption, FS_Union DEF QueueAssumption
<1>2. IsFiniteSet(S)
  BY <1>1, FS_Subset
<1> QED
  BY <1>2, FS_CardinalityType

\* How the number of awake threads changes.
LEMMA MoreAwake ==
  ASSUME NEW S \in SUBSET Threads, NEW T \in SUBSET Threads, S \subseteq T
  PROVE  Cardinality(S) <= Cardinality(T)
BY ThreadsCount, FS_Subset

\* Taking one thread out of a set makes it smaller by one at most.
LEMMA OneAsleep ==
  ASSUME NEW S \in SUBSET Threads, NEW T \in SUBSET Threads, NEW t, S \ {t} \subseteq T
  PROVE  Cardinality(S) - 1 <= Cardinality(T)
<1>1. /\ IsFiniteSet(S) /\ Cardinality(S) \in Nat
      /\ Cardinality(S \ {t}) \in Nat /\ Cardinality(T) \in Nat
  BY ThreadsCount
<1>2. Cardinality(S \ {t}) = IF t \in S THEN Cardinality(S) - 1 ELSE Cardinality(S)
  BY <1>1, FS_RemoveElement
<1>3. Cardinality(S \ {t}) <= Cardinality(T)
  BY MoreAwake
<1> QED
  BY <1>1, <1>2, <1>3

\* A thread that was not in a set and joins it makes it larger by one.
LEMMA OneAwake ==
  ASSUME NEW S \in SUBSET Threads, NEW T \in SUBSET Threads, NEW w \in T,
         S \subseteq T, w \notin S
  PROVE  Cardinality(S) + 1 <= Cardinality(T)
<1>1. /\ IsFiniteSet(S) /\ Cardinality(S) \in Nat
      /\ Cardinality(S \cup {w}) \in Nat /\ Cardinality(T) \in Nat
  BY ThreadsCount
<1>2. Cardinality(S \cup {w}) = Cardinality(S) + 1
  BY <1>1, FS_AddElement
<1>3. Cardinality(S \cup {w}) <= Cardinality(T)
  BY MoreAwake
<1> QED
  BY <1>1, <1>2, <1>3

\* A step that takes nothing in or out, wakes nobody out of turn and lets no
\* awake thread go keeps the two halves.
LEMMA QuietStep ==
  ASSUME TypeOK, TypeOK', NoLostWakeup, queue' = queue,
         not_empty' \subseteq not_empty, not_full' \subseteq not_full,
         AwakePoppers \subseteq AwakePoppers', AwakePushers \subseteq AwakePushers'
  PROVE  NoLostWakeup'
<1>1. /\ Cardinality(AwakePoppers) <= Cardinality(AwakePoppers')
      /\ Cardinality(AwakePushers) <= Cardinality(AwakePushers')
  BY MoreAwake DEF AwakePoppers, AwakePushers
<1>2. /\ Cardinality(AwakePoppers) \in Nat /\ Cardinality(AwakePoppers') \in Nat
      /\ Cardinality(AwakePushers) \in Nat /\ Cardinality(AwakePushers') \in Nat
  BY ThreadsCount DEF AwakePoppers, AwakePushers
<1>3. Len(queue) \in Nat /\ MaxSize \in Nat
  BY QueueAssumption DEF QueueAssumption, TypeOK
<1> QED
  BY <1>1, <1>2, <1>3 DEF NoLostWakeup

\* Every step keeps NoLostWakeup: an item that comes in wakes its popper, a slot
\* that is freed wakes its pusher, and an awake thread leaves only with the item
\* or the slot it stood for.
LEMMA WakeupStep ==
  TypeOK /\ TypeOK' /\ NoWaiterAfterShutdown /\ NoLostWakeup /\ [Next]_vars => NoLostWakeup'
<1> SUFFICES ASSUME TypeOK, TypeOK', NoWaiterAfterShutdown, NoLostWakeup, [Next]_vars
             PROVE  NoLostWakeup'
  OBVIOUS
<1> DEFINE A  == AwakePoppers
           A2 == AwakePoppers'
           B  == AwakePushers
           B2 == AwakePushers'
<1>n. /\ A \subseteq Threads /\ A2 \subseteq Threads
      /\ B \subseteq Threads /\ B2 \subseteq Threads
  BY DEF AwakePoppers, AwakePushers
<1>c. /\ Cardinality(A) \in Nat /\ Cardinality(A2) \in Nat
      /\ Cardinality(B) \in Nat /\ Cardinality(B2) \in Nat
  BY <1>n, ThreadsCount
<1>l. Len(queue) \in Nat /\ Len(queue') \in Nat /\ MaxSize \in Nat
      /\ Len(queue) <= MaxSize /\ Len(queue') <= MaxSize
  BY QueueAssumption DEF QueueAssumption, TypeOK
<1>i. PoppersAwake /\ PushersAwake
  BY DEF NoLostWakeup, PoppersAwake, PushersAwake
<1>1. ASSUME NEW p \in Producers, NEW op \in PushCalls, NEW v \in Items, Call(p, op, v)
      PROVE  NoLostWakeup'
  BY <1>1, QuietStep DEF Call, AwakePoppers, AwakePushers, TypeOK
<1>2. ASSUME NEW c \in Consumers, NEW op \in {"pop", "popWithTimeout"}, Call(c, op, NoItem)
      PROVE  NoLostWakeup'
  BY <1>2, QuietStep DEF Call, AwakePoppers, AwakePushers, TypeOK
<1>3. ASSUME NEW t \in Threads, PushWait(t) PROVE NoLostWakeup'
  \* The queue is full: there is no free slot to have missed.
  <2>1. A2 = A /\ queue' = queue /\ not_empty' = not_empty
    BY <1>3 DEF PushWait, AwakePoppers
  <2>2. Len(queue) = MaxSize
    BY <1>3, <1>l DEF PushWait, PushPredicate, HasRoom
  <2> QED
    BY <2>1, <2>2, <1>c, <1>l, <1>i DEF PoppersAwake, NoLostWakeup
<1>4. ASSUME NEW t \in Threads, PushDiscard(t) PROVE NoLostWakeup'
  \* After shutdown nobody waits.
  BY <1>4 DEF PushDiscard, NoWaiterAfterShutdown, NoLostWakeup
<1>5. ASSUME NEW t \in Threads, PushEnqueue(t) \/ (TryPush(t) /\ queue' # queue)
      PROVE  NoLostWakeup'
  <2>1. /\ queue' = Append(queue, item[t]) /\ not_empty' \in notify_one(not_empty)
        /\ not_full' = not_full /\ call[t] \in PushCalls
        /\ call' = [call EXCEPT ![t] = "none"] /\ item[t] \in Items
    BY <1>5 DEF PushEnqueue, TryPush, Return, TypeOK
  <2>2. Len(queue') = Len(queue) + 1
    BY <2>1 DEF TypeOK
  <2>3. not_empty' # {} => Len(queue') <= Cardinality(A2)
    \* The new item's popper is the waiter that was woken.
    <3> SUFFICES ASSUME not_empty' # {} PROVE Len(queue') <= Cardinality(A2)
      OBVIOUS
    <3>1. PICK w \in not_empty : not_empty' = not_empty \ {w}
      BY <2>1 DEF notify_one
    <3>2. w \in A2 /\ w \notin A /\ A \subseteq A2
      BY <2>1, <3>1 DEF AwakePoppers, TypeOK
    <3>3. Cardinality(A) + 1 <= Cardinality(A2)
      BY <3>2, <1>n, OneAwake
    <3> QED
      BY <3>1, <3>3, <2>2, <1>c, <1>l, <1>i DEF PoppersAwake
  <2>4. not_full' # {} => MaxSize - Len(queue') <= Cardinality(B2)
    \* The pusher that leaves has used the free slot it stood for.
    <3>1. B \ {t} \subseteq B2
      BY <2>1 DEF AwakePushers, TypeOK
    <3>2. Cardinality(B) - 1 <= Cardinality(B2)
      BY <3>1, <1>n, OneAsleep
    <3> QED
      BY <2>1, <2>2, <3>2, <1>c, <1>l, <1>i DEF PushersAwake
  <2> QED
    BY <2>3, <2>4 DEF NoLostWakeup
<1>6. ASSUME NEW t \in Threads, TryPush(t), queue' = queue PROVE NoLostWakeup'
  <2>1. /\ not_empty' = not_empty /\ not_full' = not_full
        /\ call[t] = "tryPush" /\ call' = [call EXCEPT ![t] = "none"]
    <3>1. Append(queue, item[t]) # queue
      BY <1>6 DEF TryPush, TypeOK
    <3> QED
      BY <1>6, <3>1 DEF TryPush, Return
  <2>2. A \subseteq A2 /\ B \subseteq B2
    BY <2>1 DEF AwakePoppers, AwakePushers, TypeOK
  <2> QED
    BY <1>6, <2>1, <2>2, QuietStep
<1>7. ASSUME NEW t \in Threads, PopWait(t) PROVE NoLostWakeup'
  \* The queue is empty: there is no item to have missed.
  <2>1. B2 = B /\ queue' = queue /\ not_full' = not_full
    BY <1>7 DEF PopWait, AwakePushers
  <2>2. Len(queue) = 0
    BY <1>7 DEF PopWait, PopPredicate
  <2> QED
    BY <2>1, <2>2, <1>c, <1>l, <1>i DEF PushersAwake, NoLostWakeup
<1>8. ASSUME NEW t \in Threads, PopNothing(t) PROVE NoLostWakeup'
  <2>1. /\ queue' = queue /\ Len(queue) = 0 /\ not_full' = not_full
        /\ call[t] \in PopCalls /\ call' = [call EXCEPT ![t] = "none"]
    BY <1>8 DEF PopNothing, Return
  <2>2. B \subseteq B2
    BY <2>1 DEF AwakePushers, TypeOK
  <2>3. Cardinality(B) <= Cardinality(B2)
    BY <2>2, <1>n, MoreAwake
  <2> QED
    BY <2>1, <2>3, <1>c, <1>l, <1>i DEF PushersAwake, NoLostWakeup
<1>9. ASSUME NEW t \in Threads, PopDequeue(t) PROVE NoLostWakeup'
  <2>1. /\ queue # <<>> /\ queue' = Tail(queue) /\ not_full' \in notify_one(not_full)
        /\ not_empty' = not_empty /\ call[t] \in PopCalls
        /\ call' = [call EXCEPT ![t] = "none"]
    BY <1>9 DEF PopDequeue, Return
  <2>2. Len(queue') = Len(queue) - 1
    BY <2>1 DEF TypeOK
  <2>3. not_empty' # {} => Len(queue') <= Cardinality(A2)
    <3>1. A \ {t} \subseteq A2
      BY <2>1 DEF AwakePoppers, TypeOK
    <3>2. Cardinality(A) - 1 <= Cardinality(A2)
      BY <3>1, <1>n, OneAsleep
    <3> QED
      BY <2>1, <2>2, <3>2, <1>c, <1>l, <1>i DEF PoppersAwake
  <2>4. not_full' # {} => MaxSize - Len(queue') <= Cardinality(B2)
    \* The freed slot's pusher is the waiter that was woken.
    <3> SUFFICES ASSUME not_full' # {} PROVE MaxSize - Len(queue') <= Cardinality(B2)
      OBVIOUS
    <3>1. PICK w \in not_full : not_full' = not_full \ {w}
      BY <2>1 DEF notify_one
    <3>2. w \in B2 /\ w \notin B /\ B \subseteq B2
      BY <2>1, <3>1 DEF AwakePushers, TypeOK
    <3>3. Cardinality(B) + 1 <= Cardinality(B2)
      BY <3>2, <1>n, OneAwake
    <3> QED
      BY <3>1, <3>3, <2>2, <1>c, <1>l, <1>i DEF PushersAwake
  <2> QED
    BY <2>3, <2>4 DEF NoLostWakeup
<1>10. ASSUME NEW t \in Threads, DeadlinePasses(t) PROVE NoLostWakeup'
  BY <1>10, QuietStep DEF DeadlinePasses, AwakePoppers, AwakePushers, TypeOK
<1>11. ASSUME NEW t \in Threads, SpuriousWakeup(t) PROVE NoLostWakeup'
  BY <1>11, QuietStep DEF SpuriousWakeup, AwakePoppers, AwakePushers, TypeOK
<1>12. CASE Shutdown
  BY <1>12 DEF Shutdown, notify_all, NoLostWakeup
<1>13. CASE UNCHANGED vars
  <2>1. A \subseteq A2 /\ B \subseteq B2
    BY <1>13 DEF vars, AwakePoppers, AwakePushers
  <2> QED
    BY <1>13, <2>1, QuietStep DEF vars
<1> QED
  BY <1>1, <1>2, <1>3, <1>4, <1>5, <1>6, <1>7, <1>8, <1>9, <1>10, <1>11, <1>12, <1>13
     DEF Next, Step

\* No wake-up is lost: each queued item has an awake popper as long as any popper
\* waits, each free slot an awake pusher as long as any pusher waits.
THEOREM WakeupsAreNotLost == Spec => []NoLostWakeup
<1>1. Init => QueueInv
  <2>1. Init => TypeOK
    BY TypeInit
  <2> QED
    BY <2>1 DEF Init, QueueInv, NoLostWakeup, NoWaiterAfterShutdown
<1>2. QueueInv /\ [Next]_vars => QueueInv'
  BY TypeStep, NoWaiterStep, WakeupStep DEF QueueInv
<1>3. QueueInv => NoLostWakeup
  BY DEF QueueInv
<1> QED
  BY <1>1, <1>2, <1>3, PTL DEF Spec
---------------------------------------------------------------------------------
\* Whatever happens in a critical section is one step of the bounded FIFO or, where it
\* only concerns the wait sets, none.
LEMMA StepRefines ==
  ASSUME TypeOK, [Next]_vars
  PROVE  [Abstract!Next]_(Abstract!absvars)
<1> USE DEF Abstract!Next, Abstract!Threads
<1>1. ASSUME NEW p \in Producers, NEW op \in PushCalls, NEW v \in Items, Call(p, op, v)
      PROVE  Abstract!Next
  BY <1>1 DEF Call, Abstract!Call
<1>2. ASSUME NEW c \in Consumers, NEW op \in {"pop", "popWithTimeout"}, Call(c, op, NoItem)
      PROVE  Abstract!Next
  BY <1>2 DEF Call, Abstract!Call
<1>3. ASSUME NEW t \in Threads, PushWait(t) \/ PopWait(t) \/ SpuriousWakeup(t)
      PROVE  UNCHANGED Abstract!absvars
  BY <1>3 DEF PushWait, PopWait, SpuriousWakeup, Abstract!absvars
<1>4. ASSUME NEW t \in Threads, PushDiscard(t) PROVE Abstract!Refuse(t)
  BY <1>4 DEF PushDiscard, Return, Abstract!Refuse, Abstract!Finish
<1>5. ASSUME NEW t \in Threads, PushEnqueue(t) PROVE Abstract!Put(t)
  BY <1>5 DEF PushEnqueue, PushPredicate, HasRoom, Return, Abstract!Put, Abstract!Finish
<1>6. ASSUME NEW t \in Threads, TryPush(t) PROVE Abstract!Put(t) \/ Abstract!Refuse(t)
  <2>1. Len(queue) \in Nat /\ MaxSize \in Nat
    BY QueueAssumption DEF QueueAssumption, TypeOK
  <2>2. CASE ~HasRoom \/ shutdown
    BY <1>6, <2>1, <2>2 DEF TryPush, HasRoom, Return, Abstract!Refuse, Abstract!Finish
  <2>3. CASE HasRoom /\ ~shutdown
    BY <1>6, <2>3 DEF TryPush, HasRoom, Return, Abstract!Put, Abstract!Finish
  <2> QED
    BY <2>2, <2>3
\* A pop returns nothing from an empty queue only after shutdown or past its deadline.
<1>7. ASSUME NEW t \in Threads, PopNothing(t) PROVE Abstract!TakeNothing(t)
  BY <1>7 DEF PopNothing, PopPredicate, KeepsWaiting, Return, Abstract!TakeNothing, Abstract!Finish
<1>8. ASSUME NEW t \in Threads, PopDequeue(t) PROVE Abstract!Take(t)
  BY <1>8 DEF PopDequeue, Return, Abstract!Take, Abstract!Finish
<1>9. ASSUME NEW t \in Threads, DeadlinePasses(t) PROVE Abstract!Expire(t)
  BY <1>9 DEF DeadlinePasses, Abstract!Expire
<1>10. Shutdown => Abstract!Close
  BY DEF Shutdown, Abstract!Close
<1>11. UNCHANGED vars => UNCHANGED Abstract!absvars
  BY DEF vars, Abstract!absvars
<1>12. ASSUME NEW t \in Threads,
              \/ Abstract!Put(t) \/ Abstract!Refuse(t) \/ Abstract!Take(t)
              \/ Abstract!TakeNothing(t) \/ Abstract!Expire(t)
       PROVE  Abstract!Next
  BY <1>12
<1>13. Abstract!Close => Abstract!Next
  OBVIOUS
<1> HIDE DEF Abstract!Next
<1> QED
  BY <1>1, <1>2, <1>3, <1>4, <1>5, <1>6, <1>7, <1>8, <1>9, <1>10, <1>11, <1>12, <1>13
     DEF Next, Step

\* The queue with its condition variables is a bounded FIFO with blocking calls: the safety
\* part of ImplementsBoundedQueue, for any number of threads.
THEOREM StepsOfABoundedQueue ==
  Spec => Abstract!Init /\ [][Abstract!Next]_(Abstract!absvars)
<1>1. Init => Abstract!Init
  BY DEF Init, Abstract!Init, Abstract!Threads
<1>2. TypeOK /\ [Next]_vars => [Abstract!Next]_(Abstract!absvars)
  BY StepRefines
<1> QED
  BY <1>1, <1>2, TypeCorrect, PTL DEF Spec
=================================================================================
