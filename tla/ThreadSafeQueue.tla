---------------------------- MODULE ThreadSafeQueue ----------------------------
(***************************************************************************)
(* DPI::ThreadSafeQueue<T> (include/thread_safe_queue.h): a std::queue,    *)
(* one mutex and two condition variables.  One step of the model is one    *)
(* critical section of the mutex: from acquiring it (at the call, or when  *)
(* a wait returns) up to releasing it (at the return, or in the next       *)
(* wait).  A thread in a call and outside both wait sets is awake: it is   *)
(* about to acquire the mutex.                                             *)
(***************************************************************************)
EXTENDS Naturals, Sequences, FiniteSets

CONSTANTS Producers,   \* threads that push
          Consumers,   \* threads that pop
          Items,       \* what is queued (PacketJob)
          MaxSize,     \* max_size_
          NoItem       \* std::nullopt, and the result of a void call

ASSUME QueueAssumption ==
  /\ IsFiniteSet(Producers)
  /\ IsFiniteSet(Consumers)
  /\ MaxSize \in Nat
  /\ NoItem \notin Items

VARIABLES queue,       \* queue_
          shutdown,    \* shutdown_
          call,        \* the call each thread is in
          item,        \* the argument of that call
          ret,         \* what the thread's last call returned
          not_empty,   \* threads waiting on the condition variable not_empty_
          not_full     \* threads waiting on the condition variable not_full_

vars == <<queue, shutdown, call, item, ret, not_empty, not_full>>

Threads   == Producers \cup Consumers
PushCalls == {"push", "tryPush"}
PopCalls  == {"pop", "popWithTimeout", "expired"}

TypeOK ==
  /\ queue \in Seq(Items)
  /\ Len(queue) <= MaxSize
  /\ shutdown \in BOOLEAN
  /\ call \in [Threads -> {"none"} \cup PushCalls \cup PopCalls]
  /\ item \in [Threads -> Items \cup {NoItem}]
  /\ \A t \in Threads : (call[t] \in PushCalls) => (item[t] \in Items)
  /\ ret \in [Threads -> Items \cup {NoItem} \cup BOOLEAN]
  /\ not_empty \subseteq {t \in Threads : call[t] \in {"pop", "popWithTimeout"}}
  /\ not_full \subseteq {t \in Threads : call[t] = "push"}

Init ==
  /\ queue = <<>>
  /\ shutdown = FALSE
  /\ call = [t \in Threads |-> "none"]
  /\ item = [t \in Threads |-> NoItem]
  /\ ret  = [t \in Threads |-> NoItem]
  /\ not_empty = {}
  /\ not_full = {}

---------------------------------------------------------------------------------
(***************************************************************************)
(* Plausible mistakes in the header, each a drop-in for the definition of  *)
(* the same shape below.                                                   *)
(***************************************************************************)
NotifyNobody(waiters) == {waiters}
ShutdownWakesOne(waiters) ==
  IF waiters = {} THEN {} ELSE waiters \ {CHOOSE w \in waiters : TRUE}
HasRoomOffByOne == Len(queue) <= MaxSize
PopPredicateIgnoresShutdown == queue # <<>>
WaitForgetsDeadline(t) == call[t] \in PopCalls

---------------------------------------------------------------------------------
\* notify_one: any one waiter is moved out of the wait set; with no waiter the
\* notification is lost.
notify_one(waiters) ==
  IF waiters = {} THEN {{}} ELSE {waiters \ {w} : w \in waiters}

\* notify_all: the wait set that remains.
notify_all(waiters) == {}

HasRoom == Len(queue) < MaxSize

\* The predicates the two condition variables are waited on with.
PushPredicate == HasRoom \/ shutdown
PopPredicate  == queue # <<>> \/ shutdown

\* A pop whose wait is not over: wait_for gives up once its deadline is past.
KeepsWaiting(t) == call[t] \in {"pop", "popWithTimeout"}

Return(t, r) ==
  /\ call' = [call EXCEPT ![t] = "none"]
  /\ item' = [item EXCEPT ![t] = NoItem]
  /\ ret'  = [ret  EXCEPT ![t] = r]

\* A thread enters one of the member functions.
Call(t, op, v) ==
  /\ call[t] = "none"
  /\ call' = [call EXCEPT ![t] = op]
  /\ item' = [item EXCEPT ![t] = v]
  /\ UNCHANGED <<queue, shutdown, ret, not_empty, not_full>>

---------------------------------------------------------------------------------
\* push: not_full_.wait finds the predicate false and blocks (again).
PushWait(t) ==
  /\ call[t] = "push" /\ t \notin not_full
  /\ ~PushPredicate
  /\ not_full' = not_full \cup {t}
  /\ UNCHANGED <<queue, shutdown, call, item, ret, not_empty>>

\* push: if (shutdown_) return -- the item is silently discarded.
PushDiscard(t) ==
  /\ call[t] = "push" /\ t \notin not_full
  /\ shutdown
  /\ Return(t, NoItem)
  /\ UNCHANGED <<queue, shutdown, not_empty, not_full>>

PushEnqueue(t) ==
  /\ call[t] = "push" /\ t \notin not_full
  /\ PushPredicate /\ ~shutdown
  /\ queue' = Append(queue, item[t])
  /\ not_empty' \in notify_one(not_empty)
  /\ Return(t, NoItem)
  /\ UNCHANGED <<shutdown, not_full>>

TryPush(t) ==
  /\ call[t] = "tryPush"
  /\ \/ /\ ~HasRoom \/ shutdown
        /\ Return(t, FALSE)
        /\ UNCHANGED <<queue, not_empty>>
     \/ /\ HasRoom /\ ~shutdown
        /\ queue' = Append(queue, item[t])
        /\ not_empty' \in notify_one(not_empty)
        /\ Return(t, TRUE)
  /\ UNCHANGED <<shutdown, not_full>>

\* pop, popWithTimeout: the predicate is false and the thread blocks (again).
PopWait(t) ==
  /\ KeepsWaiting(t) /\ t \notin not_empty
  /\ ~PopPredicate
  /\ not_empty' = not_empty \cup {t}
  /\ UNCHANGED <<queue, shutdown, call, item, ret, not_full>>

\* pop after shutdown, popWithTimeout after shutdown or past its deadline.
PopNothing(t) ==
  /\ call[t] \in PopCalls /\ t \notin not_empty
  /\ PopPredicate \/ ~KeepsWaiting(t)
  /\ queue = <<>>
  /\ Return(t, NoItem)
  /\ UNCHANGED <<queue, shutdown, not_empty, not_full>>

PopDequeue(t) ==
  /\ call[t] \in PopCalls /\ t \notin not_empty
  /\ queue # <<>>
  /\ queue' = Tail(queue)
  /\ not_full' \in notify_one(not_full)
  /\ Return(t, Head(queue))
  /\ UNCHANGED <<shutdown, not_empty>>

\* The deadline of a wait_for passes; a thread that waits is woken by it.
DeadlinePasses(t) ==
  /\ call[t] = "popWithTimeout"
  /\ call' = [call EXCEPT ![t] = "expired"]
  /\ not_empty' = not_empty \ {t}
  /\ UNCHANGED <<queue, shutdown, item, ret, not_full>>

\* std::condition_variable may wake a waiter unasked.
SpuriousWakeup(t) ==
  /\ t \in not_empty \cup not_full
  /\ not_empty' = not_empty \ {t}
  /\ not_full' = not_full \ {t}
  /\ UNCHANGED <<queue, shutdown, call, item, ret>>

\* Called by the thread that stops the queue's owner, never by a user of it.
Shutdown ==
  /\ shutdown' = TRUE
  /\ not_empty' = notify_all(not_empty)
  /\ not_full' = notify_all(not_full)
  /\ UNCHANGED <<queue, call, item, ret>>

---------------------------------------------------------------------------------
\* What thread t does with the mutex once it is in a call.
Step(t) ==
  \/ PushWait(t) \/ PushDiscard(t) \/ PushEnqueue(t) \/ TryPush(t)
  \/ PopWait(t) \/ PopNothing(t) \/ PopDequeue(t)

Next ==
  \/ \E p \in Producers, op \in PushCalls, v \in Items : Call(p, op, v)
  \/ \E c \in Consumers, op \in {"pop", "popWithTimeout"} : Call(c, op, NoItem)
  \/ \E t \in Threads : Step(t) \/ DeadlinePasses(t) \/ SpuriousWakeup(t)
  \/ Shutdown

Spec == Init /\ [][Next]_vars

\* An awake thread gets the mutex some time, and time passes.  Nobody has to
\* call anything, and nothing wakes a waiter but a notification.
Fairness ==
  \A t \in Threads : WF_vars(Step(t)) /\ WF_vars(DeadlinePasses(t))

FairSpec == Spec /\ Fairness

---------------------------------------------------------------------------------
AwakePoppers == {t \in Threads : call[t] \in PopCalls} \ not_empty
AwakePushers == {t \in Threads : call[t] = "push"} \ not_full

\* No lost wake-up.  While a thread waits in pop, every queued item has a popper
\* of its own that is awake and will see it; while a thread waits in push, every
\* free slot has such a pusher.  It is what makes one notify_one per push and one
\* per pop enough, whoever overtakes whom between the notification and the moment
\* the woken thread gets the mutex.
NoLostWakeup ==
  /\ not_empty # {} => Len(queue) <= Cardinality(AwakePoppers)
  /\ not_full # {} => MaxSize - Len(queue) <= Cardinality(AwakePushers)

\* Nobody is left waiting on a queue that has been shut down (the contract of
\* shutdown(): "wake up all waiting threads").
NoWaiterAfterShutdown ==
  shutdown => not_empty = {} /\ not_full = {}

QueueInv == TypeOK /\ NoLostWakeup /\ NoWaiterAfterShutdown

\* popWithTimeout comes back whatever the others do, spurious wake-ups included,
\* so the worker loops re-read running_ for ever.
TimedPopReturns ==
  \A t \in Threads : (call[t] = "popWithTimeout") ~> (call[t] = "none")

\* Seen from its callers the queue is a bounded FIFO whose pending calls make
\* progress: the wait sets and who is woken do not matter.  In particular every call
\* on a queue that is, or gets, shut down returns, which lets stop() join the thread
\* that made it.
Abstract == INSTANCE BoundedQueue WITH
  queue <- queue, shutdown <- shutdown, call <- call, item <- item, ret <- ret
ImplementsBoundedQueue == Abstract!Spec
=================================================================================
