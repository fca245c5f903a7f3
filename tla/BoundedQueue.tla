------------------------------ MODULE BoundedQueue ------------------------------
(***************************************************************************)
(* What ThreadSafeQueue (include/thread_safe_queue.h) promises its callers:*)
(* a bounded FIFO with blocking calls and a one-way shutdown.  A caller    *)
(* has a pending call; at some later moment the call takes effect in one   *)
(* step and returns.  There are no condition variables here, and so no     *)
(* wake-ups to lose: a call that can take effect stays able to.            *)
(***************************************************************************)
EXTENDS Naturals, Sequences

CONSTANTS Producers,   \* threads that push
          Consumers,   \* threads that pop
          Items,       \* what is queued (PacketJob)
          MaxSize,     \* max_size_
          NoItem       \* std::nullopt, and the result of a void call

VARIABLES queue,       \* queue_
          shutdown,    \* shutdown_
          call,        \* the call each thread is in
          item,        \* the argument of that call
          ret          \* what the thread's last call returned

absvars == <<queue, shutdown, call, item, ret>>

Threads == Producers \cup Consumers

Finish(t, r) ==
  /\ call' = [call EXCEPT ![t] = "none"]
  /\ item' = [item EXCEPT ![t] = NoItem]
  /\ ret'  = [ret  EXCEPT ![t] = r]

Init ==
  /\ queue = <<>>
  /\ shutdown = FALSE
  /\ call = [t \in Threads |-> "none"]
  /\ item = [t \in Threads |-> NoItem]
  /\ ret  = [t \in Threads |-> NoItem]

Call(t, op, v) ==
  /\ call[t] = "none"
  /\ call' = [call EXCEPT ![t] = op]
  /\ item' = [item EXCEPT ![t] = v]
  /\ UNCHANGED <<queue, shutdown, ret>>

\* A pending push or tryPush appends its item ...
Put(t) ==
  /\ call[t] \in {"push", "tryPush"}
  /\ ~shutdown
  /\ Len(queue) < MaxSize
  /\ queue' = Append(queue, item[t])
  /\ Finish(t, IF call[t] = "push" THEN NoItem ELSE TRUE)
  /\ UNCHANGED shutdown

\* ... or is refused: a push only after shutdown, a tryPush also when full.
Refuse(t) ==
  /\ \/ call[t] = "push" /\ shutdown
     \/ call[t] = "tryPush" /\ (shutdown \/ Len(queue) >= MaxSize)
  /\ Finish(t, IF call[t] = "push" THEN NoItem ELSE FALSE)
  /\ UNCHANGED <<queue, shutdown>>

Take(t) ==
  /\ call[t] \in {"pop", "popWithTimeout", "expired"}
  /\ queue # <<>>
  /\ queue' = Tail(queue)
  /\ Finish(t, Head(queue))
  /\ UNCHANGED shutdown

\* A pop comes back empty-handed only from an empty queue, and an untimed pop
\* only after shutdown.
TakeNothing(t) ==
  /\ queue = <<>>
  /\ \/ call[t] \in {"pop", "popWithTimeout"} /\ shutdown
     \/ call[t] = "expired"
  /\ Finish(t, NoItem)
  /\ UNCHANGED <<queue, shutdown>>

Expire(t) ==
  /\ call[t] = "popWithTimeout"
  /\ call' = [call EXCEPT ![t] = "expired"]
  /\ UNCHANGED <<queue, shutdown, item, ret>>

Close ==
  /\ shutdown' = TRUE
  /\ UNCHANGED <<queue, call, item, ret>>

Next ==
  \/ \E p \in Producers, op \in {"push", "tryPush"}, v \in Items : Call(p, op, v)
  \/ \E c \in Consumers, op \in {"pop", "popWithTimeout"} : Call(c, op, NoItem)
  \/ \E t \in Threads : Put(t) \/ Refuse(t) \/ Take(t) \/ TakeNothing(t) \/ Expire(t)
  \/ Close

\* Progress that does not depend on which waiter is woken: while some pending
\* push finds room, some item is enqueued; while some pending pop finds an
\* item, some item is dequeued; after shutdown every caller is let go.
Fairness ==
  /\ WF_absvars(\E t \in Threads : Put(t))
  /\ WF_absvars(\E t \in Threads : Take(t))
  /\ \A t \in Threads : WF_absvars(Refuse(t)) /\ WF_absvars(TakeNothing(t))

Spec == Init /\ [][Next]_absvars /\ Fairness
=================================================================================
