------------------------------ MODULE EventQueue ------------------------------
(****************************************************************************)
(* event_queue.c: the ring buffer between the reactor thread, the only      *)
(* caller of queue_push, and the dispatcher thread, the only caller of      *)
(* queue_pop.                                                               *)
(*                                                                          *)
(* Everything the two functions share is read and written under the mutex   *)
(* `lock`, so a stretch of code from taking the mutex (on entry, or on the  *)
(* way out of a condition wait) to giving it up (on return, or on the way   *)
(* into a wait) is one action.  A thread inside pthread_cond_[timed]wait is *)
(* "waiting"; a signal, or the spurious wakeup POSIX allows, makes it       *)
(* "woken": it then competes for the mutex again.  A timed wait whose       *)
(* deadline has passed may also end as "timedout" (rc == ETIMEDOUT), which  *)
(* the code does not follow by a look at the ring.                          *)
(****************************************************************************)
EXTENDS Integers, Sequences

CONSTANTS QSIZE,     \* slots of the ring; one of them is always unused
          Msgs,      \* event_msg_t values
          NoMsg,     \* no message
          MaxDrops   \* bound: no push starts once this many were dropped

ASSUME QSizeAssumption == QSIZE \in Nat /\ QSIZE >= 2
ASSUME NoMsgAssumption == NoMsg \notin Msgs
ASSUME MaxDropsAssumption == MaxDrops \in Nat

VARIABLES queue,         \* the slots
          head, tail,    \* next slot to read, next slot to write
          g_drop_count,  \* pushes given up
          push_pc,       \* where the reactor thread is in queue_push
          push_msg,      \* queue_push's argument
          deadline,      \* has the deadline of this push passed?
          pop_pc,        \* where the dispatcher thread is in queue_pop
          pop_msg        \* the message queue_pop returned

ring     == <<queue, head, tail>>
pushVars == <<push_pc, push_msg, deadline, g_drop_count>>
popVars  == <<pop_pc, pop_msg>>
vars     == <<ring, pushVars, popVars>>

Slots == 0 .. QSIZE - 1

TypeOK == /\ queue \in [Slots -> Msgs \cup {NoMsg}]
          /\ head \in Slots
          /\ tail \in Slots
          /\ g_drop_count \in 0 .. MaxDrops
          /\ push_pc \in {"idle", "call", "waiting", "woken", "timedout"}
          /\ push_msg \in Msgs \cup {NoMsg}
          /\ deadline \in BOOLEAN
          /\ pop_pc \in {"call", "waiting", "woken", "handling"}
          /\ pop_msg \in Msgs \cup {NoMsg}

(****************************************************************************)
(* The ring.                                                                *)
(****************************************************************************)
Succ_NoWrap(i) == i + 1           \* variant: the index never wraps
Succ(i) == (i + 1) % QSIZE

Full_UseEverySlot == tail = head /\ queue[head] # NoMsg \* variant: no spare slot
Full  == Succ(tail) = head
Empty == head = tail

\* pthread_cond_signal with at most one thread waiting.
Signalled(pc) == IF pc = "waiting" THEN "woken" ELSE pc

(****************************************************************************)
(* queue_push, called by the reactor thread.                                *)
(****************************************************************************)

\* The reactor hands a routed message over; the mutex is not held yet.
PushCall(m) ==
    /\ push_pc = "idle"
    /\ g_drop_count < MaxDrops
    /\ push_pc' = "call"
    /\ push_msg' = m
    /\ UNCHANGED <<ring, deadline, g_drop_count, popVars>>

\* Room: store, advance tail, signal cond_not_empty, return 0.
Enqueue_NoSignal ==               \* variant: the signal is forgotten
    /\ ~Full
    /\ queue' = [queue EXCEPT ![tail] = push_msg]
    /\ tail' = Succ(tail)
    /\ push_pc' = "idle"
    /\ push_msg' = NoMsg
    /\ deadline' = FALSE
    /\ UNCHANGED <<head, g_drop_count, popVars>>
Enqueue ==
    /\ ~Full
    /\ queue' = [queue EXCEPT ![tail] = push_msg]
    /\ tail' = Succ(tail)
    /\ pop_pc' = Signalled(pop_pc)
    /\ push_pc' = "idle"
    /\ push_msg' = NoMsg
    /\ deadline' = FALSE
    /\ UNCHANGED <<head, g_drop_count, pop_msg>>

PushLock ==
    /\ push_pc = "call"
    /\ \/ Enqueue
       \/ /\ Full                 \* fix the deadline and wait
          /\ push_pc' = "waiting"
          /\ deadline' = FALSE
          /\ UNCHANGED <<ring, push_msg, g_drop_count, popVars>>

\* The loop condition is looked at again; a wait that starts after the
\* deadline ends at once with ETIMEDOUT.
PushRecheck_Restart ==            \* variant: every wait starts a new deadline
    /\ push_pc = "woken"
    /\ \/ Enqueue
       \/ /\ Full
          /\ push_pc' = "waiting"
          /\ deadline' = FALSE
          /\ UNCHANGED <<ring, push_msg, g_drop_count, popVars>>
PushRecheck ==
    /\ push_pc = "woken"
    /\ \/ Enqueue
       \/ /\ Full
          /\ push_pc' = IF deadline THEN "timedout" ELSE "waiting"
          /\ UNCHANGED <<ring, push_msg, deadline, g_drop_count, popVars>>

DeadlinePasses ==
    /\ push_pc \in {"waiting", "woken"}
    /\ ~deadline
    /\ deadline' = TRUE
    /\ UNCHANGED <<ring, push_pc, push_msg, g_drop_count, popVars>>

PushSpurious ==
    /\ push_pc = "waiting"
    /\ push_pc' = "woken"
    /\ UNCHANGED <<ring, push_msg, deadline, g_drop_count, popVars>>

PushTimeout ==
    /\ push_pc = "waiting"
    /\ deadline
    /\ push_pc' = "timedout"
    /\ UNCHANGED <<ring, push_msg, deadline, g_drop_count, popVars>>

\* rc == ETIMEDOUT: count the drop and return -1, without another look at
\* the ring.
PushDrop ==
    /\ push_pc = "timedout"
    /\ g_drop_count' = g_drop_count + 1
    /\ push_pc' = "idle"
    /\ push_msg' = NoMsg
    /\ deadline' = FALSE
    /\ UNCHANGED <<ring, popVars>>

(****************************************************************************)
(* queue_pop, called by the dispatcher thread, and the rest of its loop.    *)
(****************************************************************************)

\* Something to read: copy it out, advance head, signal cond_not_full, return.
Dequeue ==
    /\ ~Empty
    /\ pop_msg' = queue[head]
    /\ head' = Succ(head)
    /\ push_pc' = Signalled(push_pc)
    /\ pop_pc' = "handling"
    /\ UNCHANGED <<queue, tail, push_msg, deadline, g_drop_count>>

\* On entry and after every wakeup: take the oldest message, or wait.
PopLock ==
    /\ pop_pc \in {"call", "woken"}
    /\ \/ Dequeue
       \/ /\ Empty
          /\ pop_pc' = "waiting"
          /\ UNCHANGED <<ring, pushVars, pop_msg>>

PopSpurious ==
    /\ pop_pc = "waiting"
    /\ pop_pc' = "woken"
    /\ UNCHANGED <<ring, pushVars, pop_msg>>

\* router_core_handle returns and the dispatcher loop calls queue_pop again.
\* The handler writes to a blocking descriptor: nothing says it returns.
HandlerReturns ==
    /\ pop_pc = "handling"
    /\ pop_pc' = "call"
    /\ pop_msg' = NoMsg
    /\ UNCHANGED <<ring, pushVars>>

-----------------------------------------------------------------------------
Init == /\ queue = [i \in Slots |-> NoMsg]
        /\ head = 0
        /\ tail = 0
        /\ g_drop_count = 0
        /\ push_pc = "idle"
        /\ push_msg = NoMsg
        /\ deadline = FALSE
        /\ pop_pc = "call"
        /\ pop_msg = NoMsg

Next == \/ \E m \in Msgs : PushCall(m)
        \/ PushLock
        \/ PushRecheck
        \/ DeadlinePasses
        \/ PushSpurious
        \/ PushTimeout
        \/ PushDrop
        \/ PopLock
        \/ PopSpurious
        \/ HandlerReturns

Spec == Init /\ [][Next]_vars

(****************************************************************************)
(* Properties.                                                              *)
(****************************************************************************)

\* No wakeup is lost: the dispatcher sleeps on cond_not_empty only while the
\* ring is empty, and the reactor on cond_not_full only while it is full,
\* although each signal is sent only once and only to a thread that already
\* waits.
NoLostWakeup == /\ pop_pc = "waiting" => Empty
                /\ push_pc = "waiting" => Full

\* queue_push returns whatever the dispatcher does, even when it is stuck for
\* ever in a write: the reactor is never blocked by the queue (event_queue.h,
\* QUEUE_PUSH_TIMEOUT_MS).
PushReturns == push_pc # "idle" ~> push_pc = "idle"

\* The messages in the ring, oldest first.
Count == IF head <= tail THEN tail - head ELSE tail - head + QSIZE

SlotOf(i) == IF head + i - 1 < QSIZE THEN head + i - 1 ELSE head + i - 1 - QSIZE

Contents == [i \in 1 .. Count |-> queue[SlotOf(i)]]

Fifo == INSTANCE BoundedFifo
            WITH Capacity <- QSIZE - 1,
                 fifo     <- Contents,
                 offered  <- push_msg,
                 taken    <- pop_msg,
                 drops    <- g_drop_count

\* Ring, mutex, condition variables and timeout together implement the bounded
\* FIFO: no accepted message is lost, duplicated or reordered, the wrap-around
\* of head and tail never confuses full with empty, every push is accepted or
\* counted as dropped.
ImplementsFifo == Fifo!Spec
=============================================================================
