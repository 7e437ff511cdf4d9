--------------------------- MODULE EventQueueProofs ---------------------------
(****************************************************************************)
(* Proofs about EventQueue for every ring size, message set and bound.      *)
(****************************************************************************)
EXTENDS EventQueue, TLAPS

(****************************************************************************)
(* Index arithmetic: what the modulo in the code computes.                  *)
(****************************************************************************)

\* (i + 1) % QSIZE is the next slot, or slot 0 after the last one.
LEMMA SuccIs ==
    ASSUME NEW i \in Slots
    PROVE  /\ Succ(i) = IF i + 1 = QSIZE THEN 0 ELSE i + 1
           /\ Succ(i) \in Slots
<1>1. CASE i + 1 = QSIZE
  BY <1>1, QSizeAssumption DEF Succ, Slots
<1>2. CASE i + 1 # QSIZE
  BY <1>2, QSizeAssumption DEF Succ, Slots
<1> QED BY <1>1, <1>2

(****************************************************************************)
(* The inductive invariant.                                                 *)
(****************************************************************************)

\* What the two threads hold: an argument exactly during a push, for which
\* there is room in the drop counter, and a message exactly in the handler.
ThreadsHold == /\ push_pc = "idle" <=> push_msg = NoMsg
               /\ push_pc # "idle" => g_drop_count < MaxDrops
               /\ pop_pc = "handling" <=> pop_msg # NoMsg

\* The slots from head up to, but without, tail were all written.
SlotsWritten == \A i \in 1 .. Count : queue[SlotOf(i)] \in Msgs

IInv == TypeOK /\ ThreadsHold /\ SlotsWritten /\ NoLostWakeup

\* The number of messages between head and tail, and the slots they are in.
LEMMA CountFacts ==
    ASSUME TypeOK
    PROVE  /\ Count \in 0 .. QSIZE - 1
           /\ Empty <=> Count = 0
           /\ Full <=> Count = QSIZE - 1
           /\ \A i \in 1 .. Count : SlotOf(i) \in Slots /\ SlotOf(i) # tail
           /\ SlotOf(Count + 1) = tail
           /\ SlotOf(1) = head
<1> USE QSizeAssumption DEF TypeOK, Slots
<1>1. Succ(tail) = IF tail + 1 = QSIZE THEN 0 ELSE tail + 1
  BY SuccIs
<1>2. Count \in 0 .. QSIZE - 1 /\ (Empty <=> Count = 0)
  BY DEF Count, Empty
<1>3. Full <=> Count = QSIZE - 1
  BY <1>1 DEF Count, Full
<1>4. \A i \in 1 .. Count : SlotOf(i) \in Slots /\ SlotOf(i) # tail
  BY <1>2 DEF Count, SlotOf
<1>5. SlotOf(Count + 1) = tail /\ SlotOf(1) = head
  BY <1>2 DEF Count, SlotOf
<1> QED BY <1>2, <1>3, <1>4, <1>5

\* Enqueue appends one message behind the others, which keep their places.
LEMMA EnqueueFacts ==
    ASSUME TypeOK, Enqueue
    PROVE  /\ tail' \in Slots
           /\ Count' = Count + 1
           /\ \A i \in 1 .. Count : queue'[SlotOf(i)'] = queue[SlotOf(i)]
           /\ (queue[SlotOf(Count)])' = push_msg
<1> USE QSizeAssumption
<1>1. tail' = (IF tail + 1 = QSIZE THEN 0 ELSE tail + 1) /\ tail' \in Slots
  BY SuccIs DEF Enqueue, TypeOK
<1>2. Count # QSIZE - 1 /\ Count \in 0 .. QSIZE - 1
  BY CountFacts DEF Enqueue
<1>3. Count' = Count + 1
  BY <1>1, <1>2 DEF Enqueue, Count, TypeOK, Slots
<1>4. ASSUME NEW i \in 1 .. Count + 1 PROVE SlotOf(i)' = SlotOf(i)
  BY <1>2 DEF Enqueue, SlotOf
<1>5. queue' = [queue EXCEPT ![tail] = push_msg]
  BY DEF Enqueue
<1>6. \A i \in 1 .. Count : queue'[SlotOf(i)'] = queue[SlotOf(i)]
  <2> TAKE i \in 1 .. Count
  <2>1. SlotOf(i)' = SlotOf(i)
    BY <1>2, <1>4
  <2>2. SlotOf(i) \in Slots /\ SlotOf(i) # tail
    BY CountFacts
  <2> QED BY <1>5, <2>1, <2>2 DEF TypeOK
<1>7. (queue[SlotOf(Count)])' = push_msg
  <2>1. ASSUME NEW i, i = Count + 1 PROVE SlotOf(i)' = tail
    <3>1. SlotOf(i) = tail
      BY <2>1, CountFacts
    <3> QED BY <1>2, <1>4, <2>1, <3>1
  <2>2. SlotOf(Count)' = tail
    BY <1>3, <2>1
  <2> QED BY <1>5, <2>2 DEF TypeOK
<1> QED BY <1>1, <1>3, <1>6, <1>7

\* Dequeue removes the oldest message; the others move up by one place.
LEMMA DequeueFacts ==
    ASSUME TypeOK, Dequeue
    PROVE  /\ head' \in Slots
           /\ Count \in 1 .. QSIZE - 1
           /\ Count' = Count - 1
           /\ pop_msg' = queue[SlotOf(1)]
           /\ \A i \in 1 .. Count' : queue'[SlotOf(i)'] = queue[SlotOf(i + 1)]
<1> USE QSizeAssumption
<1>1. head' = (IF head + 1 = QSIZE THEN 0 ELSE head + 1) /\ head' \in Slots
  BY SuccIs DEF Dequeue, TypeOK
<1>2. Count \in 1 .. QSIZE - 1
  BY CountFacts DEF Dequeue
<1>3. Count' = Count - 1
  BY <1>1, <1>2 DEF Dequeue, Count, TypeOK, Slots
<1>4. ASSUME NEW i \in 1 .. Count' PROVE SlotOf(i)' = SlotOf(i + 1)
  BY <1>1, <1>2, <1>3 DEF Dequeue, SlotOf, TypeOK, Slots
<1>5. pop_msg' = queue[SlotOf(1)]
  BY CountFacts DEF Dequeue
<1> QED BY <1>1, <1>2, <1>3, <1>4, <1>5 DEF Dequeue

(****************************************************************************)
(* IInv is inductive.                                                       *)
(****************************************************************************)

\* The zero-initialised queue satisfies the invariant.
LEMMA InitIInv == Init => IInv
<1> SUFFICES ASSUME Init PROVE IInv
  OBVIOUS
<1>1. TypeOK
  <2>1. queue \in [Slots -> Msgs \cup {NoMsg}]
    BY DEF Init
  <2>2. head \in Slots /\ tail \in Slots /\ g_drop_count \in 0 .. MaxDrops
    BY QSizeAssumption, MaxDropsAssumption DEF Init, Slots
  <2> QED BY <2>1, <2>2 DEF Init, TypeOK
<1>2. ThreadsHold /\ NoLostWakeup
  BY DEF Init, ThreadsHold, NoLostWakeup
<1>3. SlotsWritten
  <2>1. Count = 0
    BY DEF Init, Count
  <2> QED BY <2>1 DEF SlotsWritten
<1> QED BY <1>1, <1>2, <1>3 DEF IInv

\* A step that leaves the ring alone leaves what is stored in it alone.
LEMMA RingUnchanged ==
    ASSUME SlotsWritten, UNCHANGED ring
    PROVE  /\ SlotsWritten'
           /\ Full' = Full
           /\ Empty' = Empty
           /\ Contents' = Contents
BY DEF SlotsWritten, Count, SlotOf, Full, Empty, Succ, ring, Contents

\* Storing the message of a running push preserves the invariant.
LEMMA EnqueueIInv ==
    ASSUME IInv, Enqueue, push_pc # "idle"
    PROVE  IInv'
<1> USE QSizeAssumption, NoMsgAssumption DEF IInv
<1>1. push_msg \in Msgs
  BY DEF ThreadsHold, TypeOK
<1>2. TypeOK'
  BY <1>1, EnqueueFacts DEF TypeOK, Enqueue, Signalled
<1>3. ThreadsHold'
  BY DEF TypeOK, ThreadsHold, Enqueue, Signalled
<1>4. SlotsWritten'
  <2>1. Count \in Nat
    BY CountFacts
  <2>2. ASSUME NEW i \in 1 .. Count' PROVE queue'[SlotOf(i)'] \in Msgs
    <3>1. CASE i \in 1 .. Count
      BY <3>1, EnqueueFacts DEF SlotsWritten
    <3>2. CASE i = Count'
      BY <1>1, <3>2, EnqueueFacts
    <3> QED BY <2>1, <2>2, <3>1, <3>2, EnqueueFacts
  <2> QED BY <2>2 DEF SlotsWritten
<1>5. NoLostWakeup'
  BY DEF NoLostWakeup, Enqueue, Signalled
<1> QED BY <1>2, <1>3, <1>4, <1>5

\* Handing a message to the dispatcher preserves the invariant.
LEMMA DequeueIInv ==
    ASSUME IInv, Dequeue, pop_pc \in {"call", "woken"}
    PROVE  IInv'
<1> USE QSizeAssumption, NoMsgAssumption DEF IInv
<1>1. pop_msg' \in Msgs
  BY DequeueFacts DEF SlotsWritten
<1>2. TypeOK'
  BY <1>1, DequeueFacts DEF TypeOK, Dequeue, Signalled
<1>3. ThreadsHold'
  BY <1>1 DEF TypeOK, ThreadsHold, Dequeue, Signalled
<1>4. SlotsWritten'
  BY DequeueFacts DEF SlotsWritten
<1>5. NoLostWakeup'
  BY DEF NoLostWakeup, Dequeue, Signalled
<1> QED BY <1>2, <1>3, <1>4, <1>5

\* Every step preserves the invariant.
LEMMA NextIInv == IInv /\ [Next]_vars => IInv'
<1> SUFFICES ASSUME IInv, [Next]_vars PROVE IInv'
  OBVIOUS
<1> USE DEF IInv
<1>1. ASSUME NEW m \in Msgs, PushCall(m) PROVE IInv'
  <2>1. UNCHANGED ring
    BY <1>1 DEF PushCall
  <2> QED BY <1>1, <2>1, RingUnchanged, NoMsgAssumption
          DEF PushCall, TypeOK, ThreadsHold, NoLostWakeup, popVars, ring
<1>2. CASE PushLock
  <2>1. CASE Enqueue
    BY <1>2, <2>1, EnqueueIInv DEF PushLock
  <2>2. CASE ~Enqueue
    <3>1. UNCHANGED ring
      BY <1>2, <2>2 DEF PushLock
    <3> QED BY <1>2, <2>2, <3>1, RingUnchanged
            DEF PushLock, TypeOK, ThreadsHold, NoLostWakeup, popVars, ring
  <2> QED BY <2>1, <2>2
<1>3. CASE PushRecheck
  <2>1. CASE Enqueue
    BY <1>3, <2>1, EnqueueIInv DEF PushRecheck
  <2>2. CASE ~Enqueue
    <3>1. UNCHANGED ring
      BY <1>3, <2>2 DEF PushRecheck
    <3> QED BY <1>3, <2>2, <3>1, RingUnchanged
            DEF PushRecheck, TypeOK, ThreadsHold, NoLostWakeup, popVars, ring
  <2> QED BY <2>1, <2>2
<1>4. CASE DeadlinePasses
  <2>1. UNCHANGED ring
    BY <1>4 DEF DeadlinePasses
  <2> QED BY <1>4, <2>1, RingUnchanged
          DEF DeadlinePasses, TypeOK, ThreadsHold, NoLostWakeup, popVars, ring
<1>5. CASE PushSpurious
  <2>1. UNCHANGED ring
    BY <1>5 DEF PushSpurious
  <2> QED BY <1>5, <2>1, RingUnchanged
          DEF PushSpurious, TypeOK, ThreadsHold, NoLostWakeup, popVars, ring
<1>6. CASE PushTimeout
  <2>1. UNCHANGED ring
    BY <1>6 DEF PushTimeout
  <2> QED BY <1>6, <2>1, RingUnchanged
          DEF PushTimeout, TypeOK, ThreadsHold, NoLostWakeup, popVars, ring
<1>7. CASE PushDrop
  <2>1. UNCHANGED ring
    BY <1>7 DEF PushDrop
  <2>2. g_drop_count' \in 0 .. MaxDrops
    BY <1>7, MaxDropsAssumption DEF PushDrop, TypeOK, ThreadsHold
  <2> QED BY <1>7, <2>1, <2>2, RingUnchanged
          DEF PushDrop, TypeOK, ThreadsHold, NoLostWakeup, popVars, ring
<1>8. CASE PopLock
  <2>1. CASE Dequeue
    BY <1>8, <2>1, DequeueIInv DEF PopLock
  <2>2. CASE ~Dequeue
    <3>1. UNCHANGED ring
      BY <1>8, <2>2 DEF PopLock
    <3> QED BY <1>8, <2>2, <3>1, RingUnchanged
            DEF PopLock, TypeOK, ThreadsHold, NoLostWakeup, pushVars, ring
  <2> QED BY <2>1, <2>2
<1>9. CASE PopSpurious
  <2>1. UNCHANGED ring
    BY <1>9 DEF PopSpurious
  <2> QED BY <1>9, <2>1, RingUnchanged
          DEF PopSpurious, TypeOK, ThreadsHold, NoLostWakeup, pushVars, ring
<1>10. CASE HandlerReturns
  <2>1. UNCHANGED ring
    BY <1>10 DEF HandlerReturns
  <2> QED BY <1>10, <2>1, RingUnchanged
          DEF HandlerReturns, TypeOK, ThreadsHold, NoLostWakeup, pushVars, ring
<1>11. CASE UNCHANGED vars
  <2>1. UNCHANGED ring
    BY <1>11 DEF vars
  <2> QED BY <1>11, <2>1, RingUnchanged
          DEF vars, TypeOK, ThreadsHold, NoLostWakeup, pushVars, popVars, ring
<1> QED BY <1>1, <1>2, <1>3, <1>4, <1>5, <1>6, <1>7, <1>8, <1>9, <1>10, <1>11 DEF Next

(****************************************************************************)
(* The theorems.                                                            *)
(****************************************************************************)

\* The invariant holds in every reachable state.
LEMMA Invariance == Spec => []IInv
BY InitIInv, NextIInv, PTL DEF Spec

\* queue_push and queue_pop only ever leave indices inside the ring, for every
\* ring size: the writes of event_queue.c:57 and :71 stay in the array.
THEOREM TypeCorrect == Spec => []TypeOK
<1>1. IInv => TypeOK
  BY DEF IInv
<1> QED BY Invariance, <1>1, PTL

\* Signalling one condition variable once per push and per pop is enough: no
\* thread sleeps on a condition that already holds.
THEOREM WakeupsAreNotLost == Spec => []NoLostWakeup
<1>1. IInv => NoLostWakeup
  BY DEF IInv
<1> QED BY Invariance, <1>1, PTL

\* Contents is a sequence of Count messages, read off the ring.
ContentsReadOff == /\ Contents \in Seq(Msgs)
                   /\ Len(Contents) = Count
                   /\ Count \in Nat
                   /\ \A i \in 1 .. Count : Contents[i] = queue[SlotOf(i)]

\* Between two critical sections the ring holds a sequence of messages.
LEMMA ContentsIs == TypeOK /\ SlotsWritten => ContentsReadOff
<1> SUFFICES ASSUME TypeOK, SlotsWritten PROVE ContentsReadOff
  OBVIOUS
<1>1. Count \in Nat
  BY CountFacts, QSizeAssumption
<1>2. Contents \in [1 .. Count -> Msgs]
  BY DEF Contents, SlotsWritten
<1>3. Contents \in Seq(Msgs) /\ Len(Contents) = Count
  BY <1>1, <1>2
<1> QED BY <1>1, <1>3 DEF Contents, ContentsReadOff

\* The same after a step.
LEMMA ContentsIsNext == (TypeOK /\ SlotsWritten)' => ContentsReadOff'
BY ContentsIs, PTL

\* Storing a message is the abstract Accept.
LEMMA EnqueueAccepts ==
    ASSUME IInv, Enqueue, push_pc # "idle"
    PROVE  Fifo!Accept
<1> USE DEF IInv
<1>1. TypeOK' /\ SlotsWritten'
  BY EnqueueIInv
<1>2. Contents' = Append(Contents, push_msg)
  <2>1. push_msg \in Msgs
    BY DEF ThreadsHold, TypeOK
  <2>2. Contents \in Seq(Msgs) /\ Len(Contents) = Count /\ Count \in Nat
    BY ContentsIs DEF ContentsReadOff
  <2>3. Contents' \in Seq(Msgs) /\ Len(Contents)' = Count + 1
    BY <1>1, ContentsIsNext, EnqueueFacts DEF ContentsReadOff
  <2>4. ASSUME NEW i \in 1 .. Count + 1
        PROVE  Contents'[i] = Append(Contents, push_msg)[i]
    <3>1. Contents'[i] = queue'[SlotOf(i)']
      BY <1>1, ContentsIsNext, EnqueueFacts DEF ContentsReadOff
    <3>2. CASE i \in 1 .. Count
      BY <2>1, <2>2, <3>1, <3>2, ContentsIs, EnqueueFacts DEF ContentsReadOff
    <3>3. CASE i = Count'
      BY <2>1, <2>2, <3>1, <3>3, EnqueueFacts
    <3> QED BY <2>2, <2>4, <3>2, <3>3, EnqueueFacts
  <2> QED BY <2>1, <2>2, <2>3, <2>4
<1>3. Len(Contents) < QSIZE - 1
  BY ContentsIs, CountFacts, QSizeAssumption DEF Enqueue, ContentsReadOff
<1> QED BY <1>2, <1>3, NoMsgAssumption
        DEF Fifo!Accept, Enqueue, ThreadsHold

\* Handing a message to the dispatcher is the abstract Take.
LEMMA DequeueTakes ==
    ASSUME IInv, Dequeue, pop_pc \in {"call", "woken"}
    PROVE  Fifo!Take
<1> USE DEF IInv
<1>1. TypeOK' /\ SlotsWritten'
  BY DequeueIInv
<1>2. Contents \in Seq(Msgs) /\ Len(Contents) = Count /\ Count \in Nat
  BY ContentsIs DEF ContentsReadOff
<1>3. Contents # <<>> /\ pop_msg' = Head(Contents)
  BY <1>2, ContentsIs, DequeueFacts, QSizeAssumption DEF ContentsReadOff
<1>4. Contents' = Tail(Contents)
  <2>1. Contents' \in Seq(Msgs) /\ Len(Contents)' = Count - 1
    BY <1>1, ContentsIsNext, DequeueFacts DEF ContentsReadOff
  <2>2. ASSUME NEW i \in 1 .. Count - 1
        PROVE  Contents'[i] = Tail(Contents)[i]
    <3>1. Contents'[i] = queue'[SlotOf(i)']
      BY <1>1, ContentsIsNext, DequeueFacts DEF ContentsReadOff
    <3>2. queue'[SlotOf(i)'] = Contents[i + 1]
      BY <1>2, ContentsIs, DequeueFacts DEF ContentsReadOff
    <3> QED BY <1>2, <1>3, <3>1, <3>2
  <2> QED BY <1>2, <1>3, <2>1, <2>2
<1> QED BY <1>3, <1>4 DEF Fifo!Take, Dequeue, ThreadsHold

\* The ring with its mutex, condition variables and timeout implements the
\* bounded FIFO of QUEUE_SIZE - 1 places, for every size: accepted messages
\* come out once each, in order, and a push is accepted or counted as dropped.
THEOREM QueueImplementsFifo == Spec => ImplementsFifo
<1>1. Init => Fifo!Init
  <2> SUFFICES ASSUME Init PROVE Fifo!Init
    OBVIOUS
  <2>1. Count = 0
    BY DEF Init, Count
  <2>2. Contents = <<>>
    BY <2>1 DEF Contents
  <2> QED BY <2>2 DEF Init, Fifo!Init
<1>2. IInv /\ [Next]_vars => [Fifo!Next]_(Fifo!vars)
  <2> SUFFICES ASSUME IInv, [Next]_vars PROVE [Fifo!Next]_(Fifo!vars)
    OBVIOUS
  <2> USE DEF IInv
  <2>0. UNCHANGED ring => Contents' = Contents
    BY RingUnchanged
  <2>1. ASSUME NEW m \in Msgs, PushCall(m) PROVE Fifo!Offer(m)
    BY <2>0, <2>1 DEF PushCall, Fifo!Offer, ThreadsHold, popVars, ring
  <2>2. CASE PushLock
    BY <2>0, <2>2, EnqueueAccepts
       DEF PushLock, Fifo!Next, Fifo!vars, popVars, ring
  <2>3. CASE PushRecheck
    BY <2>0, <2>3, EnqueueAccepts
       DEF PushRecheck, Fifo!Next, Fifo!vars, popVars, ring
  <2>4. CASE DeadlinePasses
    BY <2>0, <2>4 DEF DeadlinePasses, Fifo!vars, popVars, ring
  <2>5. CASE PushSpurious
    BY <2>0, <2>5 DEF PushSpurious, Fifo!vars, popVars, ring
  <2>6. CASE PushTimeout
    BY <2>0, <2>6 DEF PushTimeout, Fifo!vars, popVars, ring
  <2>7. CASE PushDrop
    BY <2>0, <2>7 DEF PushDrop, Fifo!Next, Fifo!Drop, ThreadsHold, popVars, ring
  <2>8. CASE PopLock
    BY <2>0, <2>8, DequeueTakes
       DEF PopLock, Fifo!Next, Fifo!vars, pushVars, ring
  <2>9. CASE PopSpurious
    BY <2>0, <2>9 DEF PopSpurious, Fifo!vars, pushVars, ring
  <2>10. CASE HandlerReturns
    BY <2>0, <2>10
       DEF HandlerReturns, Fifo!Next, Fifo!Finish, ThreadsHold, pushVars, ring
  <2>11. CASE UNCHANGED vars
    BY <2>0, <2>11 DEF vars, Fifo!vars, pushVars, popVars, ring
  <2> QED BY <2>1, <2>2, <2>3, <2>4, <2>5, <2>6, <2>7, <2>8, <2>9, <2>10, <2>11
          DEF Next, Fifo!Next
<1> QED BY Invariance, <1>1, <1>2, PTL DEF Spec, ImplementsFifo, Fifo!Spec
===============================================================================
