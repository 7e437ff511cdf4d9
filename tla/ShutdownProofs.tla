---------------------------- MODULE ShutdownProofs ----------------------------
(****************************************************************************)
(* What is proved of the event queue holds in the running daemon, from      *)
(* SIGTERM to the last join included.                                       *)
(****************************************************************************)
EXTENDS Shutdown, EventQueueProofs

\* Each step of the daemon is a step of the queue or leaves it alone.
LEMMA LifeStep == LifeNext => [Next]_vars
<1> SUFFICES ASSUME LifeNext PROVE Next \/ UNCHANGED vars
  OBVIOUS
<1>1. CASE ReactorCheck \/ EpollReturns \/ BatchDone
  BY <1>1 DEF ReactorCheck, EpollReturns, BatchDone, ReactorMoves
<1>2. CASE \E m \in Msgs : Route(m)
  BY <1>2 DEF Route, Next
<1>3. CASE InPush
  BY <1>3 DEF InPush, Next
<1>4. CASE Clock \/ Spurious
  BY <1>4 DEF Clock, Spurious, Next
<1>5. CASE InPop \/ Handled
  BY <1>5 DEF InPop, Handled, Next
<1>6. CASE AcceptReturns \/ ClientCheck \/ RecvReturns
  BY <1>6 DEF AcceptReturns, ClientCheck, RecvReturns, IpcMoves
<1>7. CASE SleepEnds \/ Join
  BY <1>7 DEF SleepEnds, Join, MainMoves
<1>8. CASE Signal
  BY <1>8 DEF Signal
<1> QED
  BY <1>1, <1>2, <1>3, <1>4, <1>5, <1>6, <1>7, <1>8 DEF LifeNext

\* The daemon uses the queue as queue_push and queue_pop allow: one caller of
\* each, and neither is called again before it has returned.
THEOREM LifeImplementsQueue == LifeSpec => Spec
<1>1. LifeInit => Init
  BY DEF LifeInit
<1>2. [LifeNext]_allVars => [Next]_vars
  BY LifeStep DEF allVars
<1> QED
  BY <1>1, <1>2, PTL DEF LifeSpec, Spec

\* No thread of the daemon sleeps on a condition that holds, for every size of
\* the ring, also while the daemon stops.
THEOREM LifeKeepsWakeups == LifeSpec => []NoLostWakeup
  BY LifeImplementsQueue, WakeupsAreNotLost, PTL

\* Control locations of the four threads, and the queue under them, keep their
\* types.
THEOREM LifeTypeCorrect == LifeSpec => []LifeTypeOK
<1>1. LifeInit => LifeTypeOK
  <2> SUFFICES ASSUME LifeInit PROVE LifeTypeOK
    OBVIOUS
  <2>1. TypeOK
    BY InitIInv DEF LifeInit, IInv
  <2> QED BY <2>1, BatchAssumption DEF LifeInit, LifeTypeOK, Started
<1>2. LifeTypeOK /\ TypeOK' /\ [LifeNext]_allVars => LifeTypeOK'
  <2> SUFFICES ASSUME LifeTypeOK, TypeOK', [LifeNext]_allVars PROVE LifeTypeOK'
    OBVIOUS
  <2> USE BatchAssumption DEF LifeTypeOK, threads
  <2>1. CASE ReactorCheck \/ EpollReturns \/ BatchDone
    BY <2>1 DEF ReactorCheck, EpollReturns, BatchDone, ReactorMoves, Loop
  <2>2. CASE \E m \in Msgs : Route(m)
    BY <2>2 DEF Route
  <2>3. CASE InPush \/ Clock \/ Spurious \/ InPop
    BY <2>3 DEF InPush, Clock, Spurious, InPop
  <2>4. CASE Handled
    BY <2>4 DEF Handled, Loop
  <2>5. CASE AcceptReturns \/ ClientCheck \/ RecvReturns
    BY <2>5 DEF AcceptReturns, ClientCheck, RecvReturns, IpcMoves, Loop
  <2>6. CASE SleepEnds \/ Join
    BY <2>6 DEF SleepEnds, Join, MainMoves, Loop
  <2>7. CASE Signal
    BY <2>7 DEF Signal
  <2>8. CASE UNCHANGED allVars
    BY <2>8 DEF allVars
  <2> QED
    BY <2>1, <2>2, <2>3, <2>4, <2>5, <2>6, <2>7, <2>8 DEF LifeNext
<1> QED
  BY <1>1, <1>2, LifeImplementsQueue, TypeCorrect, PTL DEF LifeSpec

\* Between reactor and dispatcher lies a bounded FIFO, for every size of the
\* ring and of the reactor's batches.
THEOREM LifeImplementsFifo == LifeSpec => ImplementsFifo
  BY LifeImplementsQueue, QueueImplementsFifo, PTL
=============================================================================
