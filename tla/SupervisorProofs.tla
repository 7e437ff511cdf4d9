--------------------------- MODULE SupervisorProofs ---------------------------
(****************************************************************************)
(* Proofs about Supervisor for every table size, every set of threads and   *)
(* every set of process ids.                                                *)
(****************************************************************************)
EXTENDS Supervisor, TLAPS

\* Before somebody has initialised the table nobody uses it: that is why the
\* memset of supervisor_init, however late it comes, deletes nothing.
InitFirst == /\ ~g_inited => \A i \in Slots : g_children[i] = NoPid
             /\ \A c \in Callers : pc[c] \notin {"idle", "init"} => g_inited

\* What a caller brings to the second critical section.
Carried == \A c \in Callers :
              /\ pc[c] \in {"fork", "record", "kill"} => slot[c] \in Slots
              /\ InHand(c) => pid[c] \in Pids

IInv == TypeOK /\ InitFirst /\ Carried /\ KilledOnlyWhenFull /\ NoOrphans

USE SupervisorAssumption

\* No step changes a record that is in use.
LEMMA StepKeepsRecords ==
    ASSUME IInv, Next, NEW i \in Slots, Used(i)
    PROVE  g_children'[i] = g_children[i]
<1>1. ASSUME NEW c \in Callers, Call(c) \/ Pick(c) \/ Fork(c) \/ Kill(c)
      PROVE  g_children' = g_children
  BY <1>1 DEF Call, Pick, Fork, Kill
<1>2. ASSUME NEW c \in Callers, InitTable(c)
      PROVE  g_children'[i] = g_children[i]
  BY <1>2 DEF InitTable, IInv, InitFirst, Used
<1>3. ASSUME NEW c \in Callers, Record(c)
      PROVE  g_children'[i] = g_children[i]
  BY <1>3 DEF Record, IInv, TypeOK, Used
<1>4. ASSUME NEW p \in Pids, Exit(p)
      PROVE  g_children' = g_children
  BY <1>4 DEF Exit
<1> QED BY <1>1, <1>2, <1>3, <1>4 DEF Next

\* So a full table stays full.
LEMMA FullIsStable == ASSUME IInv, Next, Full PROVE Full'
  BY StepKeepsRecords DEF Full, Used

\* Control locations, locals and records keep their types.
LEMMA StepTypeOK == ASSUME IInv, Next PROVE TypeOK'
<1>1. ASSUME NEW c \in Callers, Call(c) PROVE TypeOK'
  BY <1>1 DEF Call, IInv, TypeOK
<1>2. ASSUME NEW c \in Callers, InitTable(c) PROVE TypeOK'
  BY <1>2 DEF InitTable, IInv, TypeOK
<1>3. ASSUME NEW c \in Callers, Pick(c) PROVE TypeOK'
  BY <1>3 DEF Pick, Return, IInv, TypeOK
<1>4. ASSUME NEW c \in Callers, Fork(c) PROVE TypeOK'
  BY <1>4 DEF Fork, Return, IInv, TypeOK
<1>5. ASSUME NEW c \in Callers, Record(c) PROVE TypeOK'
  BY <1>5 DEF Record, Return, IInv, TypeOK, Carried, InHand
<1>6. ASSUME NEW c \in Callers, Kill(c) PROVE TypeOK'
  BY <1>6 DEF Kill, Return, IInv, TypeOK
<1>7. ASSUME NEW p \in Pids, Exit(p) PROVE TypeOK'
  BY <1>7 DEF Exit, locals, IInv, TypeOK
<1> QED BY <1>1, <1>2, <1>3, <1>4, <1>5, <1>6, <1>7 DEF Next

LEMMA StepInitFirst == ASSUME IInv, Next PROVE InitFirst'
<1>1. ASSUME NEW c \in Callers, Call(c) PROVE InitFirst'
  BY <1>1 DEF Call, IInv, TypeOK, InitFirst
<1>2. ASSUME NEW c \in Callers, InitTable(c) PROVE InitFirst'
  BY <1>2 DEF InitTable, IInv, TypeOK, InitFirst
<1>3. ASSUME NEW c \in Callers, Pick(c) PROVE InitFirst'
  BY <1>3 DEF Pick, Return, IInv, TypeOK, InitFirst
<1>4. ASSUME NEW c \in Callers, Fork(c) PROVE InitFirst'
  BY <1>4 DEF Fork, Return, IInv, TypeOK, InitFirst
<1>5. ASSUME NEW c \in Callers, Record(c) PROVE InitFirst'
  BY <1>5 DEF Record, Return, IInv, TypeOK, InitFirst
<1>6. ASSUME NEW c \in Callers, Kill(c) PROVE InitFirst'
  BY <1>6 DEF Kill, Return, IInv, TypeOK, InitFirst
<1>7. ASSUME NEW p \in Pids, Exit(p) PROVE InitFirst'
  BY <1>7 DEF Exit, locals, IInv, TypeOK, InitFirst
<1> QED BY <1>1, <1>2, <1>3, <1>4, <1>5, <1>6, <1>7 DEF Next

LEMMA StepCarried == ASSUME IInv, Next PROVE Carried'
<1>1. ASSUME NEW c \in Callers, Call(c) PROVE Carried'
  BY <1>1 DEF Call, IInv, TypeOK, Carried, InHand
<1>2. ASSUME NEW c \in Callers, InitTable(c) PROVE Carried'
  BY <1>2 DEF InitTable, IInv, TypeOK, Carried, InHand
<1>3. ASSUME NEW c \in Callers, Pick(c) PROVE Carried'
  BY <1>3 DEF Pick, Return, IInv, TypeOK, Carried, InHand
<1>4. ASSUME NEW c \in Callers, Fork(c) PROVE Carried'
  BY <1>4 DEF Fork, Return, IInv, TypeOK, Carried, InHand
<1>5. ASSUME NEW c \in Callers, Record(c) PROVE Carried'
  BY <1>5 DEF Record, Return, IInv, TypeOK, Carried, InHand
<1>6. ASSUME NEW c \in Callers, Kill(c) PROVE Carried'
  BY <1>6 DEF Kill, Return, IInv, TypeOK, Carried, InHand
<1>7. ASSUME NEW p \in Pids, Exit(p) PROVE Carried'
  BY <1>7 DEF Exit, locals, IInv, TypeOK, Carried, InHand
<1> QED BY <1>1, <1>2, <1>3, <1>4, <1>5, <1>6, <1>7 DEF Next

\* Only Record enters "kill", and only with a full table.
LEMMA StepKilled == ASSUME IInv, Next PROVE KilledOnlyWhenFull'
<1> SUFFICES ASSUME NEW d \in Callers, pc'[d] = "kill" PROVE Full'
  BY DEF KilledOnlyWhenFull
<1>1. CASE pc[d] = "kill"
  BY <1>1, FullIsStable DEF IInv, KilledOnlyWhenFull
<1>2. CASE pc[d] # "kill"
  <2>1. ASSUME NEW c \in Callers, Call(c) \/ InitTable(c) \/ Pick(c) \/ Fork(c) \/ Kill(c)
        PROVE  FALSE
    BY <1>2, <2>1 DEF Call, InitTable, Pick, Fork, Kill, Return, IInv, TypeOK
  <2>2. ASSUME NEW c \in Callers, Record(c)
        PROVE  Full
    BY <1>2, <2>2 DEF Record, Return, IInv, TypeOK
  <2>3. ASSUME NEW p \in Pids, Exit(p)
        PROVE  FALSE
    BY <1>2, <2>3 DEF Exit, locals
  <2> QED BY <2>1, <2>2, <2>3, FullIsStable DEF Next
<1> QED BY <1>1, <1>2

\* A pid goes from fork's result to the spawner's hand, and from there to the
\* table or to kill.
LEMMA StepNoOrphans == ASSUME IInv, Next PROVE NoOrphans'
<1> SUFFICES ASSUME NEW p \in running'
             PROVE  \/ \E i \in Slots : g_children'[i] = p
                    \/ \E c \in Callers : InHand(c)' /\ pid'[c] = p
  BY DEF NoOrphans
<1>0. p \in Pids
  BY StepTypeOK DEF TypeOK
<1>1. CASE \E i \in Slots : g_children[i] = p
  BY <1>0, <1>1, StepKeepsRecords DEF Used
<1>2. ASSUME NEW d \in Callers, InHand(d), pid[d] = p
      PROVE  \/ \E i \in Slots : g_children'[i] = p
             \/ \E c \in Callers : InHand(c)' /\ pid'[c] = p
  <2>1. ASSUME NEW c \in Callers, Call(c) \/ InitTable(c) \/ Pick(c) \/ Fork(c)
        PROVE  InHand(d)' /\ pid'[d] = p
    BY <1>2, <2>1 DEF Call, InitTable, Pick, Fork, Return, InHand, IInv, TypeOK
  <2>2. ASSUME NEW c \in Callers, Record(c), c # d
        PROVE  InHand(d)' /\ pid'[d] = p
    BY <1>2, <2>2 DEF Record, Return, InHand, IInv, TypeOK
  <2>3. CASE Record(d)
    BY <1>2, <2>3 DEF Record, Return, InHand, IInv, TypeOK
  <2>4. ASSUME NEW c \in Callers, Kill(c)
        PROVE  InHand(d)' /\ pid'[d] = p
    <3>1. p # pid[c]
      BY <2>4 DEF Kill
    <3>2. c # d
      BY <3>1, <1>2
    <3> QED BY <1>2, <2>4, <3>2 DEF Kill, Return, InHand, IInv, TypeOK
  <2>5. ASSUME NEW q \in Pids, Exit(q)
        PROVE  InHand(d)' /\ pid'[d] = p
    BY <1>2, <2>5 DEF Exit, locals, InHand
  <2> QED BY <2>1, <2>2, <2>3, <2>4, <2>5 DEF Next
<1>3. CASE p \notin running
  <2>1. ASSUME NEW c \in Callers, Call(c) \/ InitTable(c) \/ Pick(c) \/ Record(c) \/ Kill(c)
        PROVE  FALSE
    BY <1>3, <2>1 DEF Call, InitTable, Pick, Record, Kill
  <2>2. ASSUME NEW c \in Callers, Fork(c)
        PROVE  InHand(c)' /\ pid'[c] = p
    BY <1>3, <2>2 DEF Fork, InHand, IInv, TypeOK
  <2>3. ASSUME NEW q \in Pids, Exit(q)
        PROVE  FALSE
    BY <1>3, <2>3 DEF Exit
  <2> QED BY <2>1, <2>2, <2>3 DEF Next
<1> QED BY <1>1, <1>2, <1>3 DEF IInv, NoOrphans

LEMMA InitIInv == Init => IInv
  BY DEF Init, IInv, TypeOK, InitFirst, Carried, InHand, KilledOnlyWhenFull, NoOrphans

LEMMA StepIInv == IInv /\ [Next]_vars => IInv'
<1>1. ASSUME IInv, Next PROVE IInv'
  BY <1>1, StepTypeOK, StepInitFirst, StepCarried, StepKilled, StepNoOrphans DEF IInv
<1>2. ASSUME IInv, UNCHANGED vars PROVE IInv'
  BY <1>2 DEF vars, locals, IInv, TypeOK, InitFirst, Carried, InHand, KilledOnlyWhenFull,
              Full, Used, NoOrphans
<1> QED BY <1>1, <1>2

\* The strengthened invariant holds.
THEOREM Invariance == Spec => []IInv
  BY InitIInv, StepIInv, PTL DEF Spec

\* Records, locals and control locations keep their types.
THEOREM TypeCorrect == Spec => []TypeOK
<1>1. IInv => TypeOK
  BY DEF IInv
<1> QED BY Invariance, <1>1, PTL

\* However many threads spawn at once, and whenever children end and pids come
\* back, no running child is unknown to the supervisor.
THEOREM ChildrenAreKnown == Spec => []NoOrphans
<1>1. IInv => NoOrphans
  BY DEF IInv
<1> QED BY Invariance, <1>1, PTL

\* A child is given up only for want of room.
THEOREM KilledForRoom == Spec => []KilledOnlyWhenFull
<1>1. IInv => KilledOnlyWhenFull
  BY DEF IInv
<1> QED BY Invariance, <1>1, PTL

\* No record is ever overwritten.
THEOREM RecordsStay == Spec => RecordsAreKept
<1>1. IInv /\ [Next]_vars => [\A i \in Slots : Used(i) => g_children'[i] = g_children[i]]_vars
  BY StepKeepsRecords
<1> QED BY Invariance, <1>1, PTL DEF Spec, RecordsAreKept
=============================================================================
