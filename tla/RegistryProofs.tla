---------------------------- MODULE RegistryProofs ----------------------------
(****************************************************************************)
(* Proofs about Registry for every table size, every set of descriptors and *)
(* device ids, and every truncation.                                        *)
(****************************************************************************)
EXTENDS Registry, TLAPS

\* UniqueEntries needs the types only; together they are inductive.
IInv == TypeOK /\ UniqueEntries

\* The tag tells an entry from a free slot.
LEMMA EntryFacts ==
    ASSUME TypeOK, NEW i \in Slots
    PROVE  /\ Used(i) => g_table[i] \in Entry
           /\ ~Used(i) => g_table[i] = NoEntry
<1>1. g_table[i] \in Entry \/ g_table[i] = NoEntry
  BY DEF TypeOK
<1>2. g_table[i] \in Entry => g_table[i].in_use = TRUE
  BY DEF Entry
<1>3. g_table[i] = NoEntry => g_table[i].in_use = FALSE
  BY DEF NoEntry
<1> QED BY <1>1, <1>2, <1>3, Zenon DEF Used

\* A successful registry_register keeps types and uniqueness.
LEMMA RegisterIInv ==
    ASSUME IInv, NEW fd \in Fds, NEW id \in RawIds, Register(fd, id), UNCHANGED now
    PROVE  IInv'
<1> DEFINE new == [in_use |-> TRUE, client_fd |-> fd, device_id |-> Trunc[id],
                   last_heartbeat_ms |-> now]
<1>1. PICK k \in Slots : FirstFree(k) /\ g_table' = [g_table EXCEPT ![k] = new]
  BY DEF Register
<1>2. new \in Entry
  BY TruncAssumption DEF IInv, TypeOK, Entry
<1>3. TypeOK'
  BY <1>1, <1>2 DEF IInv, TypeOK
<1>4. ASSUME NEW i \in Slots, i # k PROVE g_table'[i] = g_table[i]
  BY <1>1, <1>4 DEF IInv, TypeOK
<1>5. g_table'[k] = new
  BY <1>1 DEF IInv, TypeOK
<1>6. ASSUME NEW i \in Slots, i # k, Used(i)
      PROVE  g_table[i].client_fd # fd /\ g_table[i].device_id # Trunc[id]
  BY <1>6 DEF Register, Admits
<1>7. UniqueEntries'
  <2> SUFFICES ASSUME NEW i \in Slots, NEW j \in Slots, Used(i)', Used(j)', i # j
               PROVE  /\ g_table'[i].client_fd # g_table'[j].client_fd
                      /\ g_table'[i].device_id # g_table'[j].device_id
    BY DEF UniqueEntries
  <2>1. CASE i # k /\ j # k
    BY <1>4, <2>1 DEF IInv, UniqueEntries, Used
  <2>2. CASE i = k
    BY <1>4, <1>5, <1>6, <2>2 DEF Used
  <2>3. CASE j = k
    BY <1>4, <1>5, <1>6, <2>3 DEF Used
  <2> QED BY <2>1, <2>2, <2>3
<1> QED BY <1>3, <1>7 DEF IInv

\* registry_unregister keeps types and uniqueness.
LEMMA UnregisterIInv ==
    ASSUME IInv, NEW fd \in Fds, Unregister(fd), UNCHANGED now
    PROVE  IInv'
<1>1. TypeOK'
  BY DEF IInv, TypeOK, Unregister
<1>2. ASSUME NEW i \in Slots, Used(i)' PROVE g_table'[i] = g_table[i]
  BY <1>2 DEF Unregister, Used, NoEntry
<1>3. UniqueEntries'
  BY <1>2 DEF IInv, UniqueEntries, Used
<1> QED BY <1>1, <1>3 DEF IInv

\* registry_update_heartbeat changes the time of an entry and nothing else.
LEMMA HeartbeatFacts ==
    ASSUME TypeOK, NEW fd \in Fds, NEW t \in 0 .. now, UpdateHeartbeat(fd, t),
           NEW i \in Slots
    PROVE  /\ g_table'[i] \in Entry \cup {NoEntry}
           /\ Used(i)' = Used(i)
           /\ Used(i) => /\ g_table'[i].client_fd = g_table[i].client_fd
                         /\ g_table'[i].device_id = g_table[i].device_id
<1>1. CASE i \in Of(fd)
  <2>1. g_table[i] \in Entry
    BY <1>1, EntryFacts DEF Of
  <2>2. g_table'[i] = [g_table[i] EXCEPT !.last_heartbeat_ms = t]
    BY <1>1 DEF UpdateHeartbeat
  <2>3. t \in 0 .. MaxTime
    BY TimeAssumption DEF TypeOK
  <2> QED BY <2>1, <2>2, <2>3 DEF Entry, Used
<1>2. CASE i \notin Of(fd)
  BY <1>2 DEF UpdateHeartbeat, TypeOK, Used
<1> QED BY <1>1, <1>2

\* So it keeps types and uniqueness.
LEMMA HeartbeatIInv ==
    ASSUME IInv, NEW fd \in Fds, NEW t \in 0 .. now, UpdateHeartbeat(fd, t), UNCHANGED now
    PROVE  IInv'
<1>1. \A i \in Slots : /\ g_table'[i] \in Entry \cup {NoEntry}
                       /\ Used(i)' = Used(i)
                       /\ Used(i) => /\ g_table'[i].client_fd = g_table[i].client_fd
                                     /\ g_table'[i].device_id = g_table[i].device_id
  BY HeartbeatFacts DEF IInv
<1>2. TypeOK'
  BY <1>1 DEF IInv, TypeOK, UpdateHeartbeat
<1>3. UniqueEntries'
  BY <1>1 DEF IInv, UniqueEntries
<1> QED BY <1>2, <1>3 DEF IInv

\* The invariant holds in every reachable state.
LEMMA Invariance == Spec => []IInv
<1>1. Init => IInv
  <2> SUFFICES ASSUME Init PROVE IInv
    OBVIOUS
  <2>1. \A i \in Slots : ~Used(i)
    BY DEF Init, Used, NoEntry
  <2>2. TypeOK
    BY TimeAssumption DEF Init, TypeOK
  <2> QED BY <2>1, <2>2 DEF IInv, UniqueEntries
<1>2. IInv /\ [Next]_vars => IInv'
  <2> SUFFICES ASSUME IInv, [Next]_vars PROVE IInv'
    OBVIOUS
  <2>1. CASE Tick
    BY <2>1, TimeAssumption DEF Tick, IInv, TypeOK, UniqueEntries, Used
  <2>2. CASE UNCHANGED vars
    BY <2>2 DEF vars, IInv, TypeOK, UniqueEntries, Used
  <2> QED BY <2>1, <2>2, RegisterIInv, UnregisterIInv, HeartbeatIInv DEF Next
<1> QED BY <1>1, <1>2, PTL DEF Spec

\* Every slot is free or holds a complete entry with a truncated device_id and
\* a time that is not in the future of the clock's bound.
THEOREM TypeCorrect == Spec => []TypeOK
<1>1. IInv => TypeOK
  BY DEF IInv
<1> QED BY <1>1, Invariance, PTL

\* Descriptors and device ids are unique in g_table, whatever the order of the
\* calls, the table size, and the collisions truncation creates.
THEOREM EntriesAreUnique == Spec => []UniqueEntries
<1>1. IInv => UniqueEntries
  BY DEF IInv
<1> QED BY <1>1, Invariance, PTL

\* No call turns the entry of one subprocess into that of another in place.
THEOREM IdentityIsKept == Spec => EntryKeepsIdentity
<1> DEFINE Keeps == \A i \in Slots : Used(i) /\ Used(i)' =>
                       /\ g_table'[i].client_fd = g_table[i].client_fd
                       /\ g_table'[i].device_id = g_table[i].device_id
<1>1. IInv /\ [Next]_vars => [Keeps]_vars
  <2> SUFFICES ASSUME IInv, Next PROVE Keeps
    OBVIOUS
  <2>1. ASSUME NEW fd \in Fds, NEW id \in RawIds, Register(fd, id) PROVE Keeps
    <3>1. PICK k \in Slots :
               FirstFree(k) /\ \E new : g_table' = [g_table EXCEPT ![k] = new]
      BY <2>1 DEF Register
    <3>2. ASSUME NEW i \in Slots, Used(i) PROVE g_table'[i] = g_table[i]
      BY <3>1, <3>2 DEF FirstFree, IInv, TypeOK
    <3> QED BY <3>2
  <2>2. ASSUME NEW fd \in Fds, Unregister(fd) PROVE Keeps
    BY <2>2 DEF Unregister, Used, NoEntry
  <2>3. ASSUME NEW fd \in Fds, NEW t \in 0 .. now, UpdateHeartbeat(fd, t) PROVE Keeps
    BY <2>3, HeartbeatFacts DEF IInv
  <2>4. CASE Tick
    BY <2>4 DEF Tick
  <2> QED BY <2>1, <2>2, <2>3, <2>4 DEF Next
<1> QED BY <1>1, Invariance, PTL DEF Spec, EntryKeepsIdentity
===============================================================================
