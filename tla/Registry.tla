------------------------------- MODULE Registry -------------------------------
(****************************************************************************)
(* registry.c: the table of registered subprocesses, keyed by the           *)
(* descriptor of their connection and by the device_id they declare.  Every *)
(* operation runs under one mutex and is one action; any caller may make    *)
(* any call.  JSON is parsed before the mutex is taken: what it yields is   *)
(* Trunc[id], the device_id cut to its field (copy_field).                  *)
(****************************************************************************)
EXTENDS Integers

CONSTANTS MAX_SUBPROCS,  \* REGISTRY_MAX_SUBPROCS
          Fds,           \* descriptors of client connections
          RawIds,        \* device_id values found in REGISTER payloads
          DeviceIds,     \* device_id values as stored
          Trunc,         \* what copy_field makes of a raw device_id
          MaxTime        \* bound on the clock

ASSUME TruncAssumption == Trunc \in [RawIds -> DeviceIds]
ASSUME TimeAssumption == MaxTime \in Nat

VARIABLES g_table,       \* the slots
          now            \* CLOCK_MONOTONIC, in milliseconds

vars == <<g_table, now>>

Slots   == 1 .. MAX_SUBPROCS
NoEntry == [in_use |-> FALSE]
Entry   == [in_use : {TRUE}, client_fd : Fds, device_id : DeviceIds,
            last_heartbeat_ms : 0 .. MaxTime]

TypeOK == /\ g_table \in [Slots -> Entry \cup {NoEntry}]
          /\ now \in 0 .. MaxTime

Used(i) == g_table[i].in_use

\* The slots whose entry has this descriptor.
Of(fd) == {i \in Slots : Used(i) /\ g_table[i].client_fd = fd}

\* The first free slot: the one the loop of registry_register remembers.
FirstFree(i) == /\ ~Used(i)
                /\ \A j \in Slots : ~Used(j) => i <= j

\* Neither the descriptor nor the device_id is taken, and a slot is free.
Admits_ById(fd, id) ==            \* variant: the descriptor is not looked at
    /\ \A i \in Slots : Used(i) => g_table[i].device_id # Trunc[id]
    /\ \E i \in Slots : ~Used(i)
Admits(fd, id) ==
    /\ \A i \in Slots : Used(i) => /\ g_table[i].client_fd # fd
                                   /\ g_table[i].device_id # Trunc[id]
    /\ \E i \in Slots : ~Used(i)

\* registry_register after a successful parse; it returns 0.
Register_Replace(fd, id) ==       \* variant: a second REGISTER replaces the first
    /\ \A i \in Slots : Used(i) => g_table[i].device_id # Trunc[id]
    /\ \E i \in Slots :
         /\ i \in Of(fd) \/ (Of(fd) = {} /\ FirstFree(i))
         /\ g_table' = [g_table EXCEPT ![i] =
                          [in_use |-> TRUE, client_fd |-> fd, device_id |-> Trunc[id],
                           last_heartbeat_ms |-> now]]
Register(fd, id) ==
    /\ Admits(fd, id)
    /\ \E i \in Slots :
         /\ FirstFree(i)
         /\ g_table' = [g_table EXCEPT ![i] =
                          [in_use |-> TRUE, client_fd |-> fd, device_id |-> Trunc[id],
                           last_heartbeat_ms |-> now]]

\* registry_unregister: clear the slot of this descriptor, if there is one.
Unregister_FdOnly(fd) ==          \* variant: in_use is not reset
    g_table' = [i \in Slots |-> IF i \in Of(fd)
                                THEN [g_table[i] EXCEPT !.client_fd = -1]
                                ELSE g_table[i]]
Unregister(fd) ==
    g_table' = [i \in Slots |-> IF i \in Of(fd) THEN NoEntry ELSE g_table[i]]

\* registry_update_heartbeat: t is the time read before the mutex was taken.
UpdateHeartbeat(fd, t) ==
    g_table' = [i \in Slots |-> IF i \in Of(fd)
                                THEN [g_table[i] EXCEPT !.last_heartbeat_ms = t]
                                ELSE g_table[i]]

\* registry_iterate with a callback that copies: the entries in use.
Snapshot == {g_table[i] : i \in {j \in Slots : Used(j)}}

-----------------------------------------------------------------------------
Init == g_table = [i \in Slots |-> NoEntry] /\ now = 0

Tick == /\ now < MaxTime
        /\ now' = now + 1
        /\ UNCHANGED g_table

Next == \/ \E fd \in Fds, id \in RawIds : Register(fd, id) /\ UNCHANGED now
        \/ \E fd \in Fds : Unregister(fd) /\ UNCHANGED now
        \/ \E fd \in Fds, t \in 0 .. now : UpdateHeartbeat(fd, t) /\ UNCHANGED now
        \/ Tick

Spec == Init /\ [][Next]_vars

(****************************************************************************)
(* Properties.                                                              *)
(****************************************************************************)

\* No two entries share a descriptor or a device_id, so that the first match
\* every function of registry.c stops at is the only one.
UniqueEntries ==
    \A i, j \in Slots : Used(i) /\ Used(j) /\ i # j =>
        /\ g_table[i].client_fd # g_table[j].client_fd
        /\ g_table[i].device_id # g_table[j].device_id

\* An entry never becomes another one in place: a slot is emptied before it is
\* given away, and nothing but its heartbeat time changes meanwhile.  The
\* pointers registry_find_by_fd and registry_find_by_device_id lend out rely
\* on it.
EntryKeepsIdentity ==
    [][\A i \in Slots : Used(i) /\ Used(i)' =>
          /\ g_table'[i].client_fd = g_table[i].client_fd
          /\ g_table'[i].device_id = g_table[i].device_id]_vars
=============================================================================
