------------------------------ MODULE Supervisor ------------------------------
(****************************************************************************)
(* supervisor.c: the table of child processes.  supervisor_spawn looks for  *)
(* a free slot under the mutex, forks without it, and looks at the slot     *)
(* again under the mutex before it writes the record.  supervisor.c says    *)
(* that callers in several threads are provided for; here any number of     *)
(* threads call.                                                            *)
(*                                                                          *)
(* SIGCHLD is ignored, so a child that exits, which one whose execvp fails  *)
(* does at once, is reaped by the kernel and its pid may be given out       *)
(* again.  A record is never removed.  The time and the name of a record    *)
(* are left out; so are calls with invalid arguments, which return before   *)
(* they touch anything.                                                     *)
(****************************************************************************)
EXTENDS Integers

CONSTANTS MAX_CHILDREN,  \* SUPERVISOR_MAX_CHILDREN
          Callers,       \* threads that call supervisor_spawn
          Pids,          \* process ids
          NoPid

ASSUME SupervisorAssumption == MAX_CHILDREN \in Nat /\ NoPid \notin Pids

VARIABLES g_inited,
          g_children,    \* the records, or NoPid
          pc,            \* where each caller is in supervisor_spawn
          slot, pid,     \* its locals of these names
          running        \* child processes that have not ended

locals == <<pc, slot, pid>>
vars   == <<g_inited, g_children, locals, running>>

Slots == 1 .. MAX_CHILDREN

Used(i) == g_children[i] # NoPid

TypeOK == /\ g_inited \in BOOLEAN
          /\ g_children \in [Slots -> Pids \cup {NoPid}]
          /\ pc \in [Callers -> {"idle", "init", "pick", "fork", "record", "kill"}]
          /\ slot \in [Callers -> Slots \cup {0}]
          /\ pid \in [Callers -> Pids \cup {NoPid}]
          /\ running \subseteq Pids

FirstFree(i) == /\ ~Used(i)
                /\ \A j \in Slots : ~Used(j) => i <= j

Full == \A i \in Slots : Used(i)

\* Back to the caller; the locals are gone.
Return(c) == /\ pc' = [pc EXCEPT ![c] = "idle"]
             /\ slot' = [slot EXCEPT ![c] = 0]
             /\ pid' = [pid EXCEPT ![c] = NoPid]

(****************************************************************************)
(* supervisor_init, which main calls, and supervisor_spawn if nobody has.   *)
(****************************************************************************)

\* supervisor_spawn reads g_inited without the mutex.
Call(c) ==
    /\ pc[c] = "idle"
    /\ pc' = [pc EXCEPT ![c] = IF g_inited THEN "pick" ELSE "init"]
    /\ UNCHANGED <<g_inited, g_children, slot, pid, running>>

InitTable_Unchecked(c) ==          \* variant: g_inited is not read again
    /\ pc[c] = "init"
    /\ g_children' = [i \in Slots |-> NoPid]
    /\ g_inited' = TRUE
    /\ pc' = [pc EXCEPT ![c] = "pick"]
    /\ UNCHANGED <<slot, pid, running>>
InitTable(c) ==
    /\ pc[c] = "init"
    /\ g_children' = IF g_inited THEN g_children ELSE [i \in Slots |-> NoPid]
    /\ g_inited' = TRUE
    /\ pc' = [pc EXCEPT ![c] = "pick"]
    /\ UNCHANGED <<slot, pid, running>>

(****************************************************************************)
(* supervisor_spawn.                                                        *)
(****************************************************************************)

\* Under the mutex: a free slot, or -1.
Pick_PastEnd(c) ==                 \* variant: a full table yields the next index
    /\ pc[c] = "pick"
    /\ \E i \in Slots \cup {MAX_CHILDREN + 1} :
          /\ i \in Slots => ~Used(i)
          /\ \A j \in Slots : ~Used(j) => i <= j
          /\ slot' = [slot EXCEPT ![c] = i]
    /\ pc' = [pc EXCEPT ![c] = "fork"]
    /\ UNCHANGED <<pid, g_inited, g_children, running>>
Pick(c) ==
    /\ pc[c] = "pick"
    /\ \/ /\ Full
          /\ Return(c)
       \/ \E i \in Slots :
             /\ FirstFree(i)
             /\ slot' = [slot EXCEPT ![c] = i]
             /\ pc' = [pc EXCEPT ![c] = "fork"]
             /\ UNCHANGED pid
    /\ UNCHANGED <<g_inited, g_children, running>>

\* fork fails, or there is a child.
Fork(c) ==
    /\ pc[c] = "fork"
    /\ \/ /\ Return(c)
          /\ UNCHANGED running
       \/ \E p \in Pids \ running :
             /\ running' = running \cup {p}
             /\ pid' = [pid EXCEPT ![c] = p]
             /\ pc' = [pc EXCEPT ![c] = "record"]
             /\ UNCHANGED slot
    /\ UNCHANGED <<g_inited, g_children>>

\* Under the mutex: the slot, if it is still free, or else another one.
Record_Unchecked(c) ==             \* variant: the slot is not looked at again
    /\ pc[c] = "record"
    /\ g_children' = [g_children EXCEPT ![slot[c]] = pid[c]]
    /\ Return(c)
    /\ UNCHANGED <<g_inited, running>>
Record_NoSecondSearch(c) ==        \* variant: a conflict gives the child up
    /\ pc[c] = "record"
    /\ \/ /\ ~Used(slot[c])
          /\ g_children' = [g_children EXCEPT ![slot[c]] = pid[c]]
          /\ Return(c)
       \/ /\ Used(slot[c])
          /\ pc' = [pc EXCEPT ![c] = "kill"]
          /\ UNCHANGED <<g_children, slot, pid>>
    /\ UNCHANGED <<g_inited, running>>
Record(c) ==
    /\ pc[c] = "record"
    /\ \/ \E i \in Slots :
             /\ ~Used(i)
             /\ i = slot[c] \/ (Used(slot[c]) /\ FirstFree(i))
             /\ g_children' = [g_children EXCEPT ![i] = pid[c]]
             /\ Return(c)
       \/ /\ Full
          /\ pc' = [pc EXCEPT ![c] = "kill"]
          /\ UNCHANGED <<g_children, slot, pid>>
    /\ UNCHANGED <<g_inited, running>>

\* kill(pid, SIGKILL) without the mutex, and -1.
Kill_Skipped(c) ==                 \* variant: the child is left alone
    /\ pc[c] = "kill"
    /\ Return(c)
    /\ UNCHANGED <<g_inited, g_children, running>>
Kill(c) ==
    /\ pc[c] = "kill"
    /\ running' = running \ {pid[c]}
    /\ Return(c)
    /\ UNCHANGED <<g_inited, g_children>>

\* A child ends by itself.
Exit(p) ==
    /\ p \in running
    /\ running' = running \ {p}
    /\ UNCHANGED <<g_inited, g_children, locals>>

-----------------------------------------------------------------------------
\* The table is zeroed memory; main has called supervisor_init or has not.
Init == /\ g_inited \in BOOLEAN
        /\ g_children = [i \in Slots |-> NoPid]
        /\ pc = [c \in Callers |-> "idle"]
        /\ slot = [c \in Callers |-> 0]
        /\ pid = [c \in Callers |-> NoPid]
        /\ running = {}

Next == \/ \E c \in Callers : Call(c)
        \/ \E c \in Callers : InitTable(c)
        \/ \E c \in Callers : Pick(c)
        \/ \E c \in Callers : Fork(c)
        \/ \E c \in Callers : Record(c)
        \/ \E c \in Callers : Kill(c)
        \/ \E p \in Pids : Exit(p)

Spec == Init /\ [][Next]_vars

(****************************************************************************)
(* Properties.                                                              *)
(****************************************************************************)

\* A child that was recorded stays recorded in its slot: neither a spawn that
\* chose the same slot nor a late initialisation overwrites it.
RecordsAreKept == [][\A i \in Slots : Used(i) => g_children'[i] = g_children[i]]_vars

\* Every running child is in the table, or its spawner still has to record or
\* kill it.  None goes on behind the supervisor's back.
InHand(c)  == pc[c] \in {"record", "kill"}
NoOrphans == \A p \in running : \/ \E i \in Slots : g_children[i] = p
                                \/ \E c \in Callers : InHand(c) /\ pid[c] = p

\* A child is killed only when the table is full: supervisor.h knows no other
\* failure than this one and that of fork.
KilledOnlyWhenFull == \A c \in Callers : pc[c] = "kill" => Full
=============================================================================
