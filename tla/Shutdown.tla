------------------------------- MODULE Shutdown -------------------------------
(****************************************************************************)
(* run_state.c, and how the four threads of the daemon find out that they   *)
(* should stop: SIGTERM clears g_running, and each thread looks at it only  *)
(* between two blocking calls.  The event queue between the reactor and the *)
(* dispatcher is the one of EventQueue, step by step.                       *)
(*                                                                          *)
(* signal() installs the handler with SA_RESTART: accept, recv and the      *)
(* condition waits go on after it, while epoll_wait and sleep, which are    *)
(* never restarted, return.                                                 *)
(****************************************************************************)
EXTENDS EventQueue

CONSTANT BatchPushes  \* bound: messages pushed for one batch of events

ASSUME BatchAssumption == BatchPushes \in Nat

VARIABLES running,     \* g_running
          reactor,     \* where reactor_thread is
          pushes,      \* messages pushed for this batch
          dispatcher,  \* where dispatcher_thread is; in "loop" see pop_pc
          ipc,         \* where ipc_thread is
          main         \* where main is, once the threads run

threads == <<reactor, dispatcher, ipc, main>>
allVars == <<vars, running, pushes, threads>>

\* g_running never becomes 1 again, so where a thread looks at it right after
\* a blocking call, the look is a part of the step that ends the call.
LifeTypeOK ==
    /\ TypeOK
    /\ running \in BOOLEAN
    /\ reactor \in {"check", "epoll_wait", "batch", "ended"}
    /\ pushes \in 0 .. BatchPushes
    /\ dispatcher \in {"loop", "ended"}
    /\ ipc \in {"accept", "client_check", "recv", "ended"}
    /\ main \in {"sleep", "joining", "exited"}

\* `while (run_state_is_running())`.
Loop(body, after) == IF running THEN body ELSE after

(****************************************************************************)
(* reactor_thread.                                                          *)
(****************************************************************************)
ReactorMoves(from, to) ==
    /\ reactor = from
    /\ reactor' = to
    /\ UNCHANGED <<vars, running, dispatcher, ipc, main>>

ReactorCheck_Forever ==            \* variant: for (;;)
    ReactorMoves("check", "epoll_wait") /\ UNCHANGED pushes
ReactorCheck ==
    ReactorMoves("check", Loop("epoll_wait", "ended")) /\ UNCHANGED pushes

\* Something happens on a port: a connection, data, a disconnect.
EpollReturns == ReactorMoves("epoll_wait", "batch") /\ UNCHANGED pushes

\* A chunk of the batch goes to a destination.
Route(m) ==
    /\ reactor = "batch"
    /\ pushes < BatchPushes
    /\ PushCall(m)
    /\ pushes' = pushes + 1
    /\ UNCHANGED <<running, threads>>

BatchDone == /\ push_pc = "idle"
             /\ ReactorMoves("batch", "check")
             /\ pushes' = 0

\* Steps of queue_push, of its clock, and wakeups without a signal.
InPush   == /\ PushLock \/ PushRecheck \/ PushTimeout \/ PushDrop
            /\ UNCHANGED <<running, pushes, threads>>
Clock    == DeadlinePasses /\ UNCHANGED <<running, pushes, threads>>
Spurious == /\ PushSpurious \/ PopSpurious
            /\ UNCHANGED <<running, pushes, threads>>

(****************************************************************************)
(* dispatcher_thread.                                                       *)
(****************************************************************************)
InPop == /\ dispatcher = "loop"
         /\ PopLock
         /\ UNCHANGED <<running, pushes, threads>>

\* router_core_handle returns.
Handled == /\ HandlerReturns
           /\ dispatcher' = Loop("loop", "ended")
           /\ UNCHANGED <<running, pushes, reactor, ipc, main>>

(****************************************************************************)
(* ipc_thread, with the loop of handle_client inside its own.               *)
(****************************************************************************)
IpcMoves(from, to) ==
    /\ ipc = from
    /\ ipc' = to
    /\ UNCHANGED <<vars, running, pushes, reactor, dispatcher, main>>

\* A client comes; or an error, a sleep and the next try.
AcceptReturns == \/ IpcMoves("accept", "client_check")
                 \/ IpcMoves("accept", Loop("accept", "ended"))

\* After the loop of handle_client the client is unregistered and closed.
ClientCheck_Forever == IpcMoves("client_check", "recv")    \* variant: for (;;)
ClientCheck == IpcMoves("client_check", Loop("recv", "ended"))

\* Bytes, whose frames are dispatched; or the end of the connection.
RecvReturns == \/ IpcMoves("recv", "client_check")
               \/ IpcMoves("recv", Loop("accept", "ended"))

(****************************************************************************)
(* main.                                                                    *)
(****************************************************************************)
MainMoves(from, to) ==
    /\ main = from
    /\ main' = to
    /\ UNCHANGED <<vars, running, pushes, reactor, dispatcher, ipc>>

\* sleep(1) is over or interrupted; supervisor_check_heartbeats never blocks.
SleepEnds == MainMoves("sleep", Loop("sleep", "joining"))

\* The three joins; then main returns and the process ends.
Join == /\ {reactor, ipc, dispatcher} = {"ended"}
        /\ MainMoves("joining", "exited")

(****************************************************************************)
(* SIGTERM.  The kernel lets any thread run the handler; epoll_wait of that *)
(* thread fails with EINTR.                                                 *)
(****************************************************************************)
Signal ==
    /\ main # "exited"
    /\ running' = FALSE
    /\ reactor' \in IF reactor = "epoll_wait" THEN {reactor, "check"} ELSE {reactor}
    /\ UNCHANGED <<vars, pushes, dispatcher, ipc, main>>

-----------------------------------------------------------------------------
\* SIGTERM may also come while main starts: before or after a thread's first
\* look at g_running.
Started(loop, end) == IF running THEN {loop} ELSE {loop, end}

LifeInit == /\ Init
            /\ running \in BOOLEAN
            /\ reactor = "check" /\ pushes = 0
            /\ dispatcher \in Started("loop", "ended")
            /\ ipc \in Started("accept", "ended")
            /\ main \in Started("sleep", "joining")

LifeNext == \/ ReactorCheck
            \/ EpollReturns
            \/ \E m \in Msgs : Route(m)
            \/ BatchDone
            \/ InPush
            \/ Clock
            \/ Spurious
            \/ InPop
            \/ Handled
            \/ AcceptReturns
            \/ ClientCheck
            \/ RecvReturns
            \/ SleepEnds
            \/ Join
            \/ Signal

LifeSpec == LifeInit /\ [][LifeNext]_allVars

\* A thread that is not inside a blocking call gets the processor, the queue's
\* mutex when it needs it, and the clock advances.  Nothing is assumed of the
\* ports, the clients and the handler, and no spurious wakeup is assumed.
LifeFairSpec ==
    /\ LifeSpec
    /\ WF_allVars(ReactorCheck \/ BatchDone)
    /\ WF_allVars(InPush)
    /\ WF_allVars(Clock)
    /\ WF_allVars(InPop)
    /\ WF_allVars(ClientCheck)
    /\ WF_allVars(SleepEnds \/ Join)

\* There is always another event on some port, and a client on the socket.
PortTraffic == WF_allVars(EpollReturns)
IpcTraffic  == WF_allVars(AcceptReturns \/ RecvReturns)

\* The best case: traffic everywhere, and no write blocks for ever.
BusySpec == LifeFairSpec /\ PortTraffic /\ IpcTraffic /\ WF_allVars(Handled)

(****************************************************************************)
(* Properties.                                                              *)
(****************************************************************************)

\* A queued message is handed over unless the dispatcher is held in a handler
\* or the daemon is stopping: no wakeup queue_pop depends on gets lost, with
\* batches, timeouts and the other threads going on.
QueueServed == (~Empty /\ pop_pc # "handling") ~> (pop_pc = "handling" \/ ~running)

\* After SIGTERM every thread comes to rest for good: it has ended, or sits in
\* a call only its peer can end.  The loops of ez_router.c, reactor.c and ipc_server.c all
\* look at g_running between two of those.
AtRest == /\ reactor \in {"epoll_wait", "ended"}
          /\ \/ dispatcher = "ended"
             \/ dispatcher = "loop" /\ (Empty \/ pop_pc = "handling")
          /\ ipc \in {"accept", "recv", "ended"}
          /\ main \in {"joining", "exited"}
Settles == ~running ~> []AtRest

\* One more event on a port ends the reactor, and one more return of a call on
\* the socket ends the IPC thread, even if its client never stops sending.
StopsOnTraffic == /\ PortTraffic => (~running ~> reactor = "ended")
                  /\ IpcTraffic  => (~running ~> ipc = "ended")

\* run_state.c announces on SIGTERM that the daemon exits.
StopEndsDaemon == ~running ~> main = "exited"
=============================================================================
