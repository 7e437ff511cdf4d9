------------------------------ MODULE Forwarder ------------------------------
(****************************************************************************)
(* The data plane: the reactor thread (reactor.c) accepts, reads, closes    *)
(* and routes; the dispatcher thread (ez_router.c, router_core.c,           *)
(* port_manager.c) looks the destination up and writes.  They share the     *)
(* event queue, taken here as what EventQueue implements (BoundedFifo), and *)
(* g_port_table with the port_def_t it points to, which no lock guards.     *)
(*                                                                          *)
(* Memory is modelled by address.  Addresses 1 .. NConfig are the ports of  *)
(* config.json, in the static g_config; the rest are heap blocks, used for  *)
(* the ports of accepted connections, which calloc may hand out again after *)
(* free.  Descriptors are 1 .. NFds, and a new one is the lowest free one,  *)
(* as in POSIX; 0 stands for -1.  The build has no -O, so shared words are  *)
(* accessed in program order; an action is cut wherever the other thread    *)
(* could tell the difference.                                               *)
(****************************************************************************)
EXTENDS Integers, Sequences, FiniteSets, FiniteSetsExt, SequencesExt

CONSTANTS Ports,       \* config.json "ports": a sequence of [name, type]
          Routes,      \* config.json "routes": of [src, dst, handler]
          MAX_PORTS,   \* entries of g_port_table
          MAX_ROUTES_PER_SRC, \* length of routes[] in reactor_thread
          MAX_EVENTS,  \* length of evs[] in reactor_thread
          QUEUE_CAP,   \* messages the event queue holds
          NFds,        \* descriptors the process may have open
          NHeap,       \* heap blocks
          Conns,       \* connections that ever reach a listening port
          IpcPeer,     \* the control connection served by ipc_thread
          NoFile,      \* nothing open at a descriptor
          NoMsg,       \* no message
          MaxData      \* bound: chunks all peers send together

ASSUME SizesAssumption ==
    /\ {MAX_PORTS, MAX_ROUTES_PER_SRC, MAX_EVENTS, QUEUE_CAP, NFds, NHeap, MaxData} \subseteq Nat
    /\ MAX_EVENTS > 0 /\ QUEUE_CAP > 0
    /\ Len(Ports) <= NFds /\ Len(Ports) <= MAX_PORTS
\* calloc does not fail; without it the reactor would wait for a free block.
ASSUME CallocAssumption == Cardinality(Conns) <= NHeap

NConfig == Len(Ports)
Config  == 1 .. NConfig
Heap    == NConfig + 1 .. NConfig + NHeap
Addr    == Config \cup Heap
Fds     == 1 .. NFds
Slots   == 1 .. MAX_PORTS
NoFd    == 0
NoPort  == 0
NoName  == "(none)"
Peers   == Config \cup Conns            \* whoever sends to, or gets from, a port
Files   == Peers \cup {IpcPeer}         \* what a descriptor can refer to

Listening == {"tcp_server", "ipc_server"}
Accepted  == {"tcp_client", "ipc_client"}
PortTypes == {"tty", "udp", "usb"} \cup Listening \cup Accepted
ClientType(t) == IF t = "tcp_server" THEN "tcp_client" ELSE "ipc_client"

Names    == {Ports[i].name : i \in Config}
Messages == [src : Peers, n : Nat, dst : {Routes[i].dst : i \in DOMAIN Routes}]

ASSUME ConfigAssumption ==
    /\ Ports \in Seq([name : STRING, type : PortTypes])
    /\ Routes \in Seq([src : STRING, dst : STRING, handler : BOOLEAN])
ASSUME FileAssumption ==
    /\ Conns \cap Config = {} /\ IpcPeer \notin Peers
    /\ NoFile \notin Files /\ NoMsg \notin Messages

VARIABLES
    fdt,         \* the process's descriptor table
    mem,         \* the port_def_t at every address, and whether it is allocated
    table,       \* g_port_table
    interest,    \* the epoll set: descriptor -> data.ptr
    conn,        \* state and listening port of every connection
    sent, got,   \* chunks each peer has sent, and how many were read
    hup,         \* peers that have closed their end
    batch,       \* events of evs[] not handled yet, current one first
    rpc,         \* where the reactor thread is
    rfd, rslot,  \* its locals fd and k
    todo,        \* the routes of routes[] not served yet, by index
    fifo, offered, taken, drops,  \* the event queue (BoundedFifo)
    dpc,         \* where the dispatcher thread is
    dslot, dport, dfd,            \* port_find's i and port, port_send's fd
    delivered    \* what was written, and to whom, in order

kernel     == <<fdt, interest, conn, sent, got, hup>>
heap       == <<mem, table>>
reactor    == <<batch, rpc, rfd, rslot, todo>>
queue      == <<fifo, offered, taken, drops>>
dispatcher == <<dpc, dslot, dport, dfd, delivered>>
vars       == <<kernel, heap, reactor, queue, dispatcher>>

Queue == INSTANCE BoundedFifo WITH Capacity <- QUEUE_CAP, Msgs <- Messages

TypeOK ==
    /\ fdt \in [Fds -> Files \cup {NoFile}]
    /\ mem \in [Addr -> [live : BOOLEAN, name : Names \cup {NoName},
                         type : PortTypes,
                         fd : Fds \cup {NoFd}, file : Peers \cup {NoFile}]]
    /\ table \in [Slots -> [used : BOOLEAN, fd : Fds \cup {NoFd}, port : Addr \cup {NoPort}]]
    /\ interest \in [Fds -> Addr \cup {NoPort}]
    /\ conn \in [Conns -> [st : {"new", "backlog", "open", "gone"}, srv : Config \cup {NoPort}]]
    /\ {sent, got} \subseteq [Peers -> Nat]
    /\ hup \subseteq Peers
    /\ batch \in Seq(Addr)
    /\ rpc \in {"loop", "adding", "routing", "pushing", "clear", "free", "dead"}
    /\ rfd \in Fds \cup {NoFd}
    /\ rslot \in Slots \cup {0}
    /\ todo \subseteq DOMAIN Routes
    /\ fifo \in Seq(Messages) /\ Len(fifo) <= QUEUE_CAP
    /\ {offered, taken} \subseteq Messages \cup {NoMsg}
    /\ drops \in Nat
    /\ dpc \in {"pop", "scan", "match", "send", "write", "dead"}
    /\ dslot \in 1 .. MAX_PORTS + 1
    /\ dport \in Addr \cup {NoPort}
    /\ dfd \in Fds \cup {NoFd}
    /\ delivered \in Seq([to : Files, msg : Messages])

(****************************************************************************)
(* Helpers.                                                                 *)
(****************************************************************************)
FreeFds   == {fd \in Fds : fdt[fd] = NoFile}
LowestFd  == Min(FreeFds)
FreeSlots == {k \in Slots : ~table[k].used}

\* reactor_add_port: the first unused entry of g_port_table, if there is one,
\* and an epoll registration in any case.
TableWith(t, p, fd) ==
    LET free == {k \in Slots : ~t[k].used}
    IN  IF free = {} THEN t
        ELSE [t EXCEPT ![Min(free)] = [used |-> TRUE, fd |-> fd, port |-> p]]

Backlog(srv) == {c \in Conns : conn[c] = [st |-> "backlog", srv |-> srv]}

\* EPOLLIN at a descriptor.
Readable(fd) == LET f == fdt[fd] IN
    IF f \in Config /\ Ports[f].type \in Listening
    THEN Backlog(f) # {}
    ELSE f \in Peers /\ (got[f] < sent[f] \/ f \in hup)

\* config_find_routes_by_src: the first routes of this source, as many as
\* routes[] holds, by their index in the file.
RoutesFrom(name) ==
    LET hits == {i \in DOMAIN Routes : Routes[i].src = name}
    IN  {i \in hits : Cardinality({j \in hits : j < i}) < MAX_ROUTES_PER_SRC}

(****************************************************************************)
(* The peers.                                                               *)
(****************************************************************************)
\* A signal has not ended the process.
Alive == rpc # "dead"

Connect(c, srv) ==
    /\ Alive
    /\ conn[c].st = "new"
    /\ Ports[srv].type \in Listening
    /\ interest[mem[srv].fd] = srv
    /\ conn' = [conn EXCEPT ![c] = [st |-> "backlog", srv |-> srv]]
    /\ UNCHANGED <<fdt, interest, sent, got, hup, heap, reactor, queue, dispatcher>>

\* A connection, or the device behind a port that is not a listening one.
Talking(f) == /\ Alive
              /\ f \notin hup
              /\ IF f \in Conns THEN conn[f].st \in {"backlog", "open"}
                                 ELSE Ports[f].type \notin Listening

ChunksSent == MapThenSumSet(LAMBDA g : sent[g], Peers)

\* One chunk: what one read() of the reactor returns.
PeerSends(f) ==
    /\ Talking(f)
    /\ ChunksSent < MaxData
    /\ sent' = [sent EXCEPT ![f] = @ + 1]
    /\ UNCHANGED <<fdt, interest, conn, got, hup, heap, reactor, queue, dispatcher>>

\* The peer disconnects, or the device goes away: read() then returns <= 0.
PeerCloses(f) ==
    /\ Talking(f)
    /\ hup' = hup \cup {f}
    /\ UNCHANGED <<fdt, interest, conn, sent, got, heap, reactor, queue, dispatcher>>

\* ipc_thread accepts and closes its own connection: another user of the
\* descriptor numbers.
IpcAccept ==
    /\ Alive
    /\ \A fd \in Fds : fdt[fd] # IpcPeer
    /\ FreeFds # {}
    /\ fdt' = [fdt EXCEPT ![LowestFd] = IpcPeer]
    /\ UNCHANGED <<interest, conn, sent, got, hup, heap, reactor, queue, dispatcher>>

IpcClose(fd) ==
    /\ Alive
    /\ fdt[fd] = IpcPeer
    /\ fdt' = [fdt EXCEPT ![fd] = NoFile]
    /\ UNCHANGED <<interest, conn, sent, got, hup, heap, reactor, queue, dispatcher>>

(****************************************************************************)
(* reactor_thread.                                                          *)
(****************************************************************************)
EventPort == Head(batch)

\* Go on with the next event of evs[].
NextEvent == /\ batch' = Tail(batch)
             /\ rpc' = "loop"
             /\ rfd' = NoFd
             /\ rslot' = 0
             /\ todo' = {}

\* epoll_wait, level-triggered: the ready ports in some order, at most
\* MAX_EVENTS of them.
EpollWait ==
    /\ rpc = "loop" /\ batch = <<>>
    /\ LET ready == {fd \in Fds : interest[fd] # NoPort /\ Readable(fd)}
           n     == Min({Cardinality(ready), MAX_EVENTS})
       IN  /\ ready # {}
           /\ \E evs \in [1 .. n -> ready] :
                 /\ \A i, j \in 1 .. n : evs[i] = evs[j] => i = j
                 /\ batch' = [i \in 1 .. n |-> interest[evs[i]]]
    /\ UNCHANGED <<rpc, rfd, rslot, todo, kernel, heap, queue, dispatcher>>

\* An event of a listening port: accept() one connection and calloc its
\* port_def_t.  The block is zeroed, and PORT_TTY is 0; a write to descriptor
\* 0, the daemon's standard input, reaches nobody.
AcceptClient ==
    /\ rpc = "loop" /\ batch # <<>>
    /\ mem[EventPort].type \in Listening
    /\ FreeFds # {}
    /\ \E c \in Backlog(EventPort), p \in {a \in Heap : ~mem[a].live} :
         /\ fdt' = [fdt EXCEPT ![LowestFd] = c]
         /\ conn' = [conn EXCEPT ![c].st = "open"]
         /\ mem' = [mem EXCEPT ![p] = [live |-> TRUE, name |-> NoName, type |-> "tty",
                                       fd |-> NoFd, file |-> c]]
    /\ rfd' = LowestFd
    /\ rpc' = "adding"
    /\ UNCHANGED <<interest, sent, got, hup, table, batch, rslot, todo, queue, dispatcher>>

\* The new port, between its calloc and reactor_add_port.
New == {a \in Heap : mem[a].live /\ mem[a].fd = NoFd}

\* Name it after the listening port, and reactor_add_port.
AddClient ==
    /\ rpc = "adding"
    /\ \E p \in New :
         /\ mem' = [mem EXCEPT ![p].name = mem[EventPort].name,
                               ![p].type = ClientType(mem[EventPort].type),
                               ![p].fd   = rfd]
         /\ table' = TableWith(table, p, rfd)
         /\ interest' = [interest EXCEPT ![rfd] = p]
    /\ NextEvent
    /\ UNCHANGED <<fdt, conn, sent, got, hup, queue, dispatcher>>

\* accept() fails (EMFILE): the connection stays in the backlog.
AcceptFails ==
    /\ rpc = "loop" /\ batch # <<>>
    /\ mem[EventPort].type \in Listening
    /\ FreeFds = {}
    /\ NextEvent
    /\ UNCHANGED <<kernel, heap, queue, dispatcher>>

\* read() returns a chunk: look its routes up.
ReadData ==
    /\ rpc = "loop" /\ batch # <<>>
    /\ mem[EventPort].type \notin Listening
    /\ LET f == fdt[mem[EventPort].fd] IN
         /\ f \in Peers
         /\ got[f] < sent[f]
         /\ got' = [got EXCEPT ![f] = @ + 1]
    /\ rpc' = "routing"
    /\ todo' = RoutesFrom(mem[EventPort].name)
    /\ UNCHANGED <<fdt, interest, conn, sent, hup, heap, batch, rfd, rslot, queue, dispatcher>>

\* The next route: its handler rejects the data (returns < 0), or the
\* message goes to queue_push.
RouteOne ==
    /\ rpc = "routing" /\ todo # {}
    /\ todo' = todo \ {Min(todo)}
    /\ \/ /\ Routes[Min(todo)].handler
          /\ UNCHANGED <<rpc, queue>>
       \/ LET f == mem[EventPort].file IN
          /\ Queue!Offer([src |-> f, n |-> got[f], dst |-> Routes[Min(todo)].dst])
          /\ rpc' = "pushing"
    /\ UNCHANGED <<kernel, heap, batch, rfd, rslot, dispatcher>>

\* queue_push returns: stored, or dropped and counted.
Push_Untimed ==                     \* variant: waits until there is room
    /\ rpc = "pushing"
    /\ Queue!Accept
    /\ rpc' = "routing"
    /\ UNCHANGED <<kernel, heap, batch, rfd, rslot, todo, dispatcher>>
Push ==
    /\ rpc = "pushing"
    /\ Queue!Accept \/ Queue!Drop
    /\ rpc' = "routing"
    /\ UNCHANGED <<kernel, heap, batch, rfd, rslot, todo, dispatcher>>

RoutesDone ==
    /\ rpc = "routing" /\ todo = {}
    /\ NextEvent
    /\ UNCHANGED <<kernel, heap, queue, dispatcher>>

\* read() returns <= 0: EPOLL_CTL_DEL and close().
CloseFd_IgnoreEof ==                \* variant: only a negative result closes
    /\ rpc = "loop" /\ batch # <<>>
    /\ mem[EventPort].type \notin Listening
    /\ LET f == fdt[mem[EventPort].fd] IN f \in hup /\ got[f] = sent[f]
    /\ NextEvent
    /\ UNCHANGED <<kernel, heap, queue, dispatcher>>
CloseFd ==
    /\ rpc = "loop" /\ batch # <<>>
    /\ mem[EventPort].type \notin Listening
    /\ LET fd == mem[EventPort].fd
           f  == fdt[fd] IN
         /\ f \in hup /\ got[f] = sent[f]
         /\ interest' = [interest EXCEPT ![fd] = NoPort]
         /\ fdt' = [fdt EXCEPT ![fd] = NoFile]
         /\ conn' = IF f \in Conns THEN [conn EXCEPT ![f].st = "gone"] ELSE conn
         /\ rfd' = fd
    /\ rpc' = "clear"
    /\ UNCHANGED <<sent, got, hup, heap, batch, rslot, todo, queue, dispatcher>>

\* The entry of g_port_table with this descriptor: used = 0, fd = -1.
ClearEntry_KeepUsed ==              \* variant: only the descriptor is reset
    /\ rpc = "clear"
    /\ LET entries == {k \in Slots : table[k].used /\ table[k].fd = rfd} IN
         /\ entries # {}
         /\ table' = [table EXCEPT ![Min(entries)].fd = NoFd]
         /\ rslot' = Min(entries)
    /\ rpc' = "free"
    /\ UNCHANGED <<kernel, mem, batch, rfd, todo, queue, dispatcher>>
ClearEntry_ByName ==                \* variant: looks the entry up by port name
    /\ rpc = "clear"
    /\ LET entries == {k \in Slots : /\ table[k].used
                                    /\ mem[table[k].port].name = mem[EventPort].name
                                    /\ mem[table[k].port].type = mem[EventPort].type} IN
         \/ /\ entries = {}
            /\ NextEvent
            /\ UNCHANGED table
         \/ /\ entries # {}
            /\ table' = [table EXCEPT ![Min(entries)].used = FALSE,
                                      ![Min(entries)].fd = NoFd]
            /\ rslot' = Min(entries)
            /\ rpc' = "free"
            /\ UNCHANGED <<batch, rfd, todo>>
    /\ UNCHANGED <<kernel, mem, queue, dispatcher>>
ClearEntry ==
    /\ rpc = "clear"
    /\ LET entries == {k \in Slots : table[k].used /\ table[k].fd = rfd} IN
         \/ /\ entries = {}
            /\ NextEvent
            /\ UNCHANGED table
         \/ /\ entries # {}
            /\ table' = [table EXCEPT ![Min(entries)].used = FALSE,
                                      ![Min(entries)].fd = NoFd]
            /\ rslot' = Min(entries)
            /\ rpc' = "free"
            /\ UNCHANGED <<batch, rfd, todo>>
    /\ UNCHANGED <<kernel, mem, queue, dispatcher>>

\* A port of client type is freed, which clobbers the start of the block (the
\* name); then port = NULL.
FreePort_TcpOnly ==                 \* variant: the second type is forgotten
    /\ rpc = "free"
    /\ LET p == table[rslot].port IN
         mem' = IF mem[EventPort].type = "tcp_client"
                THEN [mem EXCEPT ![p].live = FALSE, ![p].name = NoName]
                ELSE mem
    /\ table' = [table EXCEPT ![rslot].port = NoPort]
    /\ NextEvent
    /\ UNCHANGED <<kernel, queue, dispatcher>>
FreePort_NullFirst ==               \* variant: port = NULL stands before free(port)
    /\ rpc = "free"
    /\ table' = [table EXCEPT ![rslot].port = NoPort]
    /\ NextEvent
    /\ UNCHANGED <<kernel, mem, queue, dispatcher>>
FreePort ==
    /\ rpc = "free"
    /\ LET p     == table[rslot].port
           frees == mem[EventPort].type \in Accepted IN
         /\ frees => p \in Heap
         /\ mem' = IF frees THEN [mem EXCEPT ![p].live = FALSE, ![p].name = NoName]
                            ELSE mem
    /\ table' = [table EXCEPT ![rslot].port = NoPort]
    /\ NextEvent
    /\ UNCHANGED <<kernel, queue, dispatcher>>

\* A signal ends the process.
Dies == rpc' = "dead" /\ dpc' = "dead"

\* free() of an address that calloc never returned: the C library aborts.
FreeAborts ==
    /\ rpc = "free"
    /\ mem[EventPort].type \in Accepted
    /\ table[rslot].port \notin Heap
    /\ Dies
    /\ UNCHANGED <<kernel, heap, batch, rfd, rslot, todo, queue, dslot, dport, dfd, delivered>>

(****************************************************************************)
(* dispatcher_thread: queue_pop, router_core_handle.                        *)
(****************************************************************************)
Pop ==
    /\ dpc = "pop"
    /\ Queue!Take
    /\ dpc' = "scan"
    /\ dslot' = 1
    /\ UNCHANGED <<kernel, heap, reactor, dport, dfd, delivered>>

\* router_core_handle returns.
Handled == /\ Queue!Finish
           /\ dpc' = "pop"
           /\ dslot' = 1
           /\ dport' = NoPort
           /\ dfd' = NoFd

\* port_find, one entry: read used and port.
Scan ==
    /\ dpc = "scan"
    /\ \/ /\ dslot > MAX_PORTS        \* destination not found
          /\ Handled
       \/ /\ dslot <= MAX_PORTS
          /\ ~table[dslot].used \/ table[dslot].port = NoPort
          /\ dslot' = dslot + 1
          /\ UNCHANGED <<queue, dpc, dport, dfd>>
       \/ /\ dslot <= MAX_PORTS
          /\ table[dslot].used /\ table[dslot].port # NoPort
          /\ dport' = table[dslot].port
          /\ dpc' = "match"
          /\ UNCHANGED <<queue, dslot, dfd>>
    /\ UNCHANGED <<kernel, heap, reactor, delivered>>

\* port_find: read the port's name and type through the pointer.
Match ==
    /\ dpc = "match"
    /\ IF mem[dport].name = taken.dst /\ mem[dport].type \notin Listening
       THEN dpc' = "send" /\ UNCHANGED <<dslot, dport>>
       ELSE dpc' = "scan" /\ dslot' = dslot + 1 /\ dport' = NoPort
    /\ UNCHANGED <<kernel, heap, reactor, queue, dfd, delivered>>

\* port_send: read fd and type through the pointer; a UDP port, or a negative
\* fd, ends here without a write.
Send ==
    /\ dpc = "send"
    /\ \/ /\ mem[dport].fd # NoFd /\ mem[dport].type # "udp"
          /\ dfd' = mem[dport].fd
          /\ dpc' = "write"
          /\ UNCHANGED <<queue, dslot, dport>>
       \/ /\ mem[dport].fd = NoFd \/ mem[dport].type = "udp"
          /\ Handled
    /\ UNCHANGED <<kernel, heap, reactor, delivered>>

\* write() reaches whatever the descriptor refers to now.
WriteOk ==
    /\ dpc = "write"
    /\ fdt[dfd] # NoFile /\ fdt[dfd] \notin hup
    /\ delivered' = Append(delivered, [to |-> fdt[dfd], msg |-> taken])
    /\ Handled
    /\ UNCHANGED <<kernel, heap, reactor>>

\* EBADF; EAGAIN or EIO of a device opened O_NONBLOCK; or a socket whose peer
\* is gone takes the data and it is lost.  The message is given up.
WriteLost ==
    /\ dpc = "write"
    /\ fdt[dfd] \in {NoFile} \cup hup \cup Config
    /\ Handled
    /\ UNCHANGED <<kernel, heap, reactor, delivered>>

\* The peers whose descriptor is a connected socket: accepted connections, and
\* the far end of a configured client port.
Streams == Conns \cup {f \in Config : Ports[f].type \in Accepted}

\* EPIPE: SIGPIPE is neither ignored nor handled.  A configured client port that
\* connect() never reached is one whose peer has gone from the start.
WriteKilled ==
    /\ dpc = "write"
    /\ fdt[dfd] \in hup \cap Streams
    /\ Dies
    /\ UNCHANGED <<kernel, heap, batch, rfd, rslot, todo, queue, dslot, dport, dfd, delivered>>

-----------------------------------------------------------------------------
\* main has opened every port of config.json, in order, and added it to the
\* table and to the epoll set.
Init ==
    /\ fdt = [fd \in Fds |-> IF fd \in Config THEN fd ELSE NoFile]
    /\ mem = [a \in Addr |-> IF a \in Config
                             THEN [live |-> TRUE, name |-> Ports[a].name,
                                   type |-> Ports[a].type, fd |-> a, file |-> a]
                             ELSE [live |-> FALSE, name |-> NoName, type |-> "tty",
                                   fd |-> NoFd, file |-> NoFile]]
    /\ table = [k \in Slots |-> IF k \in Config
                                THEN [used |-> TRUE, fd |-> k, port |-> k]
                                ELSE [used |-> FALSE, fd |-> NoFd, port |-> NoPort]]
    /\ interest = [fd \in Fds |-> IF fd \in Config THEN fd ELSE NoPort]
    /\ conn = [c \in Conns |-> [st |-> "new", srv |-> NoPort]]
    /\ sent = [f \in Peers |-> 0]
    /\ got = [f \in Peers |-> 0]
    /\ hup = {}
    /\ batch = <<>>
    /\ rpc = "loop" /\ rfd = NoFd /\ rslot = 0 /\ todo = {}
    /\ Queue!Init
    /\ dpc = "pop" /\ dslot = 1 /\ dport = NoPort /\ dfd = NoFd
    /\ delivered = <<>>

ReactorStep == \/ AcceptClient \/ AddClient \/ AcceptFails \/ ReadData \/ RouteOne \/ Push
               \/ RoutesDone \/ CloseFd \/ ClearEntry \/ FreePort \/ FreeAborts
               \/ EpollWait

Next == \/ \E c \in Conns, srv \in Config : Connect(c, srv)
        \/ \E f \in Peers : PeerSends(f)
        \/ \E f \in Peers : PeerCloses(f)
        \/ IpcAccept
        \/ \E fd \in Fds : IpcClose(fd)
        \/ EpollWait
        \/ AcceptClient
        \/ AddClient
        \/ AcceptFails
        \/ ReadData
        \/ RouteOne
        \/ Push
        \/ RoutesDone
        \/ CloseFd
        \/ ClearEntry
        \/ FreePort
        \/ FreeAborts
        \/ Pop
        \/ Scan
        \/ Match
        \/ Send
        \/ WriteOk
        \/ WriteLost
        \/ WriteKilled

Spec == Init /\ [][Next]_vars

\* The reactor thread gets the processor, and queue_push returns
\* (EventQueue!PushReturns).  Nothing is assumed of the dispatcher, which may
\* hang in a write, nor of the peers.
FairSpec == Spec /\ WF_vars(ReactorStep)

(****************************************************************************)
(* Properties.                                                              *)
(****************************************************************************)

\* The entry the reactor is taking down: from close() on, until it is cleared.
TakingDown(p) == rpc \in {"clear", "free"} /\ p = EventPort

\* What the port was opened for is still what its descriptor refers to, and
\* epoll reports events of the descriptor to the port.
Attached(p) == /\ mem[p].live
               /\ fdt[mem[p].fd] = mem[p].file
               /\ interest[mem[p].fd] = p

\* g_port_table never goes stale: although descriptors and heap blocks are
\* reused at once, every used entry points to an allocated port with the
\* entry's descriptor, attached to its own connection, and no two entries
\* share a port or a descriptor.
TableCoherent ==
    Alive => \A k \in Slots : table[k].used =>
        /\ table[k].port \in Addr /\ mem[table[k].port].live
        /\ table[k].fd = mem[table[k].port].fd
        /\ TakingDown(table[k].port) \/ Attached(table[k].port)
        /\ \A j \in Slots \ {k} : table[j].used => /\ table[j].port # table[k].port
                                                   /\ table[j].fd # table[k].fd

\* The pointers of evs[] survive the batch: handling one event, which may
\* close a connection, free its port and accept another one in its place,
\* never invalidates an event that is still to be handled.
PendingEventsValid ==
    Alive => \A i \in DOMAIN batch : TakingDown(batch[i]) \/ Attached(batch[i])

\* The reactor has handled its events and is about to call epoll_wait.
Waiting == rpc = "loop" /\ batch = <<>>

\* The daemon still knows the block: it is being added, has a used entry that
\* works, or is the one the reactor is about to free.
Held(p) == \/ p \in New
           \/ \E k \in Slots : /\ table[k].used /\ table[k].port = p
                               /\ TakingDown(p) \/ Attached(p)
           \/ rpc = "free" /\ p = table[rslot].port

\* The port_def_t of a client is known to the daemon until it is freed, however
\* connections come and go; only a client that is accepted while g_port_table
\* has no free entry is lost (reactor_add_port goes on without an entry, and no
\* entry leads to the block when it disconnects), against RPD 0.4, which marks the
\* freeing of disconnected clients as done.
LeakOnlyWhenFull ==
    [][Alive' => \A p \in Heap : Held(p) /\ mem'[p].live =>
                    Held(p)' \/ (p \in New /\ FreeSlots = {})]_vars

\* What one source sends to one destination is delivered in order, no chunk
\* twice.
OrderPreserved ==
    \A i, j \in DOMAIN delivered :
        LET a == delivered[i].msg
            b == delivered[j].msg
        IN  (i < j /\ a.src = b.src /\ a.dst = b.dst) => a.n < b.n

\* The reactor always comes back to epoll_wait, even when the dispatcher hangs
\* in a write and the queue stays full (PROJECT_CONTEXT 14).
ReactorResponsive == ~Waiting ~> (~Alive \/ Waiting)

\* A peer that disconnects is noticed and its connection is closed, whatever
\* the other ports do.
DisconnectNoticed ==
    \A c \in Conns : (c \in hup /\ conn[c].st = "open") ~> (~Alive \/ conn[c].st = "gone")

\* The name of the port a peer belongs to.
PortOf(f) == IF f \in Config THEN Ports[f].name
             ELSE IF f \in Conns THEN Ports[conn[f].srv].name
             ELSE NoName

\* README 1: what a port receives is forwarded to the other port of the route,
\* and to nothing else.
DeliveredToDst == \A i \in DOMAIN delivered : PortOf(delivered[i].to) = delivered[i].msg.dst

\* A failed write is logged and the daemon goes on (router_core.c, and the
\* contract above port_send_tcp_server_broadcast): no signal ends it.
KeepsRunning == Alive
=============================================================================
