--------------------------- MODULE ForwarderProofs ---------------------------
(****************************************************************************)
(* Proofs about Forwarder for every configuration, table size, batch size   *)
(* and queue, any number of descriptors, heap blocks, connections and       *)
(* chunks, and every interleaving of the two threads and the peers.         *)
(****************************************************************************)
EXTENDS Forwarder, FiniteSetTheorems, SequenceTheorems, WellFoundedInduction, TLAPS

(****************************************************************************)
(* The inductive invariant: what holds of the reactor's data while the      *)
(* process lives.                                                           *)
(****************************************************************************)

\* epoll reports events of the port's descriptor to the port.
Polled(p) == mem[p].fd \in Fds /\ interest[mem[p].fd] = p

\* The ports of config.json are never changed.
Fixed == \A p \in Config :
    mem[p] = [live |-> TRUE, name |-> Ports[p].name, type |-> Ports[p].type, fd |-> p, file |-> p]

\* Whatever epoll watches is an allocated port whose descriptor refers to what
\* the port was opened for.
Polls == \A fd \in Fds : interest[fd] # NoPort =>
    /\ mem[interest[fd]].live /\ mem[interest[fd]].fd = fd
    /\ mem[interest[fd]].file = fdt[fd] /\ fdt[fd] \in Peers

\* No file has two descriptors, and a connection that has one is open.
Opened ==
    /\ \A fd \in Fds : fdt[fd] \in Conns => conn[fdt[fd]].st = "open"
    /\ \A a, b \in Fds : fdt[a] = fdt[b] /\ fdt[a] # NoFile => a = b

\* The heap blocks in use are client ports.
ClientPorts == \A p \in Heap : mem[p].live =>
    /\ mem[p].file \in Conns
    /\ mem[p].fd # NoFd => mem[p].type \in Accepted

\* A used entry points to a polled port, or to the one that was just closed.
Entries == \A k \in Slots : table[k].used =>
    /\ table[k].port \in Addr /\ mem[table[k].port].live
    /\ table[k].fd \in Fds /\ mem[table[k].port].fd = table[k].fd
    /\ interest[table[k].fd] = table[k].port \/ (rpc = "clear" /\ table[k].port = EventPort)
    /\ \A j \in Slots : table[j].used /\ j # k => table[j].port # table[k].port

\* The events still to be handled are of different ports, all polled but the
\* one being taken down.
Pending ==
    /\ \A i \in 1 .. Len(batch) : Polled(batch[i]) \/ (i = 1 /\ rpc \in {"clear", "free"})
    /\ \A i, j \in 1 .. Len(batch) : batch[i] = batch[j] => i = j

\* Where the reactor thread is.
Locals ==
    /\ rpc # "loop" => batch # <<>>
    /\ rpc = "adding" =>
          /\ \A p, q \in New : p = q
          /\ rfd \in Fds /\ interest[rfd] = NoPort /\ fdt[rfd] \in Conns
          /\ \A p \in New : mem[p].file = fdt[rfd]
          /\ mem[EventPort].type \in Listening
    /\ rpc # "adding" => New = {}
    /\ rpc \in {"clear", "free"} =>
          /\ mem[EventPort].live /\ mem[EventPort].fd = rfd
          /\ rfd \in Fds /\ interest[rfd] = NoPort
    /\ rpc = "free" => /\ rslot \in Slots /\ ~table[rslot].used
                       /\ table[rslot].port = EventPort

Sound == Fixed /\ Polls /\ Opened /\ ClientPorts /\ Entries /\ Pending /\ Locals

\* Where the dispatcher thread is.
DispatcherLocals ==
    /\ dpc \in {"match", "send"} => dport \in Addr
    /\ dpc = "match" => dslot <= MAX_PORTS
    /\ dpc = "write" => dfd \in Fds
    /\ dpc \in {"scan", "match", "send", "write"} => taken # NoMsg
    /\ dpc = "dead" <=> rpc = "dead"

IInv == /\ TypeOK
        /\ DispatcherLocals
        /\ Alive => Sound

(****************************************************************************)
(* What LeakOnlyWhenFull and OrderPreserved need besides.                   *)
(****************************************************************************)

\* What Held says, without the reactor's half-done work.
Listed(p) == \E k \in Slots : table[k].used /\ table[k].port = p
Known(p)  == p \in New \/ Listed(p) \/ (rpc = "free" /\ p = EventPort)
KnownIsHeld == Alive => \A p \in Heap : Known(p) <=> Held(p)

Before(a, b) == a.src = b.src /\ a.dst = b.dst => a.n < b.n

\* The messages on their way, oldest first: those written, the one the
\* dispatcher has, those queued, the one the reactor pushes.
Written(i) == delivered[i].msg
Line ==
    /\ \A i, j \in 1 .. Len(delivered) : i < j => Before(Written(i), Written(j))
    /\ \A i \in 1 .. Len(delivered) :
          /\ taken # NoMsg => Before(Written(i), taken)
          /\ \A j \in 1 .. Len(fifo) : Before(Written(i), fifo[j])
          /\ offered # NoMsg => Before(Written(i), offered)
    /\ taken # NoMsg => /\ \A j \in 1 .. Len(fifo) : Before(taken, fifo[j])
                        /\ offered # NoMsg => Before(taken, offered)
    /\ \A i, j \in 1 .. Len(fifo) : i < j => Before(fifo[i], fifo[j])
    /\ offered # NoMsg => \A i \in 1 .. Len(fifo) : Before(fifo[i], offered)

\* A message is of a chunk that was read, and the one being routed has not
\* been offered to the routes that are left.
OfChunk(m) ==
    /\ m.n <= got[m.src]
    /\ \A i \in todo : rpc \in {"routing", "pushing"} /\ m.src = mem[EventPort].file
                          /\ m.dst = Routes[i].dst => m.n < got[m.src]
Numbered ==
    /\ \A i \in 1 .. Len(delivered) : OfChunk(Written(i))
    /\ taken # NoMsg => OfChunk(taken)
    /\ \A i \in 1 .. Len(fifo) : OfChunk(fifo[i])
    /\ offered # NoMsg => OfChunk(offered)

\* The routes left are of one source.
OneSource == Alive => \A i, j \in todo : Routes[i].src = Routes[j].src

OInv == Line /\ Numbered /\ OneSource

(****************************************************************************)
(* Lemmas about the constants and the least element of a set.               *)
(****************************************************************************)
LEMMA Consts ==
    /\ NConfig \in Nat /\ NConfig <= NFds /\ NConfig <= MAX_PORTS
    /\ {NFds, NHeap, MAX_PORTS, MAX_EVENTS, QUEUE_CAP} \subseteq Nat
    /\ MAX_EVENTS > 0 /\ QUEUE_CAP > 0
    /\ \A i \in Config : Ports[i].name \in Names /\ Ports[i].type \in PortTypes
<1>1. /\ NConfig \in Nat /\ NConfig <= NFds /\ NConfig <= MAX_PORTS
      /\ {NFds, NHeap, MAX_PORTS, MAX_EVENTS, QUEUE_CAP} \subseteq Nat
      /\ MAX_EVENTS > 0 /\ QUEUE_CAP > 0
  BY SizesAssumption, ConfigAssumption DEF NConfig
<1>2. ASSUME NEW i \in Config PROVE Ports[i].name \in Names /\ Ports[i].type \in PortTypes
  <2> DEFINE S == [name : STRING, type : PortTypes]
  <2>1. Ports \in Seq(S) /\ i \in 1 .. Len(Ports)
    BY ConfigAssumption DEF Config, NConfig
  <2> HIDE DEF S
  <2>2. Ports[i] \in S
    BY <2>1
  <2> QED BY <2>2 DEF Names, S
<1> QED BY <1>1, <1>2

LEMMA Sets ==
    /\ Config \subseteq Addr /\ Heap \subseteq Addr /\ Addr \subseteq Nat /\ NoPort \notin Addr
    /\ Config \subseteq Fds /\ Config \subseteq Slots /\ Config \cap Heap = {}
    /\ Fds \subseteq Nat /\ NoFd \notin Fds /\ Slots \subseteq Nat
  BY Consts DEF Config, Heap, Addr, NoPort, Fds, NoFd, Slots

LEMMA LeastNat ==
    ASSUME NEW T \in SUBSET Nat, T # {}
    PROVE  \E x \in T : \A y \in T : x <= y
<1> DEFINE R == {ss \in Nat \X Nat : ss[1] < ss[2]}
<1>1. IsWellFoundedOn(R, Nat)
  BY NatLessThanWellFounded DEF OpToRel
<1>2. PICK x \in T : \A y \in T : <<y, x>> \notin R
  <2> HIDE DEF R
  <2> QED BY <1>1, WFMin
<1>3. ASSUME NEW y \in T PROVE x <= y
  <2>1. <<y, x>> \in Nat \X Nat /\ <<y, x>> \notin R
    BY <1>2
  <2>2. ~(y < x)
    BY <2>1
  <2> QED BY <2>2
<1> QED BY <1>3

LEMMA MinFacts ==
    ASSUME NEW T \in SUBSET Nat, T # {}
    PROVE  Min(T) \in T /\ \A y \in T : Min(T) <= y
  BY LeastNat DEF Min

\* POSIX: the descriptor given out was free.
LEMMA LowestFdFacts ==
    ASSUME FreeFds # {}
    PROVE  LowestFd \in Fds /\ fdt[LowestFd] = NoFile
<1>1. FreeFds \in SUBSET Nat
  BY Sets DEF FreeFds
<1>2. LowestFd \in FreeFds
  BY <1>1, MinFacts DEF LowestFd
<1> QED BY <1>2 DEF FreeFds

\* reactor_add_port uses an entry that was free.
LEMMA TableWithFacts ==
    ASSUME TypeOK, NEW p \in Addr, NEW fd \in Fds
    PROVE  LET t == TableWith(table, p, fd)
           IN  \/ t = table /\ \A k \in Slots : table[k].used
               \/ \E k \in Slots : /\ ~table[k].used
                                   /\ t = [table EXCEPT ![k] = [used |-> TRUE, fd |-> fd, port |-> p]]
<1> DEFINE free == {k \in Slots : ~table[k].used}
<1>1. free \in SUBSET Nat
  BY Sets
<1>2. CASE free = {}
  BY <1>2 DEF TableWith
<1>3. CASE free # {}
  <2>1. Min(free) \in free
    BY <1>1, <1>3, MinFacts
  <2>2. TableWith(table, p, fd) = [table EXCEPT ![Min(free)] = [used |-> TRUE, fd |-> fd, port |-> p]]
    BY <1>3 DEF TableWith
  <2> HIDE DEF free
  <2>3. Min(free) \in Slots /\ ~table[Min(free)].used
    BY <2>1 DEF free
  <2> QED BY <2>2, <2>3
<1> QED BY <1>2, <1>3

\* epoll_wait: as many events as fit, each of another port.
LEMMA EpollFacts ==
    ASSUME TypeOK, Polls, EpollWait
    PROVE  /\ batch' \in Seq(Addr) /\ batch = <<>> /\ rpc = "loop"
           /\ \A i \in 1 .. Len(batch') : Polled(batch'[i])
           /\ \A i, j \in 1 .. Len(batch') : batch'[i] = batch'[j] => i = j
           /\ UNCHANGED <<rpc, rfd, rslot, todo, kernel, heap, queue, dispatcher>>
<1> DEFINE ready == {fd \in Fds : interest[fd] # NoPort /\ Readable(fd)}
           n     == Min({Cardinality(ready), MAX_EVENTS})
<1>1. PICK evs \in [1 .. n -> ready] :
         /\ \A i, j \in 1 .. n : evs[i] = evs[j] => i = j
         /\ batch' = [i \in 1 .. n |-> interest[evs[i]]]
  BY DEF EpollWait
<1>2. Cardinality(ready) \in Nat
  <2>1. IsFiniteSet(Fds)
    BY Consts, FS_Interval DEF Fds
  <2> QED BY <2>1, FS_Subset, FS_CardinalityType
<1>3. n \in Nat
  <2> DEFINE a == Cardinality(ready)
  <2>1. {a, MAX_EVENTS} \in SUBSET Nat /\ {a, MAX_EVENTS} # {}
    BY <1>2, Consts
  <2> HIDE DEF a
  <2>2. Min({a, MAX_EVENTS}) \in {a, MAX_EVENTS}
    BY <2>1, MinFacts
  <2> QED BY <2>1, <2>2 DEF a
<1>4. \A fd \in ready : fd \in Fds /\ interest[fd] # NoPort
  OBVIOUS
<1> HIDE DEF ready, n
<1>5. ASSUME NEW i \in 1 .. n
      PROVE  /\ batch'[i] = interest[evs[i]] /\ batch'[i] \in Addr
             /\ Polled(batch'[i]) /\ mem[batch'[i]].fd = evs[i]
  <2>1. evs[i] \in Fds /\ interest[evs[i]] # NoPort /\ batch'[i] = interest[evs[i]]
    BY <1>1, <1>4
  <2>2. interest[evs[i]] \in Addr
    BY <2>1 DEF TypeOK
  <2> QED BY <2>1, <2>2 DEF Polls, Polled
<1>6. batch' \in Seq(Addr) /\ Len(batch') = n
  BY <1>1, <1>3, <1>5
<1>7. \A i, j \in 1 .. n : batch'[i] = batch'[j] => i = j
  BY <1>1, <1>5
<1> QED BY <1>5, <1>6, <1>7 DEF EpollWait

(****************************************************************************)
(* The initial states.                                                      *)
(****************************************************************************)
LEMMA InitType == Init => TypeOK
<1> SUFFICES ASSUME Init PROVE TypeOK
  OBVIOUS
<1> USE DEF Init, Queue!Init
<1>1. fdt \in [Fds -> Files \cup {NoFile}] /\ interest \in [Fds -> Addr \cup {NoPort}]
  BY Sets DEF Files, Peers
<1>2. mem \in [Addr -> [live : BOOLEAN, name : Names \cup {NoName}, type : PortTypes,
                        fd : Fds \cup {NoFd}, file : Peers \cup {NoFile}]]
  BY Sets, Consts DEF Peers, PortTypes
<1>3. table \in [Slots -> [used : BOOLEAN, fd : Fds \cup {NoFd}, port : Addr \cup {NoPort}]]
  BY Sets
<1>4. conn \in [Conns -> [st : {"new", "backlog", "open", "gone"}, srv : Config \cup {NoPort}]]
  OBVIOUS
<1>5. {sent, got} \subseteq [Peers -> Nat] /\ hup \subseteq Peers
  OBVIOUS
<1>6. batch \in Seq(Addr) /\ fifo \in Seq(Messages) /\ Len(fifo) <= QUEUE_CAP
      /\ delivered \in Seq([to : Files, msg : Messages])
  <2>1. Len(<<>>) = 0 /\ 0 <= QUEUE_CAP
    BY Consts
  <2> QED BY <2>1
<1>7. dslot \in 1 .. MAX_PORTS + 1 /\ drops \in Nat
  BY Consts
<1>8. /\ rpc \in {"loop", "adding", "routing", "pushing", "clear", "free", "dead"}
      /\ dpc \in {"pop", "scan", "match", "send", "write", "dead"}
      /\ rfd \in Fds \cup {NoFd} /\ rslot \in Slots \cup {0} /\ todo \subseteq DOMAIN Routes
      /\ {offered, taken} \subseteq Messages \cup {NoMsg}
      /\ dport \in Addr \cup {NoPort} /\ dfd \in Fds \cup {NoFd}
  OBVIOUS
<1> QED BY <1>1, <1>2, <1>3, <1>4, <1>5, <1>6, <1>7, <1>8 DEF TypeOK

LEMMA InitIInv == Init => IInv
<1> SUFFICES ASSUME Init PROVE IInv
  OBVIOUS
<1> USE DEF Init, Queue!Init
<1>1. TypeOK
  BY InitType
<1>2. DispatcherLocals
  BY DEF DispatcherLocals
<1>3. \A a \in Heap : mem[a].live = FALSE
  BY Sets
<1>4. \A a \in Config : mem[a] = [live |-> TRUE, name |-> Ports[a].name, type |-> Ports[a].type,
                                  fd |-> a, file |-> a]
  BY Sets
<1>5. \A fd \in Fds : /\ fd \in Config => interest[fd] = fd /\ fdt[fd] = fd
                      /\ fd \notin Config => interest[fd] = NoPort /\ fdt[fd] = NoFile
  OBVIOUS
<1>6. \A k \in Slots : table[k].used => k \in Config /\ table[k].fd = k /\ table[k].port = k
  OBVIOUS
<1>7. Fixed /\ ClientPorts
  BY <1>3, <1>4 DEF Fixed, ClientPorts
<1>8. Polls
  <2> SUFFICES ASSUME NEW fd \in Fds, interest[fd] # NoPort
               PROVE  /\ mem[interest[fd]].live /\ mem[interest[fd]].fd = fd
                      /\ mem[interest[fd]].file = fdt[fd] /\ fdt[fd] \in Peers
    BY DEF Polls
  <2>1. fd \in Config /\ interest[fd] = fd /\ fdt[fd] = fd
    BY <1>5
  <2>2. mem[fd] = [live |-> TRUE, name |-> Ports[fd].name, type |-> Ports[fd].type,
                   fd |-> fd, file |-> fd]
    BY <1>4, <2>1
  <2> HIDE DEF Init, Queue!Init
  <2>3. /\ mem[fd].live = TRUE /\ mem[fd].fd = fd /\ mem[fd].file = fd
    BY <2>2
  <2> QED BY <2>1, <2>3 DEF Peers
<1>9. Opened
  BY <1>5, FileAssumption DEF Opened, Files, Peers
<1>10. Entries
  BY <1>4, <1>5, <1>6, Sets DEF Entries
<1>11. Pending
  BY DEF Pending
<1>12. Locals
  BY <1>3 DEF Locals, New
<1> QED BY <1>1, <1>2, <1>7, <1>8, <1>9, <1>10, <1>11, <1>12 DEF IInv, Sound

(****************************************************************************)
(* Steps that leave the reactor's data alone.                               *)
(****************************************************************************)
LEMMA SoundKept ==
    ASSUME TypeOK, Sound, UNCHANGED <<fdt, mem, table, interest, batch, rfd, rslot>>,
           \/ rpc' = rpc
           \/ /\ {rpc, rpc'} \subseteq {"loop", "routing", "pushing"}
              /\ batch # <<>>,
           \A c \in Conns : conn[c].st = "open" => conn'[c].st = "open"
    PROVE  Sound'
<1>0. Fixed /\ Polls /\ Opened /\ ClientPorts /\ Entries /\ Pending /\ Locals
  BY DEF Sound
<1>1. Fixed' /\ Polls' /\ ClientPorts'
  BY <1>0 DEF Fixed, Polls, ClientPorts
<1>2. Opened'
  BY <1>0 DEF Opened
<1>3. EventPort' = EventPort /\ New' = New /\ \A p : Polled(p)' = Polled(p)
  BY DEF EventPort, New, Polled
<1>4. Entries'
  BY <1>0, <1>3 DEF Entries
<1>5. Pending'
  BY <1>0 DEF Pending, Polled
<1>6. Locals'
  BY <1>0, <1>3 DEF Locals
<1> QED BY <1>1, <1>2, <1>4, <1>5, <1>6 DEF Sound

\* reactor_thread goes on with the next event.
LEMMA NextEventSound ==
    ASSUME TypeOK, Sound, rpc \in {"loop", "routing"}, batch # <<>>, NextEvent,
           UNCHANGED <<fdt, mem, table, interest, conn>>
    PROVE  Sound'
<1>0. Fixed /\ Polls /\ Opened /\ ClientPorts /\ Entries /\ Pending /\ Locals
  BY DEF Sound
<1>1. Fixed' /\ Polls' /\ ClientPorts' /\ Opened'
  BY <1>0 DEF Fixed, Polls, ClientPorts, Opened
<1>2. rpc' = "loop" /\ batch' = Tail(batch)
  BY DEF NextEvent
<1>3. Entries'
  BY <1>0, <1>2 DEF Entries
<1>4. Pending'
  <2>1. batch \in Seq(Addr) /\ Len(batch) \in Nat
    BY DEF TypeOK
  <2>2. /\ Len(batch') = Len(batch) - 1
        /\ \A i \in 1 .. Len(batch') : batch'[i] = batch[i + 1] /\ i + 1 \in 1 .. Len(batch)
        /\ \A i, j \in 1 .. Len(batch') : i + 1 = j + 1 => i = j
    BY <1>2, <2>1
  <2>4. \A i \in 1 .. Len(batch) : Polled(batch[i])
    BY <1>0 DEF Pending
  <2>5. (\A i \in 1 .. Len(batch) : Polled(batch[i]))'
    BY <2>2, <2>4 DEF Polled
  <2>6. \A i, j \in 1 .. Len(batch') : batch'[i] = batch'[j] => i = j
    BY <1>0, <2>2 DEF Pending
  <2> QED BY <2>5, <2>6 DEF Pending
<1>5. New' = {}
  BY <1>0 DEF New, Locals
<1>6. Locals'
  BY <1>2, <1>5 DEF Locals
<1> QED BY <1>1, <1>3, <1>4, <1>6 DEF Sound

(****************************************************************************)
(* The steps of the reactor that change ports, entries and descriptors.     *)
(****************************************************************************)
LEMMA PolledFacts ==
    ASSUME TypeOK, Polls, NEW p \in Addr, Polled(p)
    PROVE  /\ mem[p].live /\ mem[p].fd \in Fds /\ interest[mem[p].fd] = p
           /\ fdt[mem[p].fd] = mem[p].file /\ mem[p].file \in Peers
  BY Sets DEF Polled, Polls

\* The event being handled; the others are of other ports and stay polled.
LEMMA BatchFacts ==
    ASSUME TypeOK, Sound, batch # <<>>
    PROVE  /\ EventPort \in Addr /\ EventPort = batch[1] /\ 1 \in 1 .. Len(batch)
           /\ rpc \notin {"clear", "free"} => Polled(EventPort)
           /\ \A i \in 1 .. Len(batch) : batch[i] \in Addr
           /\ \A i \in 1 .. Len(batch) : i # 1 => Polled(batch[i]) /\ batch[i] # EventPort
  BY DEF TypeOK, Sound, Pending, EventPort

LEMMA TailFacts ==
    ASSUME TypeOK, Sound, batch # <<>>, batch' = Tail(batch)
    PROVE  /\ \A i \in 1 .. Len(batch') :
                 batch'[i] = batch[i + 1] /\ i + 1 \in 1 .. Len(batch) /\ i + 1 # 1
           /\ \A i, j \in 1 .. Len(batch') : batch'[i] = batch'[j] => i = j
<1>1. batch \in Seq(Addr) /\ Len(batch) \in Nat
  BY DEF TypeOK
<1>2. /\ Len(batch') = Len(batch) - 1
      /\ \A i \in 1 .. Len(batch') : batch'[i] = batch[i + 1] /\ i + 1 \in 1 .. Len(batch) /\ i + 1 # 1
      /\ \A i, j \in 1 .. Len(batch') : i + 1 = j + 1 => i = j
  BY <1>1
<1> QED BY <1>2 DEF Sound, Pending

LEMMA AcceptSound == ASSUME TypeOK, Sound, AcceptClient PROVE Sound'
<1>0. /\ Fixed /\ Polls /\ Opened /\ ClientPorts /\ Entries /\ Pending /\ Locals
      /\ rpc = "loop" /\ batch # <<>> /\ FreeFds # {}
      /\ mem[EventPort].type \in Listening
      /\ UNCHANGED <<table, interest, batch, rslot>> /\ rpc' = "adding" /\ rfd' = LowestFd
  BY DEF Sound, AcceptClient
<1>1. PICK c \in Backlog(EventPort), p \in {a \in Heap : ~mem[a].live} :
         /\ fdt' = [fdt EXCEPT ![LowestFd] = c]
         /\ conn' = [conn EXCEPT ![c].st = "open"]
         /\ mem' = [mem EXCEPT ![p] = [live |-> TRUE, name |-> NoName, type |-> "tty",
                                       fd |-> NoFd, file |-> c]]
  BY DEF AcceptClient
<1> DEFINE fd == LowestFd
<1>2. fd \in Fds /\ fdt[fd] = NoFile /\ fdt'[fd] = c
      /\ \A a \in Fds \ {fd} : fdt'[a] = fdt[a]
  BY <1>0, <1>1, LowestFdFacts DEF TypeOK
<1>3. c \in Conns /\ conn[c].st = "backlog" /\ conn'[c].st = "open"
      /\ \A d \in Conns \ {c} : conn'[d] = conn[d]
  BY <1>1 DEF Backlog, TypeOK
<1>4. /\ p \in Heap /\ p \in Addr /\ ~mem[p].live
      /\ mem'[p].live = TRUE /\ mem'[p].fd = NoFd /\ mem'[p].file = c
      /\ \A a \in Addr \ {p} : mem'[a] = mem[a]
  BY <1>1, Sets DEF TypeOK
<1> HIDE DEF fd
<1>5. NoFile \notin Peers /\ c # NoFile
  BY <1>3, FileAssumption DEF Files, Peers
<1>6. Fixed'
  BY <1>0, <1>4, Sets DEF Fixed
<1>7. Polls'
  <2> SUFFICES ASSUME NEW a \in Fds, interest[a] # NoPort
               PROVE  /\ mem'[interest[a]].live /\ mem'[interest[a]].fd = a
                      /\ mem'[interest[a]].file = fdt'[a] /\ fdt'[a] \in Peers
    BY <1>0 DEF Polls
  <2>1. /\ interest[a] \in Addr /\ mem[interest[a]].live /\ mem[interest[a]].fd = a
        /\ mem[interest[a]].file = fdt[a] /\ fdt[a] \in Peers
    BY <1>0 DEF Polls, TypeOK
  <2>2. a # fd /\ interest[a] # p
    BY <1>2, <1>4, <1>5, <2>1
  <2> QED BY <1>2, <1>4, <2>1, <2>2
<1>8. Opened'
  <2>1. \A a \in Fds : fdt[a] # c
    BY <1>0, <1>3 DEF Opened
  <2> QED BY <1>0, <1>2, <1>3, <2>1 DEF Opened
<1>9. ClientPorts'
  BY <1>0, <1>3, <1>4, Sets DEF ClientPorts
<1>10. Entries'
  BY <1>0, <1>4 DEF Entries
<1>11. Pending'
  <2>1. \A q \in Addr : Polled(q) => q # p
    BY <1>0, <1>4, PolledFacts
  <2>2. \A i \in 1 .. Len(batch) : Polled(batch[i]) /\ batch[i] \in Addr
    BY <1>0, BatchFacts
  <2>3. (\A i \in 1 .. Len(batch) : Polled(batch[i]))'
    BY <1>0, <1>4, <2>1, <2>2 DEF Polled
  <2> QED BY <1>0, <2>3 DEF Pending
<1>12. Locals'
  <2>1. EventPort' = EventPort /\ EventPort # p /\ EventPort \in Addr
    BY <1>0, <1>4, BatchFacts, PolledFacts DEF EventPort
  <2>2. \A a \in New' : a = p
    BY <1>0, <1>4, Sets DEF New, Locals
  <2>3. interest[fd] = NoPort
    BY <1>0, <1>2, <1>5 DEF Polls
  <2> QED BY <1>0, <1>2, <1>3, <1>4, <2>1, <2>2, <2>3 DEF Locals, fd
<1> QED BY <1>6, <1>7, <1>8, <1>9, <1>10, <1>11, <1>12 DEF Sound

LEMMA AddSound == ASSUME TypeOK, Sound, AddClient PROVE Sound'
<1>0. /\ Fixed /\ Polls /\ Opened /\ ClientPorts /\ Entries /\ Pending /\ Locals
      /\ rpc = "adding" /\ batch # <<>> /\ rfd \in Fds /\ interest[rfd] = NoPort
      /\ fdt[rfd] \in Conns /\ mem[EventPort].type \in Listening
      /\ \A p, q \in New : p = q
      /\ \A p \in New : mem[p].file = fdt[rfd]
      /\ UNCHANGED <<fdt, conn>> /\ rpc' = "loop" /\ batch' = Tail(batch)
  BY DEF Sound, AddClient, Locals, NextEvent
<1>1. PICK p \in New :
         /\ mem' = [mem EXCEPT ![p].name = mem[EventPort].name,
                               ![p].type = ClientType(mem[EventPort].type),
                               ![p].fd   = rfd]
         /\ table' = TableWith(table, p, rfd)
         /\ interest' = [interest EXCEPT ![rfd] = p]
  BY DEF AddClient
<1>2. p \in Heap /\ p \in Addr /\ mem[p].live /\ mem[p].fd = NoFd /\ mem[p].file = fdt[rfd]
  BY <1>0, <1>1, Sets DEF New
<1>3. /\ mem'[p].live /\ mem'[p].fd = rfd /\ mem'[p].file = fdt[rfd] /\ mem'[p].type \in Accepted
      /\ \A a \in Addr \ {p} : mem'[a] = mem[a]
  BY <1>0, <1>1, <1>2 DEF TypeOK, ClientType, Accepted
<1>4. interest'[rfd] = p /\ \A a \in Fds \ {rfd} : interest'[a] = interest[a]
  BY <1>0, <1>1 DEF TypeOK
<1>5. \A q \in Addr : mem[q].fd \in Fds => q # p
  BY <1>2, Sets
<1>6. Fixed'
  BY <1>0, <1>2, <1>3, Sets DEF Fixed
<1>7. Polls'
  <2> SUFFICES ASSUME NEW a \in Fds, interest'[a] # NoPort
               PROVE  /\ mem'[interest'[a]].live /\ mem'[interest'[a]].fd = a
                      /\ mem'[interest'[a]].file = fdt'[a] /\ fdt'[a] \in Peers
    BY DEF Polls
  <2>1. CASE a = rfd
    BY <1>0, <1>3, <1>4, <2>1 DEF Peers
  <2>2. CASE a # rfd
    <3>1. interest'[a] = interest[a] /\ interest[a] \in Addr /\ mem[interest[a]].fd = a
      BY <1>0, <1>4, <2>2 DEF Polls, TypeOK
    <3>2. mem'[interest[a]] = mem[interest[a]]
      BY <1>3, <1>5, <3>1
    <3> QED BY <1>0, <3>1, <3>2 DEF Polls
  <2> QED BY <2>1, <2>2
<1>8. Opened'
  BY <1>0 DEF Opened
<1>9. ClientPorts'
  BY <1>0, <1>2, <1>3, Sets DEF ClientPorts
<1>10. Entries'
  <2>1. ASSUME NEW k \in Slots, table[k].used
        PROVE  /\ table[k].port \in Addr /\ table[k].port # p /\ table[k].fd # rfd
               /\ mem'[table[k].port].live /\ table[k].fd \in Fds
               /\ mem'[table[k].port].fd = table[k].fd
               /\ interest'[table[k].fd] = table[k].port
    <3>1. /\ table[k].port \in Addr /\ mem[table[k].port].live
          /\ table[k].fd \in Fds /\ mem[table[k].port].fd = table[k].fd
          /\ interest[table[k].fd] = table[k].port
      BY <1>0, <2>1 DEF Entries
    <3>2. table[k].port # p /\ table[k].fd # rfd
      BY <1>0, <1>5, <3>1, Sets
    <3> QED BY <1>3, <1>4, <3>1, <3>2
  <2>2. CASE table' = table
    BY <1>0, <2>1, <2>2 DEF Entries
  <2>3. ASSUME NEW n \in Slots, ~table[n].used,
               table' = [table EXCEPT ![n] = [used |-> TRUE, fd |-> rfd, port |-> p]]
        PROVE  Entries'
    <3>1. /\ table'[n].used /\ table'[n].fd = rfd /\ table'[n].port = p
          /\ \A k \in Slots \ {n} : table'[k] = table[k]
      BY <2>3 DEF TypeOK
    <3> QED BY <1>0, <1>2, <1>3, <1>4, <2>1, <3>1 DEF Entries
  <2> QED BY <1>0, <1>1, <1>2, <2>2, <2>3, TableWithFacts
<1>11. Pending'
  <2>1. /\ \A i \in 1 .. Len(batch') :
              batch'[i] = batch[i + 1] /\ i + 1 \in 1 .. Len(batch) /\ i + 1 # 1
        /\ \A i, j \in 1 .. Len(batch') : batch'[i] = batch'[j] => i = j
    BY <1>0, TailFacts
  <2>2. \A i \in 1 .. Len(batch') : batch'[i] \in Addr /\ Polled(batch[i + 1])
    BY <1>0, <2>1, BatchFacts
  <2>3. ASSUME NEW q \in Addr, Polled(q)
        PROVE  mem'[q].fd \in Fds /\ interest'[mem'[q].fd] = q
    <3>1. mem[q].fd \in Fds /\ interest[mem[q].fd] = q /\ mem[q].fd # rfd /\ q # p
      BY <1>0, <1>5, <2>3, Sets DEF Polled
    <3> QED BY <1>3, <1>4, <3>1
  <2>4. (\A i \in 1 .. Len(batch) : Polled(batch[i]))'
    BY <2>1, <2>2, <2>3 DEF Polled
  <2> QED BY <2>1, <2>4 DEF Pending
<1>12. New' = {}
  <2>1. mem'[p].fd # NoFd
    BY <1>0, <1>3, Sets
  <2>2. ASSUME NEW a \in Heap, a # p PROVE ~(mem'[a].live /\ mem'[a].fd = NoFd)
    <3>1. mem'[a] = mem[a] /\ a \notin New
      BY <1>0, <1>1, <1>3, <2>2, Sets
    <3> QED BY <3>1 DEF New
  <2> QED BY <2>1, <2>2 DEF New
<1>13. Locals'
  BY <1>0, <1>12 DEF Locals
<1> QED BY <1>6, <1>7, <1>8, <1>9, <1>10, <1>11, <1>13 DEF Sound

LEMMA CloseSound == ASSUME TypeOK, Sound, CloseFd PROVE Sound'
<1> DEFINE fd == mem[EventPort].fd
           f  == fdt[fd]
<1>0. /\ Fixed /\ Polls /\ Opened /\ ClientPorts /\ Entries /\ Pending /\ Locals
      /\ rpc = "loop" /\ batch # <<>> /\ rfd' = fd /\ rpc' = "clear"
      /\ interest' = [interest EXCEPT ![fd] = NoPort]
      /\ fdt' = [fdt EXCEPT ![fd] = NoFile]
      /\ conn' = IF f \in Conns THEN [conn EXCEPT ![f].st = "gone"] ELSE conn
      /\ UNCHANGED <<mem, table, batch, rslot>>
  BY DEF Sound, CloseFd, heap
<1>1. /\ EventPort \in Addr /\ EventPort = batch[1] /\ fd \in Fds /\ interest[fd] = EventPort
      /\ mem[EventPort].live /\ f \in Peers
  BY <1>0, BatchFacts, PolledFacts
<1>2. /\ interest'[fd] = NoPort /\ \A a \in Fds \ {fd} : interest'[a] = interest[a]
      /\ fdt'[fd] = NoFile /\ \A a \in Fds \ {fd} : fdt'[a] = fdt[a]
  BY <1>0, <1>1 DEF TypeOK
<1>3. \A c \in Conns : c # f => conn'[c] = conn[c]
  BY <1>0 DEF TypeOK
<1>4. f # NoFile /\ NoFile \notin Conns
  BY <1>1, FileAssumption DEF Files, Peers
<1> HIDE DEF f
<1>5. Fixed' /\ ClientPorts'
  BY <1>0 DEF Fixed, ClientPorts
<1>6. Polls'
  BY <1>0, <1>2 DEF Polls
<1>7. Opened'
  <2>1. \A a \in Fds \ {fd} : fdt[a] # f
    BY <1>0, <1>1, <1>4 DEF Opened, f
  <2> QED BY <1>0, <1>2, <1>3, <1>4, <2>1 DEF Opened
<1>8. EventPort' = EventPort
  BY <1>0 DEF EventPort
<1> HIDE DEF fd
<1>9. Entries'
  <2> SUFFICES ASSUME NEW k \in Slots, table[k].used
               PROVE  /\ table[k].port \in Addr /\ mem[table[k].port].live
                      /\ table[k].fd \in Fds /\ mem[table[k].port].fd = table[k].fd
                      /\ interest'[table[k].fd] = table[k].port \/ table[k].port = EventPort
                      /\ \A j \in Slots : table[j].used /\ j # k => table[j].port # table[k].port
    BY <1>0, <1>8 DEF Entries
  <2>1. /\ table[k].port \in Addr /\ mem[table[k].port].live
        /\ table[k].fd \in Fds /\ mem[table[k].port].fd = table[k].fd
        /\ interest[table[k].fd] = table[k].port
        /\ \A j \in Slots : table[j].used /\ j # k => table[j].port # table[k].port
    BY <1>0 DEF Entries
  <2> QED BY <1>1, <1>2, <2>1
<1>10. Pending'
  <2>1. ASSUME NEW i \in 1 .. Len(batch), i # 1
        PROVE  mem[batch[i]].fd \in Fds /\ interest'[mem[batch[i]].fd] = batch[i]
    <3>1. Polled(batch[i]) /\ batch[i] # EventPort
      BY <1>0, <2>1, BatchFacts
    <3> QED BY <1>1, <1>2, <3>1 DEF Polled
  <2>2. (\A i \in 1 .. Len(batch) : i # 1 => Polled(batch[i]))'
    BY <1>0, <2>1 DEF Polled
  <2>3. (\A i, j \in 1 .. Len(batch) : batch[i] = batch[j] => i = j)'
    BY <1>0 DEF Pending
  <2> QED BY <1>0, <2>2, <2>3 DEF Pending
<1>11. New' = {}
  BY <1>0 DEF New, Locals
<1>12. Locals'
  BY <1>0, <1>1, <1>2, <1>8, <1>11 DEF Locals, fd
<1> QED BY <1>5, <1>6, <1>7, <1>9, <1>10, <1>12 DEF Sound

\* In "clear" every used entry but the one of the port being closed is polled.
LEMMA ClearSound == ASSUME TypeOK, Sound, ClearEntry PROVE Sound'
<1> DEFINE entries == {k \in Slots : table[k].used /\ table[k].fd = rfd}
<1>0. /\ Fixed /\ Polls /\ Opened /\ ClientPorts /\ Entries /\ Pending /\ Locals
      /\ rpc = "clear" /\ batch # <<>> /\ UNCHANGED <<fdt, interest, conn, mem>>
      /\ mem[EventPort].live /\ mem[EventPort].fd = rfd
      /\ rfd \in Fds /\ interest[rfd] = NoPort /\ New = {}
  BY DEF Sound, ClearEntry, Locals, kernel
<1>1. \/ /\ entries = {} /\ NextEvent /\ UNCHANGED table
      \/ /\ entries # {}
         /\ table' = [table EXCEPT ![Min(entries)].used = FALSE, ![Min(entries)].fd = NoFd]
         /\ rslot' = Min(entries) /\ rpc' = "free" /\ UNCHANGED <<batch, rfd>>
  BY DEF ClearEntry
<1>2. EventPort \in Addr
  BY <1>0, BatchFacts
<1>3. Fixed' /\ ClientPorts' /\ Polls' /\ Opened' /\ New' = {}
  BY <1>0 DEF Fixed, ClientPorts, Polls, Opened, New
<1>4. ASSUME NEW k \in Slots, table[k].used
      PROVE  /\ table[k].port \in Addr /\ mem[table[k].port].live
             /\ table[k].fd \in Fds /\ mem[table[k].port].fd = table[k].fd
             /\ table[k].port # EventPort => interest[table[k].fd] = table[k].port
             /\ (table[k].port = EventPort) <=> k \in entries
             /\ \A j \in Slots : table[j].used /\ j # k => table[j].port # table[k].port
  <2>1. /\ table[k].port \in Addr /\ mem[table[k].port].live
        /\ table[k].fd \in Fds /\ mem[table[k].port].fd = table[k].fd
        /\ interest[table[k].fd] = table[k].port \/ table[k].port = EventPort
        /\ \A j \in Slots : table[j].used /\ j # k => table[j].port # table[k].port
    BY <1>0, <1>4 DEF Entries
  <2> QED BY <1>0, <1>4, <2>1, Sets
<1>5. CASE entries = {}
  <2>1. NextEvent /\ UNCHANGED table /\ rpc' = "loop" /\ batch' = Tail(batch)
    BY <1>1, <1>5 DEF NextEvent
  <2>2. Entries'
    BY <1>0, <1>4, <1>5, <2>1 DEF Entries
  <2>3. Pending'
    <3>1. /\ \A i \in 1 .. Len(batch') :
                batch'[i] = batch[i + 1] /\ i + 1 \in 1 .. Len(batch) /\ i + 1 # 1
          /\ \A i, j \in 1 .. Len(batch') : batch'[i] = batch'[j] => i = j
      BY <1>0, <2>1, TailFacts
    <3>2. \A i \in 1 .. Len(batch') : Polled(batch[i + 1])
      BY <1>0, <3>1, BatchFacts
    <3>3. (\A i \in 1 .. Len(batch) : Polled(batch[i]))'
      BY <1>0, <3>1, <3>2 DEF Polled
    <3> QED BY <3>1, <3>3 DEF Pending
  <2>4. Locals'
    BY <1>3, <2>1 DEF Locals
  <2> QED BY <1>3, <2>2, <2>3, <2>4 DEF Sound
<1>6. CASE entries # {}
  <2> DEFINE n == Min(entries)
  <2>1. n \in Slots /\ table[n].used /\ n \in entries
    <3>1. entries \in SUBSET Nat
      BY Sets
    <3>2. n \in entries
      BY <1>6, <3>1, MinFacts
    <3> QED BY <3>2
  <2>2. table' = [table EXCEPT ![n].used = FALSE, ![n].fd = NoFd]
        /\ rslot' = n /\ rpc' = "free" /\ UNCHANGED <<batch, rfd>>
    BY <1>1, <1>6
  <2> HIDE DEF n, entries
  <2>3. table[n].port = EventPort
    BY <1>4, <2>1
  <2>4. /\ ~table'[n].used /\ table'[n].port = EventPort
        /\ \A k \in Slots \ {n} : table'[k] = table[k]
    BY <2>1, <2>2, <2>3 DEF TypeOK
  <2>5. EventPort' = EventPort
    BY <2>2 DEF EventPort
  <2>6. Entries'
    <3> SUFFICES ASSUME NEW k \in Slots, table'[k].used
                 PROVE  /\ table'[k].port \in Addr /\ mem'[table'[k].port].live
                        /\ table'[k].fd \in Fds /\ mem'[table'[k].port].fd = table'[k].fd
                        /\ interest'[table'[k].fd] = table'[k].port
                        /\ \A j \in Slots : table'[j].used /\ j # k => table'[j].port # table'[k].port
      BY DEF Entries
    <3>1. k # n /\ table'[k] = table[k]
      BY <2>4
    <3>2. table[k].used /\ table[k].port # EventPort
      BY <1>4, <2>1, <2>3, <3>1
    <3> QED BY <1>0, <1>4, <2>4, <3>1, <3>2
  <2>7. Pending'
    BY <1>0, <2>2 DEF Pending, Polled
  <2>8. Locals'
    BY <1>0, <1>3, <2>1, <2>2, <2>4, <2>5 DEF Locals
  <2> QED BY <1>3, <2>6, <2>7, <2>8 DEF Sound
<1> QED BY <1>5, <1>6

LEMMA FreeSound == ASSUME TypeOK, Sound, FreePort PROVE Sound'
<1>0. /\ Fixed /\ Polls /\ Opened /\ ClientPorts /\ Entries /\ Pending /\ Locals
      /\ rpc = "free" /\ batch # <<>> /\ UNCHANGED <<fdt, interest, conn>>
      /\ mem[EventPort].live /\ mem[EventPort].fd = rfd
      /\ rfd \in Fds /\ interest[rfd] = NoPort /\ New = {}
      /\ rslot \in Slots /\ ~table[rslot].used /\ table[rslot].port = EventPort
      /\ rpc' = "loop" /\ batch' = Tail(batch)
  BY DEF Sound, FreePort, Locals, kernel, NextEvent
<1> DEFINE p == EventPort
<1>1. /\ table' = [table EXCEPT ![rslot].port = NoPort]
      /\ \/ mem' = mem
         \/ p \in Heap /\ mem' = [mem EXCEPT ![p].live = FALSE, ![p].name = NoName]
  BY <1>0 DEF FreePort
<1>2. p \in Addr
  BY <1>0, BatchFacts
<1> HIDE DEF p
<1>3. /\ ~table'[rslot].used /\ \A k \in Slots \ {rslot} : table'[k] = table[k]
  BY <1>0, <1>1 DEF TypeOK
<1>4. /\ \A a \in Addr \ {p} : mem'[a] = mem[a]
      /\ \/ mem'[p] = mem[p]
         \/ p \in Heap /\ mem'[p].live = FALSE
  <2>1. CASE mem' = mem
    BY <2>1
  <2>2. CASE p \in Heap /\ mem' = [mem EXCEPT ![p].live = FALSE, ![p].name = NoName]
    BY <1>2, <2>2 DEF TypeOK
  <2> QED BY <1>1, <2>1, <2>2
\* Nothing refers to the block any more.
<1>5. ASSUME NEW fd \in Fds, interest[fd] # NoPort PROVE interest[fd] # p /\ interest[fd] \in Addr
  BY <1>0, <1>5 DEF Polls, TypeOK, p
<1>6. Fixed'
  BY <1>0, <1>2, <1>4, Sets DEF Fixed
<1>7. Polls'
  BY <1>0, <1>4, <1>5 DEF Polls
<1>8. Opened'
  BY <1>0 DEF Opened
<1>9. ClientPorts'
  BY <1>0, <1>2, <1>4, Sets DEF ClientPorts
<1>10. Entries'
  <2> SUFFICES ASSUME NEW k \in Slots, table'[k].used
               PROVE  /\ table'[k].port \in Addr /\ mem'[table'[k].port].live
                      /\ table'[k].fd \in Fds /\ mem'[table'[k].port].fd = table'[k].fd
                      /\ interest'[table'[k].fd] = table'[k].port
                      /\ \A j \in Slots : table'[j].used /\ j # k => table'[j].port # table'[k].port
    BY DEF Entries
  <2>1. table'[k] = table[k] /\ table[k].used
    BY <1>3
  <2>2. /\ table[k].port \in Addr /\ mem[table[k].port].live
        /\ table[k].fd \in Fds /\ mem[table[k].port].fd = table[k].fd
        /\ interest[table[k].fd] = table[k].port
        /\ \A j \in Slots : table[j].used /\ j # k => table[j].port # table[k].port
    BY <1>0, <2>1 DEF Entries
  <2>3. table[k].port # p
    BY <1>5, <2>2, Sets
  <2>4. \A j \in Slots : table'[j].used => table'[j] = table[j]
    BY <1>3
  <2> QED BY <1>0, <1>4, <2>1, <2>2, <2>3, <2>4
<1>11. Pending'
  <2>1. /\ \A i \in 1 .. Len(batch') :
              batch'[i] = batch[i + 1] /\ i + 1 \in 1 .. Len(batch) /\ i + 1 # 1
        /\ \A i, j \in 1 .. Len(batch') : batch'[i] = batch'[j] => i = j
    BY <1>0, TailFacts
  <2>2. \A i \in 1 .. Len(batch') :
          batch[i + 1] \in Addr /\ batch[i + 1] # p /\ Polled(batch[i + 1])
    BY <1>0, <2>1, BatchFacts DEF p
  <2>3. (\A i \in 1 .. Len(batch) : Polled(batch[i]))'
    BY <1>0, <1>4, <2>1, <2>2 DEF Polled
  <2> QED BY <2>1, <2>3 DEF Pending
<1>12. New' = {}
  <2>1. \A a \in Heap : ~(mem[a].live /\ mem[a].fd = NoFd)
    BY <1>0 DEF New
  <2>2. \A a \in Heap : ~(mem'[a].live /\ mem'[a].fd = NoFd)
    BY <1>4, <2>1, Sets
  <2> QED BY <2>2 DEF New
<1>13. Locals'
  BY <1>0, <1>12 DEF Locals
<1> QED BY <1>6, <1>7, <1>8, <1>9, <1>10, <1>11, <1>13 DEF Sound

LEMMA EpollSound == ASSUME TypeOK, Sound, EpollWait PROVE Sound'
<1>0. /\ Fixed /\ Polls /\ Opened /\ ClientPorts /\ Entries /\ Pending /\ Locals
      /\ rpc = "loop" /\ rpc' = "loop"
      /\ UNCHANGED <<fdt, interest, conn, mem, table, rfd, rslot>>
      /\ \A i \in 1 .. Len(batch') : Polled(batch'[i])
      /\ \A i, j \in 1 .. Len(batch') : batch'[i] = batch'[j] => i = j
  BY EpollFacts DEF Sound, kernel, heap
<1>1. Fixed' /\ ClientPorts' /\ Polls' /\ Opened' /\ New' = New
  BY <1>0 DEF Fixed, ClientPorts, Polls, Opened, New
<1>2. Entries'
  BY <1>0 DEF Entries
<1>3. Pending'
  BY <1>0 DEF Pending, Polled
<1>4. Locals'
  BY <1>0, <1>1 DEF Locals
<1> QED BY <1>1, <1>2, <1>3, <1>4 DEF Sound

(****************************************************************************)
(* Types: one lemma per group of actions.                                   *)
(****************************************************************************)
LEMMA QueueType ==
    ASSUME TypeOK, \/ \E m \in Messages : Queue!Offer(m)
                   \/ Queue!Accept \/ Queue!Drop \/ Queue!Take \/ Queue!Finish
    PROVE  /\ fifo' \in Seq(Messages) /\ Len(fifo') <= QUEUE_CAP
           /\ {offered', taken'} \subseteq Messages \cup {NoMsg}
           /\ drops' \in Nat
<1>0. /\ fifo \in Seq(Messages) /\ Len(fifo) <= QUEUE_CAP /\ Len(fifo) \in Nat
      /\ offered \in Messages \cup {NoMsg} /\ taken \in Messages \cup {NoMsg}
      /\ drops \in Nat /\ QUEUE_CAP \in Nat
  BY Consts DEF TypeOK
<1>1. CASE \E m \in Messages : Queue!Offer(m)
  BY <1>0, <1>1 DEF Queue!Offer
<1>2. CASE Queue!Accept
  BY <1>0, <1>2 DEF Queue!Accept
<1>3. CASE Queue!Drop
  BY <1>0, <1>3 DEF Queue!Drop
<1>4. CASE Queue!Take
  <2>1. fifo' = Tail(fifo) /\ taken' = Head(fifo) /\ fifo # <<>> /\ UNCHANGED <<offered, drops>>
    BY <1>4 DEF Queue!Take
  <2>2. Tail(fifo) \in Seq(Messages) /\ Head(fifo) \in Messages /\ Len(Tail(fifo)) <= Len(fifo)
    BY <1>0, <2>1
  <2> QED BY <1>0, <2>1, <2>2
<1>5. CASE Queue!Finish
  BY <1>0, <1>5 DEF Queue!Finish
<1> QED BY <1>1, <1>2, <1>3, <1>4, <1>5

LEMMA NextEventType ==
    ASSUME TypeOK, batch # <<>>, NextEvent
    PROVE  batch' \in Seq(Addr) /\ rpc' = "loop" /\ rfd' = NoFd /\ rslot' = 0 /\ todo' = {}
  BY DEF TypeOK, NextEvent

LEMMA PeersType ==
    ASSUME TypeOK,
           \/ \E c \in Conns, srv \in Config : Connect(c, srv)
           \/ \E f \in Peers : PeerSends(f)
           \/ \E f \in Peers : PeerCloses(f)
           \/ IpcAccept
           \/ \E fd \in Fds : IpcClose(fd)
    PROVE  TypeOK'
<1> USE DEF heap, reactor, queue, dispatcher
<1>1. CASE \E c \in Conns, srv \in Config : Connect(c, srv)
  BY <1>1 DEF Connect, TypeOK
<1>2. CASE \E f \in Peers : PeerSends(f)
  <2>1. PICK f \in Peers : PeerSends(f)
    BY <1>2
  <2>2. sent' \in [Peers -> Nat]
    BY <2>1 DEF PeerSends, TypeOK
  <2> QED BY <2>1, <2>2 DEF PeerSends, TypeOK
<1>3. CASE \E f \in Peers : PeerCloses(f)
  BY <1>3 DEF PeerCloses, TypeOK
<1>4. CASE IpcAccept
  BY <1>4, LowestFdFacts DEF IpcAccept, TypeOK, Files
<1>5. CASE \E fd \in Fds : IpcClose(fd)
  BY <1>5 DEF IpcClose, TypeOK
<1> QED BY <1>1, <1>2, <1>3, <1>4, <1>5

LEMMA DispatcherType ==
    ASSUME IInv, Pop \/ Scan \/ Match \/ Send \/ WriteOk \/ WriteLost \/ WriteKilled
    PROVE  TypeOK'
<1> USE DEF kernel, heap, reactor
<1>0. TypeOK /\ DispatcherLocals /\ MAX_PORTS \in Nat
  BY Consts DEF IInv
<1>1. CASE Pop
  <2>1. Queue!Take /\ UNCHANGED <<kernel, heap, reactor, dport, dfd, delivered>>
        /\ dpc' = "scan" /\ dslot' = 1
    BY <1>1 DEF Pop
  <2> QED BY <1>0, <2>1, QueueType DEF TypeOK
<1>2. ASSUME Handled, UNCHANGED <<kernel, heap, reactor>>,
             delivered' \in Seq([to : Files, msg : Messages])
      PROVE  TypeOK'
  <2>1. Queue!Finish /\ dpc' = "pop" /\ dslot' = 1 /\ dport' = NoPort /\ dfd' = NoFd
    BY <1>2 DEF Handled
  <2> QED BY <1>0, <1>2, <2>1, QueueType DEF TypeOK
<1>3. delivered \in Seq([to : Files, msg : Messages])
  BY <1>0 DEF TypeOK
<1>4. CASE Scan
  <2>1. CASE Handled
    BY <1>2, <1>3, <1>4, <2>1 DEF Scan
  <2>2. CASE /\ dslot <= MAX_PORTS /\ dslot' = dslot + 1
             /\ UNCHANGED <<queue, dpc, dport, dfd, kernel, heap, reactor, delivered>>
    <3>1. dslot' \in 1 .. MAX_PORTS + 1
      BY <1>0, <2>2 DEF TypeOK
    <3> QED BY <1>0, <2>2, <3>1 DEF TypeOK, queue
  <2>3. CASE /\ dslot <= MAX_PORTS /\ dport' = table[dslot].port /\ dpc' = "match"
             /\ UNCHANGED <<queue, dslot, dfd, kernel, heap, reactor, delivered>>
    <3>1. dport' \in Addr \cup {NoPort}
      BY <1>0, <2>3 DEF TypeOK, Slots
    <3> QED BY <1>0, <2>3, <3>1 DEF TypeOK, queue
  <2> QED BY <1>4, <2>1, <2>2, <2>3 DEF Scan
<1>5. CASE Match
  <2>1. dslot' \in 1 .. MAX_PORTS + 1
    BY <1>0, <1>5 DEF Match, TypeOK, DispatcherLocals
  <2> QED BY <1>0, <1>5, <2>1 DEF Match, TypeOK, queue
<1>6. CASE Send
  <2>1. CASE Handled
    BY <1>2, <1>3, <1>6, <2>1 DEF Send
  <2>2. CASE /\ mem[dport].fd # NoFd /\ dfd' = mem[dport].fd /\ dpc' = "write"
             /\ UNCHANGED <<queue, dslot, dport>>
    <3>1. dport \in Addr /\ dfd' \in Fds \cup {NoFd}
      BY <1>0, <1>6, <2>2 DEF Send, TypeOK, DispatcherLocals
    <3> QED BY <1>0, <1>6, <2>2, <3>1 DEF Send, TypeOK, queue
  <2> QED BY <1>6, <2>1, <2>2 DEF Send
<1>7. CASE WriteOk
  <2>1. dfd \in Fds /\ taken \in Messages /\ fdt[dfd] \in Files
    BY <1>0, <1>7 DEF WriteOk, TypeOK, DispatcherLocals
  <2>2. delivered' \in Seq([to : Files, msg : Messages])
    BY <1>3, <1>7, <2>1 DEF WriteOk
  <2> QED BY <1>2, <1>7, <2>2 DEF WriteOk
<1>8. CASE WriteLost
  BY <1>2, <1>3, <1>8 DEF WriteLost
<1>9. CASE WriteKilled
  BY <1>0, <1>9 DEF WriteKilled, Dies, TypeOK, queue
<1> QED BY <1>1, <1>4, <1>5, <1>6, <1>7, <1>8, <1>9

LEMMA ReactorType ==
    ASSUME IInv, \/ EpollWait \/ AcceptClient \/ AddClient \/ AcceptFails \/ ReadData
                 \/ RouteOne \/ Push \/ RoutesDone
    PROVE  TypeOK'
<1> USE DEF kernel, heap, queue, dispatcher
<1>0. TypeOK /\ (Alive => Sound)
  BY DEF IInv
<1>n. ASSUME rpc \in {"loop", "routing"}, batch # <<>>, NextEvent,
             UNCHANGED <<kernel, heap, queue, dispatcher>>
      PROVE  TypeOK'
  BY <1>0, <1>n, NextEventType DEF TypeOK
<1>1. CASE EpollWait
  <2>1. /\ batch' \in Seq(Addr)
        /\ UNCHANGED <<rpc, rfd, rslot, todo, kernel, heap, queue, dispatcher>>
    BY <1>0, <1>1, EpollFacts DEF EpollWait, Sound, Alive
  <2> QED BY <1>0, <2>1 DEF TypeOK
<1>2. CASE AcceptClient
  <2>1. LowestFd \in Fds
    BY <1>2, LowestFdFacts DEF AcceptClient
  <2>2. PICK c \in Backlog(EventPort), p \in {a \in Heap : ~mem[a].live} :
         /\ fdt' = [fdt EXCEPT ![LowestFd] = c]
         /\ conn' = [conn EXCEPT ![c].st = "open"]
         /\ mem' = [mem EXCEPT ![p] = [live |-> TRUE, name |-> NoName, type |-> "tty",
                                       fd |-> NoFd, file |-> c]]
    BY <1>2 DEF AcceptClient
  <2>3. c \in Conns /\ c \in Peers /\ c \in Files
    BY DEF Backlog, Peers, Files
  <2>4. fdt' \in [Fds -> Files \cup {NoFile}]
    BY <1>0, <2>2, <2>3 DEF TypeOK
  <2>5. conn' \in [Conns -> [st : {"new", "backlog", "open", "gone"}, srv : Config \cup {NoPort}]]
    BY <1>0, <2>2, <2>3 DEF TypeOK
  <2>6. mem' \in [Addr -> [live : BOOLEAN, name : Names \cup {NoName}, type : PortTypes,
                           fd : Fds \cup {NoFd}, file : Peers \cup {NoFile}]]
    BY <1>0, <2>2, <2>3 DEF TypeOK, PortTypes
  <2>7. /\ rfd' = LowestFd /\ rpc' = "adding"
        /\ UNCHANGED <<interest, sent, got, hup, table, batch, rslot, todo, queue, dispatcher>>
    BY <1>2 DEF AcceptClient
  <2> QED BY <1>0, <2>1, <2>4, <2>5, <2>6, <2>7 DEF TypeOK
<1>3. CASE AddClient
  <2>0. /\ batch # <<>> /\ rfd \in Fds /\ EventPort \in Addr /\ NextEvent
        /\ UNCHANGED <<fdt, conn, sent, got, hup, queue, dispatcher>>
    BY <1>0, <1>3, BatchFacts DEF AddClient, Sound, Locals, Alive
  <2>1. PICK p \in New :
         /\ mem' = [mem EXCEPT ![p].name = mem[EventPort].name,
                               ![p].type = ClientType(mem[EventPort].type),
                               ![p].fd   = rfd]
         /\ table' = TableWith(table, p, rfd)
         /\ interest' = [interest EXCEPT ![rfd] = p]
    BY <1>3 DEF AddClient
  <2>2. p \in Addr
    BY Sets DEF New
  <2>3. mem[EventPort].name \in Names \cup {NoName} /\ ClientType(mem[EventPort].type) \in PortTypes
    BY <1>0, <2>0 DEF TypeOK, ClientType, PortTypes, Accepted
  <2>4. mem' \in [Addr -> [live : BOOLEAN, name : Names \cup {NoName}, type : PortTypes,
                           fd : Fds \cup {NoFd}, file : Peers \cup {NoFile}]]
    <3> DEFINE S == [live : BOOLEAN, name : Names \cup {NoName}, type : PortTypes,
                     fd : Fds \cup {NoFd}, file : Peers \cup {NoFile}]
               u == mem[EventPort].name
               v == ClientType(mem[EventPort].type)
               r == [mem[p] EXCEPT !.name = u, !.type = v, !.fd = rfd]
    <3>1. mem \in [Addr -> S] /\ mem[p] \in S
      BY <1>0, <2>2 DEF TypeOK
    <3>2. r \in S
      BY <2>0, <2>3, <3>1
    <3>3. mem' = [mem EXCEPT ![p] = r]
      <4>1. mem' = [mem EXCEPT ![p].name = u, ![p].type = v, ![p].fd = rfd]
        BY <2>1
      <4> HIDE DEF S, u, v
      <4> QED BY <2>2, <3>1, <4>1
    <3> HIDE DEF S, r
    <3>4. mem' \in [Addr -> S]
      BY <3>1, <3>2, <3>3
    <3> QED BY <3>4 DEF S
  <2>5. interest' \in [Fds -> Addr \cup {NoPort}]
    BY <1>0, <2>0, <2>1, <2>2 DEF TypeOK
  <2>6. table' \in [Slots -> [used : BOOLEAN, fd : Fds \cup {NoFd}, port : Addr \cup {NoPort}]]
    <3>1. \/ table' = table
          \/ \E k \in Slots :
                table' = [table EXCEPT ![k] = [used |-> TRUE, fd |-> rfd, port |-> p]]
      BY <1>0, <2>0, <2>1, <2>2, TableWithFacts
    <3>2. [used |-> TRUE, fd |-> rfd, port |-> p]
            \in [used : BOOLEAN, fd : Fds \cup {NoFd}, port : Addr \cup {NoPort}]
      BY <2>0, <2>2
    <3> QED BY <1>0, <3>1, <3>2 DEF TypeOK
  <2>7. batch' \in Seq(Addr) /\ rpc' = "loop" /\ rfd' = NoFd /\ rslot' = 0 /\ todo' = {}
    BY <1>0, <2>0, NextEventType
  <2> QED BY <1>0, <2>0, <2>4, <2>5, <2>6, <2>7 DEF TypeOK
<1>4. CASE AcceptFails
  BY <1>n, <1>4 DEF AcceptFails
<1>5. CASE ReadData
  <2>1. got' \in [Peers -> Nat]
    BY <1>0, <1>5 DEF ReadData, TypeOK
  <2>2. todo' \subseteq DOMAIN Routes
    BY <1>5 DEF ReadData, RoutesFrom
  <2> QED BY <1>0, <1>5, <2>1, <2>2 DEF ReadData, TypeOK
<1>6. CASE RouteOne
  <2>1. /\ rpc = "routing" /\ todo # {} /\ todo \subseteq DOMAIN Routes
        /\ todo' = todo \ {Min(todo)} /\ UNCHANGED <<kernel, heap, batch, rfd, rslot, dispatcher>>
    BY <1>0, <1>6 DEF RouteOne, TypeOK
  <2>2. CASE UNCHANGED <<rpc, queue>>
    BY <1>0, <2>1, <2>2 DEF TypeOK
  <2>3. CASE /\ Queue!Offer([src |-> mem[EventPort].file, n |-> got[mem[EventPort].file],
                             dst |-> Routes[Min(todo)].dst])
             /\ rpc' = "pushing"
    <3> DEFINE f == mem[EventPort].file
               m == [src |-> f, n |-> got[f], dst |-> Routes[Min(todo)].dst]
    <3>1. f \in Peers
      BY <1>0, <2>1, BatchFacts, PolledFacts DEF Sound, Locals, Alive
    <3>2. Min(todo) \in DOMAIN Routes
      <4>1. DOMAIN Routes \subseteq Nat
        BY ConfigAssumption
      <4> QED BY <2>1, <4>1, MinFacts
    <3>3. got[f] \in Nat
      BY <1>0, <3>1 DEF TypeOK
    <3>4. m \in Messages
      BY <3>1, <3>2, <3>3 DEF Messages
    <3>5. Queue!Offer(m)
      BY <2>3
    <3> HIDE DEF m
    <3> QED BY <1>0, <2>1, <2>3, <3>4, <3>5, QueueType DEF TypeOK
  <2> QED BY <1>6, <2>2, <2>3 DEF RouteOne
<1>7. CASE Push
  <2>1. /\ Queue!Accept \/ Queue!Drop
        /\ rpc' = "routing" /\ UNCHANGED <<kernel, heap, batch, rfd, rslot, todo, dispatcher>>
    BY <1>7 DEF Push
  <2> QED BY <1>0, <2>1, QueueType DEF TypeOK
<1>8. CASE RoutesDone
  BY <1>0, <1>8, <1>n DEF RoutesDone, Sound, Locals, Alive
<1> QED BY <1>1, <1>2, <1>3, <1>4, <1>5, <1>6, <1>7, <1>8

LEMMA CloseType ==
    ASSUME IInv, CloseFd \/ ClearEntry \/ FreePort \/ FreeAborts
    PROVE  TypeOK'
<1> USE DEF kernel, heap, queue, dispatcher
<1>0. TypeOK /\ (Alive => Sound)
  BY DEF IInv
<1>1. CASE CloseFd
  <2> DEFINE fd == mem[EventPort].fd
             f  == fdt[fd]
  <2>0. /\ rpc = "loop" /\ batch # <<>> /\ rfd' = fd /\ rpc' = "clear"
        /\ interest' = [interest EXCEPT ![fd] = NoPort]
        /\ fdt' = [fdt EXCEPT ![fd] = NoFile]
        /\ conn' = IF f \in Conns THEN [conn EXCEPT ![f].st = "gone"] ELSE conn
        /\ UNCHANGED <<sent, got, hup, mem, table, batch, rslot, todo, queue, dispatcher>>
    BY <1>1 DEF CloseFd
  <2>1. fd \in Fds
    BY <1>0, <2>0, BatchFacts, PolledFacts DEF Sound, Alive
  <2>2. conn' \in [Conns -> [st : {"new", "backlog", "open", "gone"}, srv : Config \cup {NoPort}]]
    BY <1>0, <2>0 DEF TypeOK
  <2> HIDE DEF fd, f
  <2>3. fdt' \in [Fds -> Files \cup {NoFile}] /\ interest' \in [Fds -> Addr \cup {NoPort}]
    BY <1>0, <2>0, <2>1 DEF TypeOK
  <2> QED BY <1>0, <2>0, <2>1, <2>2, <2>3 DEF TypeOK
<1>2. CASE ClearEntry
  <2> DEFINE entries == {k \in Slots : table[k].used /\ table[k].fd = rfd}
  <2>0. /\ rpc = "clear" /\ UNCHANGED <<kernel, mem, queue, dispatcher>>
        /\ \/ entries = {} /\ NextEvent /\ UNCHANGED table
           \/ /\ entries # {} /\ rslot' = Min(entries) /\ rpc' = "free"
              /\ table' = [table EXCEPT ![Min(entries)].used = FALSE, ![Min(entries)].fd = NoFd]
              /\ UNCHANGED <<batch, rfd, todo>>
    BY <1>2 DEF ClearEntry
  <2>1. batch # <<>>
    BY <1>0, <2>0 DEF Sound, Locals, Alive
  <2>2. CASE NextEvent /\ UNCHANGED table
    BY <1>0, <2>0, <2>1, <2>2, NextEventType DEF TypeOK
  <2>3. CASE entries # {} /\ rslot' = Min(entries) /\ rpc' = "free"
              /\ table' = [table EXCEPT ![Min(entries)].used = FALSE, ![Min(entries)].fd = NoFd]
              /\ UNCHANGED <<batch, rfd, todo>>
    <3>1. entries \in SUBSET Nat
      BY Sets
    <3>2. Min(entries) \in entries
      BY <2>3, <3>1, MinFacts
    <3>3. Min(entries) \in Slots
      BY <3>2
    <3> HIDE DEF entries
    <3>4. table' \in [Slots -> [used : BOOLEAN, fd : Fds \cup {NoFd}, port : Addr \cup {NoPort}]]
      <4> DEFINE n == Min(entries)
                 S == [used : BOOLEAN, fd : Fds \cup {NoFd}, port : Addr \cup {NoPort}]
                 r == [table[n] EXCEPT !.used = FALSE, !.fd = NoFd]
      <4>1. n \in Slots /\ table \in [Slots -> S] /\ table[n] \in S
        BY <1>0, <3>3 DEF TypeOK
      <4>2. r \in S
        BY <4>1
      <4>3. table' = [table EXCEPT ![n].used = FALSE, ![n].fd = NoFd]
        BY <2>3
      <4> HIDE DEF n
      <4>4. table' = [table EXCEPT ![n] = r]
        <5> HIDE DEF S
        <5> QED BY <4>1, <4>3
      <4> HIDE DEF S, r
      <4>5. table' \in [Slots -> S]
        BY <4>1, <4>2, <4>4
      <4> QED BY <4>5 DEF S
    <3> QED BY <1>0, <2>0, <2>3, <3>3, <3>4 DEF TypeOK
  <2> QED BY <2>0, <2>2, <2>3
<1>3. CASE FreePort
  <2>0. /\ rpc = "free" /\ NextEvent /\ UNCHANGED <<kernel, queue, dispatcher>>
        /\ table' = [table EXCEPT ![rslot].port = NoPort]
        /\ \/ mem' = mem
           \/ mem' = [mem EXCEPT ![table[rslot].port].live = FALSE, ![table[rslot].port].name = NoName]
    BY <1>3 DEF FreePort
  <2>1. batch # <<>>
    BY <1>0, <2>0 DEF Sound, Locals, Alive
  <2>2. mem' \in [Addr -> [live : BOOLEAN, name : Names \cup {NoName}, type : PortTypes,
                           fd : Fds \cup {NoFd}, file : Peers \cup {NoFile}]]
    <3> DEFINE p == table[rslot].port
               S == [live : BOOLEAN, name : Names \cup {NoName}, type : PortTypes,
                     fd : Fds \cup {NoFd}, file : Peers \cup {NoFile}]
               r == [live |-> FALSE, name |-> NoName, type |-> mem[p].type,
                     fd |-> mem[p].fd, file |-> mem[p].file]
    <3>0. mem \in [Addr -> S]
      BY <1>0 DEF TypeOK
    <3>1. CASE p \notin Addr
      BY <2>0, <3>0, <3>1
    <3>2. CASE p \in Addr
      <4>1. mem[p] \in S
        BY <3>0, <3>2
      <4>2. r \in S
        BY <4>1
      <4>3. \/ mem' = mem
            \/ mem' = [mem EXCEPT ![p].live = FALSE, ![p].name = NoName]
        BY <2>0
      <4> HIDE DEF p
      <4>4. mem' = mem \/ mem' = [mem EXCEPT ![p] = r]
        BY <3>0, <3>2, <4>1, <4>3
      <4> HIDE DEF S, r
      <4>5. mem' \in [Addr -> S]
        BY <3>0, <3>2, <4>2, <4>4
      <4> QED BY <4>5 DEF S
    <3> QED BY <3>1, <3>2
  <2>3. table' \in [Slots -> [used : BOOLEAN, fd : Fds \cup {NoFd}, port : Addr \cup {NoPort}]]
    <3> DEFINE S == [used : BOOLEAN, fd : Fds \cup {NoFd}, port : Addr \cup {NoPort}]
               r == [used |-> table[rslot].used, fd |-> table[rslot].fd, port |-> NoPort]
    <3>1. table \in [Slots -> S] /\ rslot \in Slots
      BY <1>0, <2>0 DEF TypeOK, Sound, Locals, Alive
    <3>2. table[rslot] \in S
      BY <3>1
    <3>3. r \in S
      BY <3>2
    <3>5. table' = [table EXCEPT ![rslot] = r]
      <4>1. r = [table[rslot] EXCEPT !.port = NoPort]
        BY <3>2
      <4>2. table' = [table EXCEPT ![rslot] = [table[rslot] EXCEPT !.port = NoPort]]
        BY <2>0
      <4> QED BY <4>1, <4>2
    <3> HIDE DEF S, r
    <3>4. table' \in [Slots -> S]
      BY <3>1, <3>3, <3>5
    <3> QED BY <3>4 DEF S
  <2> QED BY <1>0, <2>0, <2>1, <2>2, <2>3, NextEventType DEF TypeOK
<1>4. CASE FreeAborts
  BY <1>0, <1>4 DEF FreeAborts, Dies, TypeOK
<1> QED BY <1>1, <1>2, <1>3, <1>4

(****************************************************************************)
(* The dispatcher's locals, and the induction.                              *)
(****************************************************************************)

\* The actions, by who takes them.
PeerStep == \/ \E c \in Conns, srv \in Config : Connect(c, srv)
            \/ \E f \in Peers : PeerSends(f)
            \/ \E f \in Peers : PeerCloses(f)
DispatcherStep == Pop \/ Scan \/ Match \/ Send \/ WriteOk \/ WriteLost

LEMMA DispatcherLocalsStep ==
    ASSUME IInv, [Next]_vars
    PROVE  DispatcherLocals'
<1> USE DEF kernel, heap, reactor, dispatcher
<1>0. TypeOK /\ DispatcherLocals /\ MAX_PORTS \in Nat /\ NoMsg \notin Messages
  BY Consts, FileAssumption DEF IInv
\* The other threads leave the dispatcher's variables alone.
<1>a. ASSUME UNCHANGED <<dpc, dslot, dport, dfd, taken>>, rpc = "dead" <=> rpc' = "dead"
      PROVE  DispatcherLocals'
  BY <1>0, <1>a DEF DispatcherLocals
<1>1. CASE PeerStep \/ IpcAccept \/ \E fd \in Fds : IpcClose(fd)
  BY <1>a, <1>1 DEF PeerStep, Connect, PeerSends, PeerCloses, IpcAccept, IpcClose, queue
<1>2. CASE EpollWait \/ AcceptClient \/ AddClient \/ AcceptFails \/ ReadData \/ RoutesDone
           \/ CloseFd \/ ClearEntry \/ FreePort
  <2>1. UNCHANGED <<dpc, dslot, dport, dfd, taken>>
    BY <1>2 DEF EpollWait, AcceptClient, AddClient, AcceptFails, ReadData, RoutesDone, CloseFd,
                ClearEntry, FreePort, queue
  <2>2. rpc = "dead" <=> rpc' = "dead"
    BY <1>2 DEF EpollWait, AcceptClient, AddClient, AcceptFails, ReadData, RoutesDone, CloseFd,
                ClearEntry, FreePort, NextEvent
  <2> QED BY <1>a, <2>1, <2>2
<1>3. CASE RouteOne \/ Push
  <2>1. UNCHANGED <<dpc, dslot, dport, dfd>> /\ rpc # "dead" /\ rpc' # "dead"
    BY <1>3 DEF RouteOne, Push
  <2>2. taken' = taken
    BY <1>3 DEF RouteOne, Push, Queue!Offer, Queue!Accept, Queue!Drop, queue
  <2> QED BY <1>a, <2>1, <2>2
<1>4. CASE FreeAborts \/ WriteKilled
  BY <1>4 DEF FreeAborts, WriteKilled, Dies, DispatcherLocals
<1>5. CASE Pop
  <2>1. /\ dpc = "pop" /\ rpc' = rpc /\ dpc' = "scan" /\ fifo # <<>> /\ taken' = Head(fifo)
    BY <1>5 DEF Pop, Queue!Take
  <2>2. taken' \in Messages
    BY <1>0, <2>1 DEF TypeOK
  <2> QED BY <1>0, <2>1, <2>2 DEF DispatcherLocals
<1>6. ASSUME Handled, rpc' = rpc, dpc # "dead" PROVE DispatcherLocals'
  BY <1>0, <1>6 DEF Handled, DispatcherLocals
<1>7. CASE Scan
  <2>1. rpc' = rpc /\ dpc = "scan" /\ taken # NoMsg /\ rpc # "dead"
    BY <1>0, <1>7 DEF Scan, DispatcherLocals
  <2>2. CASE Handled
    BY <1>6, <2>1, <2>2
  <2>3. CASE dpc' = dpc /\ taken' = taken
    BY <2>1, <2>3 DEF DispatcherLocals
  <2>4. CASE /\ dslot <= MAX_PORTS /\ table[dslot].port # NoPort
             /\ dport' = table[dslot].port /\ dpc' = "match" /\ UNCHANGED <<taken, dslot>>
    <3>1. dslot \in Slots
      BY <1>0, <2>4 DEF TypeOK, Slots
    <3>2. dport' \in Addr
      BY <1>0, <2>4, <3>1 DEF TypeOK
    <3> QED BY <2>1, <2>4, <3>2 DEF DispatcherLocals
  <2> QED BY <1>7, <2>2, <2>3, <2>4 DEF Scan, queue
<1>8. CASE Match
  BY <1>0, <1>8 DEF Match, DispatcherLocals, queue
<1>9. CASE Send
  BY <1>0, <1>6, <1>9 DEF Send, DispatcherLocals, TypeOK, queue
<1>10. CASE WriteOk \/ WriteLost
  BY <1>6, <1>10 DEF WriteOk, WriteLost
<1>11. CASE UNCHANGED vars
  BY <1>0, <1>11 DEF vars, queue, DispatcherLocals
<1> QED BY <1>1, <1>2, <1>3, <1>4, <1>5, <1>7, <1>8, <1>9, <1>10, <1>11 DEF Next, PeerStep

\* ipc_thread takes the lowest free descriptor, which is nobody's, and gives
\* back one that no port has.
LEMMA IpcSound ==
    ASSUME TypeOK, Sound, IpcAccept \/ \E fd \in Fds : IpcClose(fd)
    PROVE  Sound'
<1>0. /\ Fixed /\ Polls /\ Opened /\ ClientPorts /\ Entries /\ Pending /\ Locals
      /\ UNCHANGED <<mem, table, interest, conn, batch, rpc, rfd, rslot>>
      /\ IpcPeer \notin Peers /\ NoFile \notin Peers /\ IpcPeer # NoFile
      /\ Conns \subseteq Peers
  BY FileAssumption DEF Sound, IpcAccept, IpcClose, heap, reactor, Files, Peers
<1>1. PICK fd \in Fds :
        /\ \/ fdt[fd] = NoFile /\ fdt'[fd] = IpcPeer /\ \A a \in Fds : fdt[a] # IpcPeer
           \/ fdt[fd] = IpcPeer /\ fdt'[fd] = NoFile
        /\ \A a \in Fds \ {fd} : fdt'[a] = fdt[a]
  <2>1. CASE IpcAccept
    BY <2>1, LowestFdFacts DEF IpcAccept, TypeOK
  <2>2. CASE \E fd \in Fds : IpcClose(fd)
    BY <2>2 DEF IpcClose, TypeOK
  <2> QED BY <2>1, <2>2
<1>2. \A a \in Fds : fdt[a] \in Peers => fdt'[a] = fdt[a]
  BY <1>0, <1>1
<1>3. Fixed' /\ ClientPorts' /\ Polls'
  BY <1>0, <1>2 DEF Fixed, ClientPorts, Polls
<1>4. Opened'
  <2>1. \A a \in Fds : fdt'[a] \in Conns => fdt'[a] = fdt[a]
    BY <1>0, <1>1
  <2>2. \A a, b \in Fds : fdt'[a] = fdt'[b] /\ fdt'[a] # NoFile => a = b
    BY <1>0, <1>1 DEF Opened
  <2> QED BY <1>0, <2>1, <2>2 DEF Opened
<1>5. EventPort' = EventPort /\ New' = New
  BY <1>0 DEF EventPort, New
<1>6. Entries'
  BY <1>0, <1>5 DEF Entries
<1>7. Pending'
  BY <1>0 DEF Pending, Polled
<1>8. Locals'
  BY <1>0, <1>2, <1>5 DEF Locals
<1> QED BY <1>3, <1>4, <1>6, <1>7, <1>8 DEF Sound

LEMMA SoundStep ==
    ASSUME IInv, [Next]_vars, Alive'
    PROVE  Sound'
<1> USE DEF kernel, heap, reactor, queue
<1>0. TypeOK /\ DispatcherLocals
  BY DEF IInv
<1>1. Alive
  <2>1. CASE rpc' = rpc
    BY <2>1 DEF Alive
  <2>2. CASE rpc' # rpc
    <3>1. \/ EpollWait \/ AcceptClient \/ AddClient \/ AcceptFails \/ ReadData \/ RouteOne
          \/ Push \/ RoutesDone \/ CloseFd \/ ClearEntry \/ FreePort \/ FreeAborts \/ WriteKilled
      BY <2>2 DEF Next, vars, Connect, PeerSends, PeerCloses, IpcAccept, IpcClose, Pop, Scan,
                  Match, Send, WriteOk, WriteLost
    <3> QED BY <1>0, <3>1 DEF EpollWait, AcceptClient, AddClient, AcceptFails, ReadData, RouteOne,
              Push, RoutesDone, CloseFd, ClearEntry, FreePort, FreeAborts, WriteKilled,
              DispatcherLocals, Alive
  <2> QED BY <2>1, <2>2
<1>2. Sound
  BY <1>1 DEF IInv
<1>3. CASE PeerStep \/ DispatcherStep \/ UNCHANGED vars
  <2>1. /\ UNCHANGED <<fdt, mem, table, interest, batch, rpc, rfd, rslot>>
        /\ \A c \in Conns : conn[c].st = "open" => conn'[c].st = "open"
    <3>1. CASE DispatcherStep
      BY <3>1 DEF DispatcherStep, Pop, Scan, Match, Send, WriteOk, WriteLost
    <3>2. CASE PeerStep
      BY <1>0, <3>2 DEF PeerStep, Connect, PeerSends, PeerCloses, TypeOK
    <3> QED BY <1>3, <3>1, <3>2 DEF vars
  <2> QED BY <1>0, <1>2, <2>1, SoundKept
<1>4. CASE IpcAccept \/ \E fd \in Fds : IpcClose(fd)
  BY <1>0, <1>2, <1>4, IpcSound
<1>5. CASE EpollWait \/ AcceptClient \/ AddClient \/ CloseFd \/ ClearEntry \/ FreePort
  BY <1>0, <1>2, <1>5, EpollSound, AcceptSound, AddSound, CloseSound, ClearSound, FreeSound
<1>6. CASE AcceptFails \/ RoutesDone
  <2>1. batch # <<>>
    BY <1>2, <1>6 DEF AcceptFails, RoutesDone, Sound, Locals
  <2> QED BY <1>0, <1>2, <1>6, <2>1, NextEventSound DEF AcceptFails, RoutesDone
<1>7. CASE ReadData \/ RouteOne \/ Push
  <2>1. batch # <<>>
    BY <1>2, <1>7 DEF ReadData, RouteOne, Push, Sound, Locals
  <2>2. /\ UNCHANGED <<fdt, mem, table, interest, batch, rfd, rslot, conn>>
        /\ {rpc, rpc'} \subseteq {"loop", "routing", "pushing"}
    BY <1>7 DEF ReadData, RouteOne, Push
  <2> QED BY <1>0, <1>2, <2>1, <2>2, SoundKept
<1>8. CASE FreeAborts \/ WriteKilled
  BY <1>8 DEF FreeAborts, WriteKilled, Dies, Alive
<1> QED BY <1>3, <1>4, <1>5, <1>6, <1>7, <1>8 DEF Next, PeerStep, DispatcherStep

LEMMA TypeStep == ASSUME IInv, [Next]_vars PROVE TypeOK'
<1>1. CASE UNCHANGED vars
  BY <1>1 DEF vars, kernel, heap, reactor, queue, dispatcher, IInv, TypeOK
<1>2. CASE Next
  BY <1>2, PeersType, DispatcherType, ReactorType, CloseType DEF Next, IInv
<1> QED BY <1>1, <1>2

\* IInv is an inductive invariant.
THEOREM Inductive == Spec => []IInv
<1>1. IInv /\ [Next]_vars => IInv'
  BY TypeStep, DispatcherLocalsStep, SoundStep DEF IInv
<1> QED BY InitIInv, <1>1, PTL DEF Spec

\* Every variable keeps its type.
THEOREM TypeCorrect == Spec => []TypeOK
<1>1. IInv => TypeOK
  BY DEF IInv
<1> QED BY Inductive, <1>1, PTL

\* g_port_table never goes stale: every used entry points to an allocated port
\* with the entry's descriptor and its own connection, although descriptors and
\* heap blocks are reused at once.
THEOREM NeverStale == Spec => []TableCoherent
<1>1. IInv => TableCoherent
  <2> SUFFICES ASSUME IInv, Alive, NEW k \in Slots, table[k].used
               PROVE  /\ table[k].port \in Addr /\ mem[table[k].port].live
                      /\ table[k].fd = mem[table[k].port].fd
                      /\ TakingDown(table[k].port) \/ Attached(table[k].port)
                      /\ \A j \in Slots \ {k} : table[j].used => /\ table[j].port # table[k].port
                                                                 /\ table[j].fd # table[k].fd
    BY DEF TableCoherent
  <2>0. TypeOK /\ Polls /\ Entries
    BY DEF IInv, Sound
  <2>1. /\ table[k].port \in Addr /\ mem[table[k].port].live
        /\ table[k].fd \in Fds /\ mem[table[k].port].fd = table[k].fd
        /\ interest[table[k].fd] = table[k].port \/ (rpc = "clear" /\ table[k].port = EventPort)
    BY <2>0 DEF Entries
  <2>2. TakingDown(table[k].port) \/ Attached(table[k].port)
    BY <2>0, <2>1, PolledFacts DEF TakingDown, Attached, Polled
  <2>3. ASSUME NEW j \in Slots, j # k, table[j].used
        PROVE  table[j].port # table[k].port /\ table[j].fd # table[k].fd
    <3>1. table[j].port # table[k].port
      BY <2>0, <2>3 DEF Entries
    <3>2. /\ table[j].fd \in Fds /\ mem[table[j].port].fd = table[j].fd
          /\ interest[table[j].fd] = table[j].port \/ (rpc = "clear" /\ table[j].port = EventPort)
      BY <2>0, <2>3 DEF Entries
    <3>3. rpc = "clear" => interest[mem[EventPort].fd] = NoPort
      BY DEF IInv, Sound, Locals
    <3>4. table[j].port # NoPort
      BY <2>0, <2>3, Sets DEF Entries
    <3> QED BY <2>1, <3>1, <3>2, <3>3, <3>4, Sets
  <2> QED BY <2>1, <2>2, <2>3
<1> QED BY Inductive, <1>1, PTL

\* The pointers of evs[] survive the batch: closing a connection, freeing its
\* port and accepting another one never invalidates an event still to be
\* handled.
THEOREM EventsStayValid == Spec => []PendingEventsValid
<1>1. IInv => PendingEventsValid
  <2> SUFFICES ASSUME IInv, Alive, NEW i \in DOMAIN batch
               PROVE  TakingDown(batch[i]) \/ Attached(batch[i])
    BY DEF PendingEventsValid
  <2>0. TypeOK /\ Sound /\ Polls /\ Pending
    BY DEF IInv, Sound
  <2>1. i \in 1 .. Len(batch) /\ batch # <<>> /\ batch[i] \in Addr
    BY <2>0 DEF TypeOK
  <2>2. CASE Polled(batch[i])
    BY <2>0, <2>1, <2>2, PolledFacts DEF Attached
  <2>3. CASE i = 1 /\ rpc \in {"clear", "free"}
    BY <2>0, <2>1, <2>3, BatchFacts DEF TakingDown
  <2> QED BY <2>0, <2>1, <2>2, <2>3 DEF Pending
<1> QED BY Inductive, <1>1, PTL

(****************************************************************************)
(* No port is leaked, but one that is accepted while the table is full.     *)
(****************************************************************************)
LEMMA HeldFacts == IInv => KnownIsHeld
<1> SUFFICES ASSUME IInv, Alive, NEW p \in Heap
             PROVE  Known(p) <=> Held(p)
  BY DEF KnownIsHeld
<1>0. TypeOK /\ Sound /\ Polls /\ Entries /\ Locals
  BY DEF IInv, Sound
<1>1. ASSUME NEW k \in Slots, table[k].used, table[k].port = p
      PROVE  TakingDown(p) \/ Attached(p)
  <2>1. /\ p \in Addr /\ mem[p].live /\ mem[p].fd = table[k].fd /\ table[k].fd \in Fds
        /\ interest[table[k].fd] = p \/ (rpc = "clear" /\ p = EventPort)
    BY <1>0, <1>1 DEF Entries
  <2> QED BY <1>0, <2>1, PolledFacts DEF TakingDown, Attached, Polled
<1>2. rpc = "free" => table[rslot].port = EventPort
  BY <1>0 DEF Locals
<1> QED BY <1>1, <1>2 DEF Known, Listed, Held

\* A process that a signal ended stays dead.
LEMMA DeathLasts == ASSUME IInv, [Next]_vars, Alive' PROVE Alive
  BY DEF IInv, DispatcherLocals, Next, vars, Connect, PeerSends, PeerCloses, IpcAccept, IpcClose,
         EpollWait, AcceptClient, AddClient, AcceptFails, ReadData, RouteOne, Push, RoutesDone,
         CloseFd, ClearEntry, FreePort, FreeAborts, Pop, Scan, Match, Send, WriteOk, WriteLost,
         WriteKilled, Alive, kernel, heap, reactor, queue, dispatcher

LEMMA KnownStep ==
    ASSUME IInv, [Next]_vars, Alive', NEW a \in Heap, Known(a), mem'[a].live
    PROVE  Known(a)' \/ (a \in New /\ FreeSlots = {})
<1> USE DEF kernel, heap, reactor, queue, dispatcher
<1>1. TypeOK /\ Sound /\ Alive
  BY DeathLasts DEF IInv
<1>2. ASSUME UNCHANGED <<mem, table>>, rpc # "free" \/ UNCHANGED <<rpc, batch>>
      PROVE  Known(a)'
  BY <1>1, <1>2 DEF Known, Listed, New, EventPort
<1>3. CASE PeerStep \/ DispatcherStep \/ IpcAccept \/ (\E fd \in Fds : IpcClose(fd)) \/ UNCHANGED vars
  <2>1. UNCHANGED <<mem, table, rpc, batch>>
    <3>1. CASE DispatcherStep
      BY <3>1 DEF DispatcherStep, Pop, Scan, Match, Send, WriteOk, WriteLost
    <3>2. CASE PeerStep
      BY <3>2 DEF PeerStep, Connect, PeerSends, PeerCloses
    <3> QED BY <1>3, <3>1, <3>2 DEF vars, IpcAccept, IpcClose
  <2> QED BY <1>2, <2>1
<1>4. CASE EpollWait \/ AcceptFails \/ ReadData \/ RouteOne \/ Push \/ RoutesDone \/ CloseFd
  BY <1>2, <1>4 DEF EpollWait, AcceptFails, ReadData, RouteOne, Push, RoutesDone, CloseFd
<1>5. CASE AcceptClient
  <2>1. rpc = "loop" /\ table' = table
    BY <1>5 DEF AcceptClient
  <2>2. PICK c \in Backlog(EventPort), p \in {b \in Heap : ~mem[b].live} :
          mem' = [mem EXCEPT ![p] = [live |-> TRUE, name |-> NoName, type |-> "tty",
                                     fd |-> NoFd, file |-> c]]
    BY <1>5 DEF AcceptClient
  <2>3. /\ p \in Heap /\ mem'[p].live /\ mem'[p].fd = NoFd
        /\ \A b \in Heap \ {p} : mem'[b] = mem[b]
    BY <1>1, <2>2, Sets DEF TypeOK
  <2> QED BY <1>1, <2>1, <2>3 DEF Known, Listed, New
<1>6. CASE AddClient
  <2>1. PICK p \in New :
         /\ mem' = [mem EXCEPT ![p].name = mem[EventPort].name,
                               ![p].type = ClientType(mem[EventPort].type),
                               ![p].fd   = rfd]
         /\ table' = TableWith(table, p, rfd)
    BY <1>6 DEF AddClient
  <2>2. /\ rpc = "adding" /\ rfd \in Fds /\ p \in Addr /\ \A q \in New : q = p
    BY <1>1, <1>6, Sets DEF AddClient, Sound, Locals, New
  <2>3. CASE table' = table /\ \A k \in Slots : table[k].used
    BY <1>1, <2>2, <2>3 DEF FreeSlots, Known, Listed
  <2>4. ASSUME NEW n \in Slots, ~table[n].used,
               table' = [table EXCEPT ![n] = [used |-> TRUE, fd |-> rfd, port |-> p]]
        PROVE  Known(a)'
    <3>1. table'[n].used /\ table'[n].port = p /\ \A k \in Slots \ {n} : table'[k] = table[k]
      BY <1>1, <2>4 DEF TypeOK
    <3> QED BY <1>1, <2>2, <2>4, <3>1 DEF Known, Listed
  <2> QED BY <1>1, <2>1, <2>2, <2>3, <2>4, TableWithFacts
<1>7. CASE ClearEntry
  <2> DEFINE entries == {k \in Slots : table[k].used /\ table[k].fd = rfd}
             n == Min(entries)
  <2>1. /\ rpc = "clear" /\ mem' = mem
        /\ \/ table' = table
           \/ /\ entries # {} /\ rpc' = "free" /\ batch' = batch
              /\ table' = [table EXCEPT ![n].used = FALSE, ![n].fd = NoFd]
    BY <1>7 DEF ClearEntry
  <2>2. CASE table' = table
    BY <1>2, <2>1, <2>2
  <2>3. CASE /\ entries # {} /\ rpc' = "free" /\ batch' = batch
             /\ table' = [table EXCEPT ![n].used = FALSE, ![n].fd = NoFd]
    <3>1. entries \in SUBSET Nat
      BY Sets
    <3>2. n \in entries
      BY <2>3, <3>1, MinFacts
    <3>3. n \in Slots /\ table[n].used /\ table[n].fd = rfd
      BY <3>2
    <3> HIDE DEF entries, n
    <3>4. table[n].port = EventPort
      <4>1. /\ table[n].fd \in Fds /\ table[n].port \in Addr
            /\ interest[table[n].fd] = table[n].port \/ table[n].port = EventPort
        BY <1>1, <3>3 DEF Sound, Entries
      <4>2. interest[rfd] = NoPort
        BY <1>1, <2>1 DEF Sound, Locals
      <4> QED BY <3>3, <4>1, <4>2, Sets
    <3>5. \A k \in Slots \ {n} : table'[k] = table[k]
      BY <1>1, <2>3, <3>3 DEF TypeOK
    <3>6. EventPort' = EventPort
      BY <2>3 DEF EventPort
    <3> QED BY <1>1, <2>1, <2>3, <3>3, <3>4, <3>5, <3>6 DEF Known, Listed, New
  <2> QED BY <2>1, <2>2, <2>3
<1>8. CASE FreePort
  <2> DEFINE p == EventPort
  <2>1. /\ rpc = "free" /\ rslot \in Slots /\ ~table[rslot].used /\ table[rslot].port = p
        /\ p \in Addr /\ mem[p].live /\ mem[p].fd = rfd /\ rfd # NoFd
        /\ table' = [table EXCEPT ![rslot].port = NoPort]
        /\ \/ mem' = mem /\ mem[p].type \notin Accepted
           \/ mem' = [mem EXCEPT ![p].live = FALSE, ![p].name = NoName]
    <3>1. /\ rpc = "free" /\ table' = [table EXCEPT ![rslot].port = NoPort]
          /\ \/ mem' = mem /\ mem[p].type \notin Accepted
             \/ mem' = [mem EXCEPT ![table[rslot].port].live = FALSE,
                                   ![table[rslot].port].name = NoName]
      BY <1>8 DEF FreePort
    <3>2. batch # <<>>
      BY <1>1, <3>1 DEF Sound, Locals
    <3> QED BY <1>1, <3>1, <3>2, BatchFacts, Sets DEF Sound, Locals
  <2> HIDE DEF p
  <2>2. /\ \A k \in Slots \ {rslot} : table'[k] = table[k]
        /\ \A b \in Addr \ {p} : mem'[b] = mem[b]
    BY <1>1, <2>1 DEF TypeOK
  <2>3. p \in Heap => ~mem'[p].live
    <3>1. p \in Heap => mem[p].type \in Accepted
      BY <1>1, <2>1 DEF Sound, ClientPorts
    <3> QED BY <1>1, <2>1, <3>1 DEF TypeOK
  <2>4. a # p /\ mem[a].live /\ New = {}
    BY <1>1, <2>1, <2>2, <2>3, Sets DEF Sound, Locals
  <2>5. PICK k \in Slots : table[k].used /\ table[k].port = a
    BY <2>4 DEF Known, Listed, p
  <2> QED BY <2>1, <2>2, <2>5 DEF Known, Listed
<1>9. CASE FreeAborts \/ WriteKilled
  BY <1>9 DEF FreeAborts, WriteKilled, Dies, Alive
<1> QED BY <1>3, <1>4, <1>5, <1>6, <1>7, <1>8, <1>9 DEF Next, PeerStep, DispatcherStep

\* The daemon knows every port_def_t until it frees it, whatever the sizes of
\* the table and the heap and however connections come and go, with one
\* exception: a client that is accepted while g_port_table has no free entry.
THEOREM LeaksOnlyWhenFull == Spec => LeakOnlyWhenFull
<1> DEFINE Step == Alive' => \A p \in Heap : Held(p) /\ mem'[p].live =>
                                Held(p)' \/ (p \in New /\ FreeSlots = {})
<1>1. IInv /\ KnownIsHeld /\ KnownIsHeld' /\ [Next]_vars => Step
  <2> SUFFICES ASSUME IInv, KnownIsHeld, KnownIsHeld', [Next]_vars, Alive',
                      NEW p \in Heap, Held(p), mem'[p].live
               PROVE  Held(p)' \/ (p \in New /\ FreeSlots = {})
    OBVIOUS
  <2>1. Alive
    BY DeathLasts
  <2>2. Known(p)
    BY <2>1 DEF KnownIsHeld
  <2>3. Known(p)' \/ (p \in New /\ FreeSlots = {})
    BY <2>2, KnownStep
  <2>4. Known(p)' => Held(p)'
    BY DEF KnownIsHeld
  <2> QED BY <2>3, <2>4
<1>2. IInv => KnownIsHeld
  BY HeldFacts
<1> QED BY Inductive, <1>1, <1>2, PTL DEF Spec, LeakOnlyWhenFull

(****************************************************************************)
(* Order.                                                                   *)
(****************************************************************************)

\* No route stands twice in config.json.
RoutesDiffer == \A i, j \in DOMAIN Routes :
    Routes[i].src = Routes[j].src /\ Routes[i].dst = Routes[j].dst => i = j

\* A new message comes last.
LEMMA LineOffer ==
    ASSUME TypeOK, Line, NEW m \in Messages, Queue!Offer(m), delivered' = delivered,
           \A i \in 1 .. Len(delivered) : Before(Written(i), m),
           taken # NoMsg => Before(taken, m),
           \A i \in 1 .. Len(fifo) : Before(fifo[i], m)
    PROVE  Line'
  BY DEF Line, Queue!Offer, Written, Before

LEMMA LinePush ==
    ASSUME TypeOK, Line, Queue!Accept \/ Queue!Drop, delivered' = delivered
    PROVE  Line'
<1>1. CASE Queue!Drop
  BY <1>1 DEF Line, Queue!Drop, Written, Before
<1>2. CASE Queue!Accept
  <2>1. /\ offered # NoMsg /\ offered' = NoMsg /\ taken' = taken /\ fifo' = Append(fifo, offered)
        /\ fifo \in Seq(Messages) /\ Len(fifo) \in Nat /\ offered \in Messages
    BY <1>2 DEF Queue!Accept, TypeOK
  <2>2. \A i \in 1 .. Len(fifo') : \/ i \in 1 .. Len(fifo) /\ fifo'[i] = fifo[i]
                                   \/ i = Len(fifo) + 1 /\ fifo'[i] = offered
    BY <2>1
  <2>3. \A i \in 1 .. Len(delivered) : Written(i)' = Written(i)
    BY DEF Written
  <2>4. \A i, j \in 1 .. Len(fifo') : i < j => i \in 1 .. Len(fifo)
    BY <2>1
  <2>5. \A i, j \in 1 .. Len(fifo') : i < j => Before(fifo'[i], fifo'[j])
    BY <2>1, <2>2, <2>4 DEF Line
  <2>6. /\ \A i \in 1 .. Len(delivered) : \A j \in 1 .. Len(fifo') : Before(Written(i), fifo'[j])
        /\ taken # NoMsg => \A j \in 1 .. Len(fifo') : Before(taken, fifo'[j])
    BY <2>1, <2>2 DEF Line
  <2> QED BY <2>1, <2>3, <2>5, <2>6 DEF Line, Before, Written
<1> QED BY <1>1, <1>2

LEMMA LineTake ==
    ASSUME TypeOK, Line, Queue!Take, delivered' = delivered
    PROVE  Line'
<1>1. /\ fifo \in Seq(Messages) /\ Len(fifo) \in Nat /\ fifo # <<>>
      /\ taken' = Head(fifo) /\ fifo' = Tail(fifo) /\ offered' = offered
  BY DEF Queue!Take, TypeOK
<1>2. /\ 1 \in 1 .. Len(fifo) /\ taken' = fifo[1]
      /\ \A i \in 1 .. Len(fifo') : i + 1 \in 1 .. Len(fifo) /\ fifo'[i] = fifo[i + 1] /\ 1 < i + 1
      /\ \A i, j \in 1 .. Len(fifo') : i < j => i + 1 < j + 1
  BY <1>1
<1>3. \A i \in 1 .. Len(delivered) : Written(i)' = Written(i)
  BY DEF Written
<1>4. /\ \A i, j \in 1 .. Len(fifo') : i < j => Before(fifo'[i], fifo'[j])
      /\ \A j \in 1 .. Len(fifo') : Before(taken', fifo'[j])
  BY <1>2 DEF Line
<1>5. \A i \in 1 .. Len(delivered) :
         /\ Before(Written(i), taken')
         /\ \A j \in 1 .. Len(fifo') : Before(Written(i), fifo'[j])
  BY <1>2 DEF Line
<1>6. offered # NoMsg => /\ Before(taken', offered)
                         /\ \A i \in 1 .. Len(fifo') : Before(fifo'[i], offered)
  BY <1>2 DEF Line
<1> QED BY <1>1, <1>3, <1>4, <1>5, <1>6 DEF Line, Before, Written

\* The dispatcher is done with its message, having written it or not.
LEMMA LineDone ==
    ASSUME TypeOK, Line, Queue!Finish,
           \/ delivered' = delivered
           \/ \E f \in Files : delivered' = Append(delivered, [to |-> f, msg |-> taken])
    PROVE  Line'
<1>1. taken # NoMsg /\ taken \in Messages /\ taken' = NoMsg /\ UNCHANGED <<fifo, offered>>
  BY DEF Queue!Finish, TypeOK
<1>2. CASE delivered' = delivered
  BY <1>1, <1>2 DEF Line, Written, Before
<1>3. CASE \E f \in Files : delivered' = Append(delivered, [to |-> f, msg |-> taken])
  <2>1. delivered \in Seq([to : Files, msg : Messages]) /\ Len(delivered) \in Nat
    BY DEF TypeOK
  <2>2. PICK f \in Files : delivered' = Append(delivered, [to |-> f, msg |-> taken])
    BY <1>3
  <2> DEFINE r == [to |-> f, msg |-> taken]
  <2>3. r \in [to : Files, msg : Messages] /\ r.msg = taken
    BY <1>1
  <2> HIDE DEF r
  <2>4. delivered' = Append(delivered, r)
    BY <2>2 DEF r
  <2>5. \A i \in 1 .. Len(delivered') :
           \/ i \in 1 .. Len(delivered) /\ delivered'[i] = delivered[i]
           \/ i = Len(delivered) + 1 /\ delivered'[i] = r
    BY <2>1, <2>3, <2>4
  <2>6. \A i \in 1 .. Len(delivered') :
           \/ i \in 1 .. Len(delivered) /\ Written(i)' = Written(i)
           \/ i = Len(delivered) + 1 /\ Written(i)' = taken
    BY <2>3, <2>5 DEF Written
  <2>7. \A i, j \in 1 .. Len(delivered') : i < j => i \in 1 .. Len(delivered)
    BY <2>1, <2>4
  <2>8. \A i, j \in 1 .. Len(delivered') : i < j => Before(Written(i)', Written(j)')
    BY <1>1, <2>6, <2>7 DEF Line
  <2>9. \A i \in 1 .. Len(delivered') : /\ \A j \in 1 .. Len(fifo) : Before(Written(i)', fifo[j])
                                        /\ offered # NoMsg => Before(Written(i)', offered)
    BY <1>1, <2>6 DEF Line
  <2> QED BY <1>1, <2>8, <2>9 DEF Line, Before
<1> QED BY <1>2, <1>3

LEMMA WrittenFacts == ASSUME TypeOK PROVE \A i \in 1 .. Len(delivered) : Written(i) \in Messages
<1> DEFINE S == [to : Files, msg : Messages]
<1>1. delivered \in Seq(S)
  BY DEF TypeOK
<1>2. \A s \in S : s.msg \in Messages
  OBVIOUS
<1> HIDE DEF S
<1>3. \A i \in 1 .. Len(delivered) : delivered[i] \in S
  BY <1>1
<1> QED BY <1>2, <1>3 DEF Written

\* When the messages on their way are the same, and no more routes are left.
LEMMA NumberedKept ==
    ASSUME TypeOK, Numbered,
           \A x \in Messages : OfChunk(x) => OfChunk(x)',
           \/ UNCHANGED <<fifo, offered, taken>>
           \/ Queue!Accept \/ Queue!Drop \/ Queue!Take \/ Queue!Finish,
           \/ delivered' = delivered
           \/ /\ taken # NoMsg
              /\ \E f \in Files : delivered' = Append(delivered, [to |-> f, msg |-> taken])
    PROVE  Numbered'
<1>0. /\ fifo \in Seq(Messages) /\ Len(fifo) \in Nat
      /\ delivered \in Seq([to : Files, msg : Messages]) /\ Len(delivered) \in Nat
      /\ offered # NoMsg => offered \in Messages
      /\ taken # NoMsg => taken \in Messages
  BY DEF TypeOK
<1>1. \A i \in 1 .. Len(delivered) : Written(i) \in Messages
  BY WrittenFacts
<1>2. (\A i \in 1 .. Len(delivered) : OfChunk(Written(i)))'
  <2>1. CASE delivered' = delivered
    BY <1>1, <2>1 DEF Numbered, Written, OfChunk
  <2>2. ASSUME taken # NoMsg, NEW f \in Files,
               delivered' = Append(delivered, [to |-> f, msg |-> taken])
        PROVE  (\A i \in 1 .. Len(delivered) : OfChunk(Written(i)))'
    <3> DEFINE r == [to |-> f, msg |-> taken]
    <3>1. r \in [to : Files, msg : Messages] /\ r.msg = taken
      BY <1>0, <2>2
    <3> HIDE DEF r
    <3>2. delivered' = Append(delivered, r)
      BY <2>2 DEF r
    <3>3. \A i \in 1 .. Len(delivered') :
             \/ i \in 1 .. Len(delivered) /\ delivered'[i] = delivered[i]
             \/ i = Len(delivered) + 1 /\ delivered'[i] = r
      BY <1>0, <3>1, <3>2
    <3>4. \A i \in 1 .. Len(delivered') :
             \/ i \in 1 .. Len(delivered) /\ delivered'[i].msg = Written(i)
             \/ delivered'[i].msg = taken
      BY <3>1, <3>3 DEF Written
    <3>5. \A i \in 1 .. Len(delivered') :
             delivered'[i].msg \in Messages /\ OfChunk(delivered'[i].msg)
      BY <1>0, <1>1, <2>2, <3>4 DEF Numbered
    <3> QED BY <3>5 DEF OfChunk, Written
  <2> QED BY <2>1, <2>2
<1>3. /\ \A i \in 1 .. Len(fifo') : fifo'[i] \in Messages /\ OfChunk(fifo'[i])
      /\ offered' # NoMsg => offered' \in Messages /\ OfChunk(offered')
      /\ taken' # NoMsg => taken' \in Messages /\ OfChunk(taken')
  <2>1. CASE UNCHANGED <<fifo, offered, taken>>
    BY <1>0, <2>1 DEF Numbered
  <2>2. CASE Queue!Accept
    <3>1. /\ offered # NoMsg /\ offered' = NoMsg /\ taken' = taken /\ fifo' = Append(fifo, offered)
      BY <2>2 DEF Queue!Accept
    <3>2. \A i \in 1 .. Len(fifo') : \/ i \in 1 .. Len(fifo) /\ fifo'[i] = fifo[i]
                                     \/ fifo'[i] = offered
      BY <1>0, <3>1
    <3> QED BY <1>0, <3>1, <3>2 DEF Numbered
  <2>3. CASE Queue!Drop \/ Queue!Finish
    BY <1>0, <2>3 DEF Queue!Drop, Queue!Finish, Numbered
  <2>4. CASE Queue!Take
    <3>1. /\ fifo # <<>> /\ taken' = Head(fifo) /\ fifo' = Tail(fifo) /\ offered' = offered
      BY <2>4 DEF Queue!Take
    <3>2. /\ 1 \in 1 .. Len(fifo) /\ taken' = fifo[1]
          /\ \A i \in 1 .. Len(fifo') : i + 1 \in 1 .. Len(fifo) /\ fifo'[i] = fifo[i + 1]
      BY <1>0, <3>1
    <3>3. \A i \in 1 .. Len(fifo) : fifo[i] \in Messages /\ OfChunk(fifo[i])
      BY <1>0 DEF Numbered
    <3> QED BY <1>0, <3>1, <3>2, <3>3 DEF Numbered
  <2> QED BY <2>1, <2>2, <2>3, <2>4
<1>4. /\ (\A i \in 1 .. Len(fifo) : OfChunk(fifo[i]))'
      /\ (offered # NoMsg => OfChunk(offered))'
      /\ (taken # NoMsg => OfChunk(taken))'
  BY <1>3 DEF OfChunk
<1> QED BY <1>2, <1>4 DEF Numbered

\* A route is served once for a chunk that was read.
LEMMA RouteOneOrder ==
    ASSUME IInv, OInv, RoutesDiffer, RouteOne
    PROVE  OInv'
<1> USE DEF kernel, heap, queue, dispatcher
<1> DEFINE n == Min(todo)
           f == mem[EventPort].file
           m == [src |-> f, n |-> got[f], dst |-> Routes[n].dst]
<1>0. /\ TypeOK /\ Sound /\ Line /\ Numbered /\ Alive
      /\ rpc = "routing" /\ todo # {} /\ todo \subseteq DOMAIN Routes
      /\ \A i, j \in todo : Routes[i].src = Routes[j].src
      /\ todo' = todo \ {n} /\ UNCHANGED <<kernel, heap, batch, delivered>>
  BY DEF IInv, OInv, OneSource, RouteOne, Alive, TypeOK
<1>1. n \in todo
  <2>1. DOMAIN Routes \subseteq Nat
    BY ConfigAssumption
  <2> QED BY <1>0, <2>1, MinFacts
<1>2. f \in Peers /\ f' = f /\ EventPort' = EventPort
  BY <1>0, BatchFacts, PolledFacts DEF Sound, Locals, EventPort
<1>7. UNCHANGED queue \/ Queue!Offer(m)
  BY DEF RouteOne
<1> HIDE DEF n
<1>3. OneSource'
  BY <1>0 DEF OneSource
<1>4. \A x \in Messages : OfChunk(x) => OfChunk(x)'
  <2>1. rpc' \in {"routing", "pushing"}
    BY <1>0 DEF RouteOne
  <2> QED BY <1>0, <1>2, <2>1 DEF OfChunk
<1>5. CASE UNCHANGED queue
  <2>1. Line'
    BY <1>0, <1>5 DEF Line, Written, Before
  <2>2. Numbered'
    BY <1>0, <1>4, <1>5, NumberedKept
  <2> QED BY <1>3, <2>1, <2>2 DEF OInv
<1>6. CASE Queue!Offer(m)
  <2>1. m \in Messages /\ m.src = f /\ m.n = got[f] /\ m.dst = Routes[n].dst /\ got[f] \in Nat
    BY <1>0, <1>1, <1>2 DEF Messages, TypeOK
  <2> HIDE DEF m
  <2>2. \A x : OfChunk(x) => Before(x, m)
    BY <1>0, <1>1, <2>1 DEF OfChunk, Before
  <2>3. Line'
    <3>1. /\ \A i \in 1 .. Len(delivered) : Before(Written(i), m)
          /\ taken # NoMsg => Before(taken, m)
          /\ \A i \in 1 .. Len(fifo) : Before(fifo[i], m)
      BY <1>0, <2>2 DEF Numbered
    <3> QED BY <1>0, <1>6, <2>1, <3>1, LineOffer
  <2>4. \A x : x = m => OfChunk(x)'
    <3>1. \A i \in todo' : Routes[i].dst # m.dst
      BY <1>0, <1>1, <2>1 DEF RoutesDiffer
    <3>2. m.n <= got'[m.src] /\ todo' \subseteq todo
      BY <1>0, <2>1
    <3> QED BY <3>1, <3>2 DEF OfChunk
  <2>5. Numbered'
    <3>1. /\ offered = NoMsg /\ offered' = m /\ UNCHANGED <<fifo, taken, delivered>>
      BY <1>0, <1>6 DEF Queue!Offer
    <3>2. (OfChunk(offered))'
      BY <2>4, <3>1 DEF OfChunk
    <3>3. /\ (\A i \in 1 .. Len(delivered) : OfChunk(Written(i)))'
          /\ (taken # NoMsg => OfChunk(taken))'
          /\ (\A i \in 1 .. Len(fifo) : OfChunk(fifo[i]))'
      <4>1. /\ \A i \in 1 .. Len(delivered) : Written(i) \in Messages
            /\ taken # NoMsg => taken \in Messages
            /\ \A i \in 1 .. Len(fifo) : fifo[i] \in Messages
        BY <1>0, WrittenFacts DEF TypeOK
      <4> QED BY <1>0, <1>4, <3>1, <4>1 DEF Numbered, OfChunk, Written
    <3> QED BY <3>2, <3>3 DEF Numbered
  <2> QED BY <1>3, <2>3, <2>5 DEF OInv
<1> QED BY <1>5, <1>6, <1>7

LEMMA OrderStep ==
    ASSUME IInv, IInv', OInv, RoutesDiffer, [Next]_vars
    PROVE  OInv'
<1> USE DEF kernel, heap, reactor, queue, dispatcher
<1>0. TypeOK /\ Line /\ Numbered /\ (Alive => Sound)
  BY DEF IInv, OInv
\* The threads and peers that leave the messages on their way alone.
<1>a. ASSUME UNCHANGED <<queue, delivered>>, \A x \in Messages : OfChunk(x) => OfChunk(x)'
      PROVE  Line' /\ Numbered'
  <2>1. Line'
    BY <1>0, <1>a DEF Line, Written, Before
  <2> QED BY <1>0, <1>a, <2>1, NumberedKept
\* Steps after which no route is left, or the reactor is not routing.
<1>b. ASSUME got' = got, todo' = {} \/ rpc' \notin {"routing", "pushing"}
      PROVE  \A x \in Messages : OfChunk(x) => OfChunk(x)'
  BY <1>b DEF OfChunk
<1>c. ASSUME UNCHANGED <<got, todo, mem, batch>>, rpc' = rpc \/ {rpc, rpc'} \subseteq {"routing", "pushing"}
      PROVE  \A x \in Messages : OfChunk(x) => OfChunk(x)'
  BY <1>c DEF OfChunk, EventPort
<1>d. ASSUME todo' \subseteq todo, Alive PROVE OneSource'
  BY <1>d DEF OInv, OneSource
<1>1. CASE PeerStep \/ IpcAccept \/ (\E fd \in Fds : IpcClose(fd)) \/ UNCHANGED vars
  <2>1. UNCHANGED <<got, todo, mem, batch, rpc, queue, delivered>>
    BY <1>1 DEF PeerStep, Connect, PeerSends, PeerCloses, IpcAccept, IpcClose, vars
  <2>2. OneSource'
    BY <2>1 DEF OInv, OneSource, Alive
  <2> QED BY <1>a, <1>c, <2>1, <2>2 DEF OInv
<1>2. CASE EpollWait \/ AcceptClient \/ AddClient \/ AcceptFails \/ RoutesDone \/ CloseFd
           \/ ClearEntry \/ FreePort
  <2>1. /\ UNCHANGED <<got, queue, delivered>> /\ Alive /\ todo' \in {{}, todo}
        /\ todo' = {} \/ rpc' \notin {"routing", "pushing"}
    BY <1>2 DEF EpollWait, AcceptClient, AddClient, AcceptFails, RoutesDone, CloseFd, ClearEntry,
                FreePort, NextEvent, Alive
  <2>2. OneSource'
    BY <1>d, <2>1
  <2> QED BY <1>a, <1>b, <2>1, <2>2 DEF OInv
<1>3. CASE ReadData
  <2> DEFINE f == fdt[mem[EventPort].fd]
  <2>1. /\ f \in Peers /\ got' = [got EXCEPT ![f] = @ + 1] /\ todo' = RoutesFrom(mem[EventPort].name)
        /\ rpc = "loop" /\ batch # <<>> /\ UNCHANGED <<mem, batch, queue, delivered>>
    BY <1>3 DEF ReadData
  <2>2. f = mem[EventPort].file
    BY <1>0, <2>1, BatchFacts, PolledFacts DEF Sound, Alive
  <2>3. EventPort' = EventPort
    BY <2>1 DEF EventPort
  <2> HIDE DEF f
  <2>4. \A x \in Messages : OfChunk(x) => OfChunk(x)'
    <3>1. \A x \in Messages : x.n \in Nat /\ x.src \in Peers
      BY DEF Messages
    <3>2. got'[f] = got[f] + 1 /\ \A g \in Peers \ {f} : got'[g] = got[g]
      BY <1>0, <2>1 DEF TypeOK
    <3>3. \A g \in Peers : got[g] \in Nat
      BY <1>0 DEF TypeOK
    <3> QED BY <2>1, <2>2, <2>3, <3>1, <3>2, <3>3 DEF OfChunk
  <2>5. OneSource'
    BY <2>1 DEF OneSource, RoutesFrom
  <2> QED BY <1>a, <2>1, <2>4, <2>5 DEF OInv
<1>4. CASE RouteOne
  BY <1>4, RouteOneOrder
<1>5. CASE Push
  <2>1. /\ Queue!Accept \/ Queue!Drop
        /\ UNCHANGED <<got, todo, mem, batch, delivered>>
        /\ {rpc, rpc'} \subseteq {"routing", "pushing"}
    BY <1>5 DEF Push
  <2>2. Line'
    BY <1>0, <2>1, LinePush
  <2>3. Numbered'
    BY <1>0, <1>c, <2>1, NumberedKept
  <2> QED BY <1>d, <2>1, <2>2, <2>3 DEF OInv, Alive
<1>6. CASE FreeAborts \/ WriteKilled
  <2>1. UNCHANGED <<got, queue, delivered>> /\ rpc' = "dead"
    BY <1>6 DEF FreeAborts, WriteKilled, Dies
  <2> QED BY <1>a, <1>b, <2>1 DEF OInv, OneSource, Alive
<1>7. CASE Pop
  <2>1. Queue!Take /\ UNCHANGED <<got, todo, mem, batch, rpc, delivered>>
    BY <1>7 DEF Pop
  <2>2. Line'
    BY <1>0, <2>1, LineTake
  <2>3. Numbered'
    BY <1>0, <1>c, <2>1, NumberedKept
  <2>4. OneSource'
    BY <2>1 DEF OInv, OneSource, Alive
  <2> QED BY <2>2, <2>3, <2>4 DEF OInv
<1>8. CASE Scan \/ Match \/ Send \/ WriteOk \/ WriteLost
  <2>0. UNCHANGED <<got, todo, mem, batch, rpc>>
    BY <1>8 DEF Scan, Match, Send, WriteOk, WriteLost
  <2>1. OneSource'
    BY <2>0 DEF OInv, OneSource, Alive
  <2>2. \/ UNCHANGED <<queue, delivered>>
        \/ /\ Queue!Finish
           /\ \/ delivered' = delivered
              \/ \E f \in Files : delivered' = Append(delivered, [to |-> f, msg |-> taken])
    <3>1. CASE Scan \/ Match \/ Send \/ WriteLost
      BY <3>1 DEF Scan, Match, Send, WriteLost, Handled
    <3>2. CASE WriteOk
      <4>1. dfd \in Fds /\ fdt[dfd] \in Files
        BY <1>0, <3>2 DEF WriteOk, IInv, DispatcherLocals, TypeOK
      <4> QED BY <3>2, <4>1 DEF WriteOk, Handled
    <3> QED BY <1>8, <3>1, <3>2
  <2>3. CASE UNCHANGED <<queue, delivered>>
    BY <1>a, <1>c, <2>0, <2>1, <2>3 DEF OInv
  <2>4. CASE /\ Queue!Finish
             /\ \/ delivered' = delivered
                \/ \E f \in Files : delivered' = Append(delivered, [to |-> f, msg |-> taken])
    <3>1. Line'
      BY <1>0, <2>4, LineDone
    <3>2. taken # NoMsg
      BY <2>4 DEF Queue!Finish
    <3>3. Numbered'
      BY <1>0, <1>c, <2>0, <2>4, <3>2, NumberedKept
    <3> QED BY <2>1, <3>1, <3>3 DEF OInv
  <2> QED BY <2>2, <2>3, <2>4
<1> QED BY <1>1, <1>2, <1>3, <1>4, <1>5, <1>6, <1>7, <1>8 DEF Next, PeerStep

\* What one source sends to one destination is delivered in order, and no chunk
\* twice, whatever is dropped on the way.
THEOREM InOrder == ASSUME RoutesDiffer PROVE Spec => []OrderPreserved
<1>1. Init => OInv
  <2> SUFFICES ASSUME Init PROVE OInv
    OBVIOUS
  <2>1. /\ Len(delivered) = 0 /\ Len(fifo) = 0 /\ taken = NoMsg /\ offered = NoMsg /\ todo = {}
    BY DEF Init, Queue!Init
  <2>2. 1 .. 0 = {}
    OBVIOUS
  <2> QED BY <2>1, <2>2 DEF OInv, Line, Numbered, OneSource
<1>2. IInv /\ IInv' /\ OInv /\ [Next]_vars => OInv'
  BY RoutesDiffer, OrderStep
<1>3. IInv /\ OInv => OrderPreserved
  <2> SUFFICES ASSUME IInv, OInv PROVE OrderPreserved
    OBVIOUS
  <2>1. DOMAIN delivered = 1 .. Len(delivered)
    BY DEF IInv, TypeOK
  <2> QED BY <2>1 DEF OInv, Line, OrderPreserved, Before, Written
<1> QED BY <1>1, <1>2, <1>3, Inductive, PTL DEF Spec
=============================================================================
