---------------------------- MODULE RoutePipeline ----------------------------
(****************************************************************************)
(* What happens to the bytes: from read() in reactor_thread through the     *)
(* handlers of the routes (plugin_loader.c, plugins/filter.c) and the event *)
(* queue to write() in port_send.  Forwarder takes a chunk as one value;    *)
(* here one source port is looked at byte by byte, with its routes, each to *)
(* a destination of its own, and with every way of cutting a stream.        *)
(*                                                                          *)
(* A byte says where it comes from: <<"in", k>> is the k-th byte the source *)
(* sent, <<"up", k>> the same after usb_to_uart made it upper case,         *)
(* "mark" the 0xAA of uart_to_usb, "nul" the terminator the reactor adds,   *)
(* and "junk" what an automatic array holds before it is written.           *)
(****************************************************************************)
EXTENDS Integers, Sequences

CONSTANTS BUF_SIZE,     \* sizeof(buf) in reactor_thread
          MAX_DATA,     \* sizeof(data) in event_msg_t
          FILTER_ROOM,  \* the 2048 of uart_to_usb
          QUEUE_CAP,    \* messages the event queue holds
          Sources,      \* kinds of source port: "socket", "serial", "udp"
          RouteLists,   \* routes of the source: sequences of [dst, handler]
          Kind,         \* destination -> "socket", "serial" or "udp"
          MaxBytes      \* bound: bytes the source sends

Dsts     == DOMAIN Kind
Handlers == {"none", "usb_to_uart", "uart_to_usb", "reject", "long", "empty"}
Route    == [dst : Dsts, handler : Handlers]

ASSUME BufferAssumption ==
    /\ {BUF_SIZE, MAX_DATA, FILTER_ROOM, QUEUE_CAP, MaxBytes} \subseteq Nat
    /\ 1 < BUF_SIZE /\ MAX_DATA <= BUF_SIZE /\ BUF_SIZE <= FILTER_ROOM
    /\ Sources \subseteq {"socket", "serial", "udp"}
    /\ RouteLists \subseteq Seq(Route)

\* All that read() returns fits into a message.
ASSUME MessageAssumption == BUF_SIZE - 1 <= MAX_DATA

In(k) == <<"in", k>>
Up(b) == IF b[1] = "in" THEN <<"up", b[2]>> ELSE b
Mark  == <<"mark", 0>>
Nul   == <<"nul", 0>>
Junk  == <<"junk", 0>>

Byte  == {"in", "up", "mark", "nul", "junk"} \X Nat

VARIABLES
    src, routes,  \* the kind of the source, and its routes; they never change
    sent,         \* bytes the source has sent
    received,     \* bytes of those that read() has taken
    datagrams,    \* the lengths of the datagrams not read yet
    peer_state,   \* "there", "closed", or "lost": reset or unplugged
    rpc,          \* where the reactor thread is with this port
    buf, len,     \* its locals
    chunk,        \* history: what read() returned
    todo,         \* routes of the loop not served yet
    fifo,         \* the event queue
    out           \* what each destination got

peer    == <<src, routes, sent, received, datagrams, peer_state>>
reactor == <<rpc, buf, len, chunk, todo>>
vars    == <<peer, reactor, fifo, out>>

\* A message with the route it took and what had been read.
Messages == {m \in [data : Seq(Byte), route : Route, chunk : Seq(Byte)] :
                Len(m.data) <= MAX_DATA}

TypeOK == /\ src \in Sources /\ routes \in RouteLists
          /\ rpc \in {"epoll_wait", "routing", "closed"}
          /\ sent \in Nat /\ received \in Nat
          /\ datagrams \in Seq(Nat)
          /\ len \in 0 .. BUF_SIZE - 1
          /\ peer_state \in {"there", "closed", "lost"}
          /\ chunk \in Seq(Byte)
          /\ todo \in Seq(Route)
          /\ fifo \in Seq(Messages) /\ Len(fifo) <= QUEUE_CAP
          /\ out \in [Dsts -> Seq(Byte)]

(****************************************************************************)
(* The peer of the source port.                                             *)
(****************************************************************************)
PeerSends(n) ==
    /\ peer_state = "there"
    /\ sent + n <= MaxBytes
    /\ sent' = sent + n
    /\ \/ src = "udp" /\ Len(datagrams) < MaxBytes /\ datagrams' = Append(datagrams, n)
       \/ src # "udp" /\ n = 1 /\ UNCHANGED datagrams
    /\ UNCHANGED <<src, routes, received, peer_state, reactor, fifo, out>>

\* A UDP port has no connection that could end, and a device is not closed.
PeerLeaves ==
    /\ peer_state = "there"
    /\ peer_state' \in CASE src = "socket" -> {"closed", "lost"}
                         [] src = "serial" -> {"lost"}
                         [] src = "udp"    -> {}
    /\ UNCHANGED <<src, routes, sent, received, datagrams, reactor, fifo, out>>

(****************************************************************************)
(* reactor_thread: read().                                                  *)
(****************************************************************************)

\* How many bytes a read() of at most max may use up: a datagram as a whole,
\* of a stream any part that fits.
Uses(max) ==
    IF src = "udp" THEN {datagrams[k] : k \in {1} \cap DOMAIN datagrams}
    ELSE {n \in 1 .. sent - received : n <= max}

\* len > 0: the terminator is added; the routes are looked up.  What does not
\* fit of a datagram is lost.
ReadData ==
    /\ rpc = "epoll_wait"
    /\ \E n \in Uses(BUF_SIZE - 1) \ {0} :
          /\ received' = received + n
          /\ len' = IF n < BUF_SIZE THEN n ELSE BUF_SIZE - 1
    /\ datagrams' = IF src = "udp" THEN Tail(datagrams) ELSE datagrams
    /\ chunk' = [k \in 1 .. len' |-> In(received + k)]
    /\ buf' = [k \in 1 .. BUF_SIZE |-> IF k <= len' THEN In(received + k)
                                       ELSE IF k = len' + 1 THEN Nul ELSE Junk]
    /\ todo' = routes
    /\ rpc' = "routing"
    /\ UNCHANGED <<src, routes, sent, peer_state, fifo, out>>

\* len <= 0: the end of a stream, an error when the connection was reset or the
\* device unplugged, or an empty datagram; the port is closed.
ReadEnds ==
    /\ rpc = "epoll_wait"
    /\ \/ peer_state = "closed" /\ received = sent /\ UNCHANGED datagrams
       \/ peer_state = "lost" /\ UNCHANGED datagrams
       \/ /\ src = "udp" /\ 0 \in Uses(BUF_SIZE - 1)
          /\ datagrams' = Tail(datagrams)
    /\ rpc' = "closed"
    /\ UNCHANGED <<src, routes, sent, received, peer_state, buf, len, chunk, todo, fifo, out>>

(****************************************************************************)
(* The handlers, which get the address of buf and a length: what they leave *)
(* in b, and what they return for n.  An index above BUF_SIZE is memory     *)
(* behind buf.                                                              *)
(****************************************************************************)

\* plugins/filter.c.
usb_to_uart(b, n) == [buf |-> [k \in DOMAIN b |-> IF k <= n THEN Up(b[k]) ELSE b[k]],
                      ret |-> n]

uart_to_usb(b, n) ==
    IF n + 1 > FILTER_ROOM
    THEN [buf |-> b, ret |-> n]
    ELSE [buf |-> [k \in DOMAIN b \cup 1 .. n + 1 |->
                     IF k = 1 THEN Mark ELSE IF k <= n + 1 THEN b[k - 1] ELSE b[k]],
          ret |-> n + 1]

\* No handler; filter.c; and others the contract of plugin_loader.h allows
\* ("empty") or does not ("reject", "long").
Handle(handler, b, n) ==
    CASE handler = "none"        -> [buf |-> b, ret |-> n]
      [] handler = "usb_to_uart" -> usb_to_uart(b, n)
      [] handler = "uart_to_usb" -> uart_to_usb(b, n)
      [] handler = "reject"      -> [buf |-> b, ret |-> -1]
      [] handler = "long"        -> [buf |-> b, ret |-> MAX_DATA + 1]
      [] handler = "empty"       -> [buf |-> b, ret |-> 0]

(****************************************************************************)
(* reactor_thread: the routes.                                              *)
(****************************************************************************)

\* The clamp of what a handler returned, and the length of the message,
\* data_len: without a handler, what was read.
Clamp_None(ret) == ret             \* variant: the handler is trusted
Clamp(ret) == IF ret > MAX_DATA THEN MAX_DATA ELSE ret
DataLen(handler, ret) == IF handler = "none" THEN ret ELSE Clamp(ret)

\* memcpy from buf; what lies behind it is anything.
Copied(b, n) == [k \in 1 .. n |-> IF k \in DOMAIN b THEN b[k] ELSE Junk]

\* queue_push: the message is queued when there is room, or dropped at the
\* timeout (BoundedFifo says when; EventQueue how).
Push(m) == \/ Len(fifo) < QUEUE_CAP /\ fifo' = Append(fifo, m)
           \/ UNCHANGED fifo

\* Every handler gets the length that was read, and the buffer as the route
\* before has left it; data_len < 0 is no message for this route.
RouteOne_Chained ==                \* variant: it gets the length of the route before
    /\ rpc = "routing" /\ todo # <<>>
    /\ LET r == Head(todo)
           h == Handle(r.handler, buf, len) IN
         /\ buf' = h.buf
         /\ \/ h.ret < 0 /\ UNCHANGED <<len, fifo>>
            \/ /\ h.ret >= 0
               /\ Push([data  |-> Copied(h.buf, DataLen(r.handler, h.ret)),
                        route |-> r, chunk |-> chunk])
               /\ len' = DataLen(r.handler, h.ret)
    /\ todo' = Tail(todo)
    /\ UNCHANGED <<peer, rpc, chunk, out>>
RouteOne ==
    /\ rpc = "routing" /\ todo # <<>>
    /\ LET r == Head(todo)
           h == Handle(r.handler, buf, len) IN
         /\ buf' = h.buf
         /\ \/ h.ret < 0 /\ UNCHANGED fifo
            \/ /\ h.ret >= 0
               /\ Push([data  |-> Copied(h.buf, DataLen(r.handler, h.ret)),
                        route |-> r, chunk |-> chunk])
    /\ todo' = Tail(todo)
    /\ UNCHANGED <<peer, rpc, len, chunk, out>>

\* buf goes out of scope.
RoutesDone == /\ rpc = "routing" /\ todo = <<>>
              /\ rpc' = "epoll_wait"
              /\ buf' = [k \in 1 .. BUF_SIZE |-> Junk]
              /\ len' = 0
              /\ chunk' = <<>>
              /\ UNCHANGED <<peer, todo, fifo, out>>

(****************************************************************************)
(* The dispatcher: queue_pop, and write() in port_send, in one step, for    *)
(* nobody else touches the message it has popped.                           *)
(****************************************************************************)

\* The first n bytes of the message arrive; nothing is written again.
Writes(n) ==
    /\ fifo' = Tail(fifo)
    /\ out' = [out EXCEPT ![Head(fifo).route.dst] = @ \o SubSeq(Head(fifo).data, 1, n)]
    /\ UNCHANGED <<peer, reactor>>

\* A connected socket is blocking: it takes all.
WriteAll == /\ fifo # <<>>
            /\ Kind[Head(fifo).route.dst] # "udp"
            /\ Writes(Len(Head(fifo).data))

\* The write fails; and a UDP port is never written to.
WriteNothing == fifo # <<>> /\ Writes(0)

\* A tty is O_NONBLOCK and takes what its buffer has room for.
WritePart_Again ==                 \* variant: a short write is made again
    /\ fifo # <<>>
    /\ Kind[Head(fifo).route.dst] = "serial"
    /\ LET data == Head(fifo).data IN
       \E n \in 1 .. Len(data) - 1 :
          out' = [out EXCEPT ![Head(fifo).route.dst] = @ \o SubSeq(data, 1, n) \o data]
    /\ fifo' = Tail(fifo)
    /\ UNCHANGED <<peer, reactor>>
WritePart == /\ fifo # <<>>
             /\ Kind[Head(fifo).route.dst] = "serial"
             /\ \E n \in 1 .. Len(Head(fifo).data) - 1 : Writes(n)

-----------------------------------------------------------------------------
Init == /\ src \in Sources
        /\ routes \in RouteLists
        /\ sent = 0 /\ received = 0 /\ datagrams = <<>> /\ peer_state = "there"
        /\ rpc = "epoll_wait" /\ len = 0 /\ todo = <<>>
        /\ buf = [k \in 1 .. BUF_SIZE |-> Junk]
        /\ chunk = <<>>
        /\ fifo = <<>>
        /\ out = [d \in Dsts |-> <<>>]

Next == \/ \E n \in 0 .. MaxBytes : PeerSends(n)
        \/ PeerLeaves
        \/ ReadData
        \/ ReadEnds
        \/ RouteOne
        \/ RoutesDone
        \/ WriteAll
        \/ WriteNothing
        \/ WritePart

Spec == Init /\ [][Next]_vars

(****************************************************************************)
(* Properties.                                                              *)
(****************************************************************************)

\* No handler writes behind buf, although one of filter.c lengthens the data,
\* its own guard allows more than buf holds, and several routes may call it on
\* the same chunk: what keeps it inside is the byte read() leaves free and
\* that each handler starts from the length that was read.
BufferKept == DOMAIN buf = 1 .. BUF_SIZE

\* A message holds bytes of the source and marks, never the terminator and
\* never what the stack held before, unless its own handler broke the contract
\* of plugin_loader.h by returning more than it wrote.
Clean(m) == m.route.handler # "long" =>
                \A k \in DOMAIN m.data : m.data[k] \notin {Nul, Junk}
NoJunk == \A j \in DOMAIN fifo : Clean(fifo[j])

\* A byte the source sent, as it was or made upper case.
OfSource(b) == b[1] \in {"in", "up"}

Ordered(s) == \A i, j \in DOMAIN s :
                  i < j /\ OfSource(s[i]) /\ OfSource(s[j]) => s[i][2] < s[j][2]

\* Each destination gets the bytes of the source in the order they were sent
\* and none twice, however the stream was cut, whatever the handlers did, and
\* whichever messages were dropped or only written in part.
BytesInOrder == \A d \in Dsts : Ordered(out[d])

\* README.md 1: what a port receives is forwarded as it is; a route without a
\* handler carries exactly what was read.
RawRouteUnchanged ==
    \A j \in DOMAIN fifo :
        fifo[j].route.handler = "none" => fifo[j].data = fifo[j].chunk
=============================================================================
