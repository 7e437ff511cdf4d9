------------------------- MODULE RoutePipelineProofs -------------------------
(****************************************************************************)
(* Proofs about RoutePipeline for every size of the buffer, the message and *)
(* the queue, and every list of routes.                                     *)
(****************************************************************************)
EXTENDS RoutePipeline, SequenceTheorems, TLAPS

USE BufferAssumption

Dirty == {Nul, Junk}

\* The first len bytes of buf were read, or a handler has written them.
Filled == /\ buf \in [1 .. BUF_SIZE -> Byte]
          /\ \A k \in 1 .. len : buf[k] \notin Dirty

IInv == TypeOK /\ Filled /\ NoJunk

(****************************************************************************)
(* What BytesInOrder needs besides.                                         *)
(****************************************************************************)

\* Every byte of s was sent before every byte of t.
Precedes(s, t) == \A i \in DOMAIN s, j \in DOMAIN t :
                      OfSource(s[i]) /\ OfSource(t[j]) => s[i][2] < t[j][2]
Read(s) == \A i \in DOMAIN s : OfSource(s[i]) => s[i][2] <= received

\* What is on its way to a destination, oldest first: what it got, and what is
\* queued for it.
Line == /\ \A d \in Dsts : Ordered(out[d]) /\ Read(out[d])
        /\ \A k \in 1 .. Len(fifo) : /\ Ordered(fifo[k].data) /\ Read(fifo[k].data)
                                    /\ Precedes(out[fifo[k].route.dst], fifo[k].data)
        /\ \A k, l \in 1 .. Len(fifo) :
              k < l /\ fifo[k].route.dst = fifo[l].route.dst => Precedes(fifo[k].data, fifo[l].data)

\* buf holds bytes in order, however often a handler has moved them, and for
\* the destinations of the routes that are left they are new.
Fresh == /\ Ordered(buf) /\ Read(buf)
         /\ \A i \in 1 .. Len(todo) :
               /\ Precedes(out[todo[i].dst], buf)
               /\ \A k \in 1 .. Len(fifo) :
                     fifo[k].route.dst = todo[i].dst => Precedes(fifo[k].data, buf)

\* The routes left are each to another destination.
Apart(s) == \A i, j \in 1 .. Len(s) : s[i].dst = s[j].dst => i = j

OInv == Line /\ Fresh /\ Apart(todo) /\ Apart(routes)

(****************************************************************************)
(* Operators.                                                               *)
(****************************************************************************)

\* Bytes, and what usb_to_uart makes of them.
LEMMA Bytes ==
    /\ \A k \in Nat : In(k) \in Byte /\ In(k) \notin Dirty
    /\ Mark \in Byte /\ Mark \notin Dirty
    /\ Nul \in Byte /\ Junk \in Byte
    /\ \A b \in Byte : Up(b) \in Byte /\ (b \notin Dirty => Up(b) \notin Dirty)
  BY DEF In, Up, Mark, Nul, Junk, Byte, Dirty

\* A handler that gets the length that was read stays inside buf, keeps the
\* first n bytes clean, and what it claims is clean too, unless it lies.
HandlerKeeps(handler, b, n, h) ==
    /\ h.buf \in [1 .. BUF_SIZE -> Byte]
    /\ h.ret \in Int
    /\ \A k \in 1 .. n : h.buf[k] \notin Dirty
    /\ handler # "long" => /\ h.ret <= BUF_SIZE
                           /\ \A k \in 1 .. h.ret : h.buf[k] \notin Dirty

LEMMA HandleFacts ==
    ASSUME NEW handler \in Handlers, NEW n \in 0 .. BUF_SIZE - 1,
           NEW b \in [1 .. BUF_SIZE -> Byte], \A k \in 1 .. n : b[k] \notin Dirty
    PROVE  HandlerKeeps(handler, b, n, Handle(handler, b, n))
<1>1. CASE handler = "usb_to_uart"
  <2> DEFINE up == [k \in DOMAIN b |-> IF k <= n THEN Up(b[k]) ELSE b[k]]
  <2>1. Handle(handler, b, n) = [buf |-> up, ret |-> n]
    BY <1>1 DEF Handle, usb_to_uart
  <2>2. up \in [1 .. BUF_SIZE -> Byte]
    BY Bytes
  <2>3. \A k \in 1 .. n : up[k] \notin Dirty
    BY Bytes
  <2> HIDE DEF up
  <2> QED BY <2>1, <2>2, <2>3 DEF HandlerKeeps
<1>2. CASE handler = "uart_to_usb"
  <2> DEFINE longer == [k \in DOMAIN b \cup 1 .. n + 1 |->
                           IF k = 1 THEN Mark ELSE IF k <= n + 1 THEN b[k - 1] ELSE b[k]]
  <2>1. Handle(handler, b, n) = [buf |-> longer, ret |-> n + 1]
    BY <1>2 DEF Handle, uart_to_usb
  <2>2. DOMAIN b \cup 1 .. n + 1 = 1 .. BUF_SIZE
    OBVIOUS
  <2>3. longer \in [1 .. BUF_SIZE -> Byte]
    BY <2>2, Bytes
  <2>4. \A k \in 1 .. n + 1 : longer[k] \notin Dirty
    BY <2>2, Bytes
  <2> HIDE DEF longer
  <2> QED BY <2>1, <2>3, <2>4 DEF HandlerKeeps
<1>3. CASE handler \in {"none", "reject", "long", "empty"}
  BY <1>3 DEF Handle, HandlerKeeps
<1> QED BY <1>1, <1>2, <1>3 DEF Handlers

\* What memcpy puts into the message.
LEMMA CopiedFacts ==
    ASSUME NEW b \in [1 .. BUF_SIZE -> Byte], NEW n \in Nat
    PROVE  /\ Copied(b, n) \in Seq(Byte)
           /\ Len(Copied(b, n)) = n
           /\ \A k \in 1 .. n : k <= BUF_SIZE => Copied(b, n)[k] = b[k]
  BY Bytes DEF Copied

\* What was read fits into a message: the clamp would not change it.
LEMMA DataLenFacts ==
    ASSUME NEW handler \in Handlers, NEW b, NEW n \in 0 .. BUF_SIZE - 1
    PROVE  LET ret == Handle(handler, b, n).ret IN DataLen(handler, ret) = Clamp(ret)
<1>1. CASE handler = "none"
  <2>1. Handle(handler, b, n).ret = n
    BY <1>1 DEF Handle
  <2>2. n <= MAX_DATA
    BY MessageAssumption
  <2> QED BY <1>1, <2>1, <2>2 DEF DataLen, Clamp
<1>2. CASE handler # "none"
  BY <1>2 DEF DataLen
<1> QED BY <1>1, <1>2

LEMMA PushFacts ==
    ASSUME TypeOK, NoJunk, NEW m \in Messages, Clean(m), Push(m)
    PROVE  fifo' \in Seq(Messages) /\ Len(fifo') <= QUEUE_CAP /\ NoJunk'
<1>1. CASE UNCHANGED fifo
  BY <1>1 DEF TypeOK, NoJunk
<1>2. CASE Len(fifo) < QUEUE_CAP /\ fifo' = Append(fifo, m)
  BY <1>2 DEF TypeOK, NoJunk
<1> QED BY <1>1, <1>2 DEF Push

(****************************************************************************)
(* Steps.                                                                   *)
(****************************************************************************)

LEMMA InitIInv == Init => IInv
  BY Bytes DEF Init, IInv, TypeOK, Filled, NoJunk

LEMMA PeerStep ==
    ASSUME IInv, PeerLeaves \/ \E n \in 0 .. MaxBytes : PeerSends(n)
    PROVE  IInv'
<1>1. CASE PeerLeaves
  <2>1. peer_state' \in {"closed", "lost"}
    BY <1>1 DEF PeerLeaves, IInv, TypeOK
  <2> QED BY <1>1, <2>1 DEF PeerLeaves, reactor, IInv, TypeOK, Filled, NoJunk
<1>2. ASSUME NEW n \in 0 .. MaxBytes, PeerSends(n)
      PROVE  IInv'
  <2>0. n \in Nat /\ sent \in Nat /\ sent' = sent + n
    BY <1>2 DEF PeerSends, IInv, TypeOK
  <2>1. n \in Nat /\ sent' \in Nat
    BY <2>0
  <2>2. Append(datagrams, n) \in Seq(Nat)
    BY <2>1, AppendProperties DEF IInv, TypeOK
  <2>3. datagrams' \in Seq(Nat)
    BY <1>2, <2>2 DEF PeerSends, IInv, TypeOK
  <2> QED BY <1>2, <2>1, <2>3 DEF PeerSends, reactor, IInv, TypeOK, Filled, NoJunk
<1> QED BY <1>1, <1>2

LEMMA UsesNat == ASSUME TypeOK, NEW n \in Uses(BUF_SIZE - 1) PROVE n \in Nat
  BY DEF Uses, TypeOK

\* Reading fills buf up to len; the rest is the terminator and junk.
LEMMA ReadStep == ASSUME IInv, ReadData PROVE IInv'
<1>1. PICK n \in Uses(BUF_SIZE - 1) \ {0} :
          /\ received' = received + n
          /\ len' = IF n < BUF_SIZE THEN n ELSE BUF_SIZE - 1
  BY DEF ReadData
<1>2. n \in Nat \ {0}
  BY UsesNat DEF IInv
<1>3. len' \in 0 .. BUF_SIZE - 1
  BY <1>1, <1>2
<1>0. received \in Nat /\ received' \in Nat
  BY <1>1, <1>2 DEF IInv, TypeOK
<1>4. \A k \in 1 .. len' : In(received + k) \in Byte \ Dirty
  <2> SUFFICES ASSUME NEW k \in 1 .. len' PROVE In(received + k) \in Byte \ Dirty
    OBVIOUS
  <2>1. received + k \in Nat
    BY <1>0, <1>3
  <2> QED BY <2>1, Bytes
<1>5. buf' \in [1 .. BUF_SIZE -> Byte] /\ \A k \in 1 .. len' : buf'[k] \notin Dirty
  BY <1>3, <1>4, Bytes DEF ReadData
<1>6. chunk' \in Seq(Byte)
  BY <1>3, <1>4 DEF ReadData
<1>7. datagrams' \in Seq(Nat)
  <2>1. CASE src = "udp"
    <3>1. datagrams # <<>>
      BY <1>1, <2>1 DEF Uses, IInv, TypeOK
    <3> QED BY <2>1, <3>1 DEF ReadData, IInv, TypeOK
  <2>2. CASE src # "udp"
    BY <2>2 DEF ReadData, IInv, TypeOK
  <2> QED BY <2>1, <2>2
<1>8. todo' \in Seq(Route) /\ routes' \in RouteLists
  BY DEF ReadData, IInv, TypeOK
<1> QED BY <1>0, <1>3, <1>5, <1>6, <1>7, <1>8
        DEF ReadData, IInv, TypeOK, Filled, NoJunk

LEMMA EndStep == ASSUME IInv, ReadEnds PROVE IInv'
<1>1. datagrams' \in Seq(Nat)
  <2>1. CASE UNCHANGED datagrams
    BY <2>1 DEF IInv, TypeOK
  <2>2. CASE datagrams' = Tail(datagrams) /\ src = "udp" /\ 0 \in Uses(BUF_SIZE - 1)
    <3>1. datagrams # <<>>
      BY <2>2 DEF Uses, IInv, TypeOK
    <3> QED BY <2>2, <3>1 DEF IInv, TypeOK
  <2> QED BY <2>1, <2>2 DEF ReadEnds
<1> QED BY <1>1 DEF ReadEnds, IInv, TypeOK, Filled, NoJunk

\* One route: its handler, and its message unless it was rejected.
LEMMA RouteStep == ASSUME IInv, RouteOne PROVE IInv'
<1> DEFINE r == Head(todo)
           h == Handle(r.handler, buf, len)
           m == [data |-> Copied(h.buf, Clamp(h.ret)), route |-> r, chunk |-> chunk]
<1>1. r \in Route /\ todo' \in Seq(Route)
  BY DEF RouteOne, IInv, TypeOK
<1>2. r.handler \in Handlers
  BY <1>1 DEF Route
<1>3. HandlerKeeps(r.handler, buf, len, h)
  BY <1>2, HandleFacts DEF IInv, TypeOK, Filled
<1>4. UNCHANGED fifo \/ (h.ret >= 0 /\ Push(m))
  <2>1. DataLen(r.handler, h.ret) = Clamp(h.ret)
    BY <1>2, DataLenFacts DEF IInv, TypeOK
  <2> QED BY <2>1 DEF RouteOne
<1>5. buf' = h.buf /\ len' = len
  BY DEF RouteOne
<1>6. ASSUME h.ret >= 0
      PROVE  m \in Messages /\ Clean(m)
  <2> DEFINE size == Clamp(h.ret)
  <2> HIDE DEF h
  <2>1. size \in 0 .. MAX_DATA /\ size <= h.ret
    BY <1>3, <1>6 DEF Clamp, HandlerKeeps
  <2>2. size \in Nat /\ h.buf \in [1 .. BUF_SIZE -> Byte]
    BY <1>3, <2>1 DEF HandlerKeeps
  <2> HIDE DEF size
  <2>3. /\ Copied(h.buf, size) \in Seq(Byte)
        /\ Len(Copied(h.buf, size)) = size
        /\ \A k \in 1 .. size : Copied(h.buf, size)[k] = h.buf[k]
    <3> DEFINE b == h.buf
    <3>1. b \in [1 .. BUF_SIZE -> Byte] /\ size \in Nat
      BY <2>2
    <3> HIDE DEF b
    <3>2. /\ Copied(b, size) \in Seq(Byte)
          /\ Len(Copied(b, size)) = size
          /\ \A k \in 1 .. size : k <= BUF_SIZE => Copied(b, size)[k] = b[k]
      BY <3>1, CopiedFacts
    <3>3. \A k \in 1 .. size : k <= BUF_SIZE
      BY <2>1
    <3> QED BY <3>2, <3>3 DEF b
  <2>4. m = [data |-> Copied(h.buf, size), route |-> r, chunk |-> chunk]
    BY DEF size
  <2>5. m \in Messages
    BY <1>1, <2>1, <2>3, <2>4 DEF Messages, IInv, TypeOK
  <2>6. Clean(m)
    <3> SUFFICES ASSUME r.handler # "long", NEW k \in 1 .. size
                 PROVE  Copied(h.buf, size)[k] \notin Dirty
      BY <2>3, <2>4 DEF Clean, Dirty
    <3> QED BY <1>3, <2>1, <2>3 DEF HandlerKeeps
  <2> QED BY <2>5, <2>6
<1>7. fifo' \in Seq(Messages) /\ Len(fifo') <= QUEUE_CAP /\ NoJunk'
  BY <1>4, <1>6, PushFacts DEF IInv, TypeOK, NoJunk
<1>8. Filled'
  BY <1>3, <1>5 DEF IInv, Filled, HandlerKeeps
<1> QED BY <1>1, <1>7, <1>8 DEF RouteOne, peer, IInv, TypeOK

LEMMA DoneStep == ASSUME IInv, RoutesDone PROVE IInv'
  BY Bytes DEF RoutesDone, peer, IInv, TypeOK, Filled, NoJunk

\* The dispatcher takes the oldest message and writes a part of it.
LEMMA WriteStep ==
    ASSUME IInv, fifo # <<>>, NEW n \in 0 .. Len(Head(fifo).data), Writes(n)
    PROVE  IInv'
<1> DEFINE m == Head(fifo)
<1>1. m \in Messages /\ fifo' \in Seq(Messages) /\ Len(fifo') <= QUEUE_CAP
  BY DEF Writes, IInv, TypeOK
<1>2. NoJunk'
  <2>1. \A j \in DOMAIN fifo' : j + 1 \in DOMAIN fifo /\ fifo'[j] = fifo[j + 1]
    BY DEF Writes, IInv, TypeOK
  <2> QED BY <2>1 DEF IInv, NoJunk
<1>3. m.data \in Seq(Byte) /\ m.route.dst \in Dsts
  BY <1>1 DEF Messages, Route
<1>4. SubSeq(m.data, 1, n) \in Seq(Byte)
  BY <1>3
<1>5. out[m.route.dst] \o SubSeq(m.data, 1, n) \in Seq(Byte)
  BY <1>3, <1>4 DEF IInv, TypeOK
<1>6. out' \in [Dsts -> Seq(Byte)]
  BY <1>5 DEF Writes, IInv, TypeOK
<1> QED BY <1>1, <1>2, <1>6
        DEF Writes, peer, reactor, IInv, TypeOK, Filled

LEMMA StepIInv == IInv /\ [Next]_vars => IInv'
<1> SUFFICES ASSUME IInv, [Next]_vars PROVE IInv'
  OBVIOUS
<1>1. CASE PeerLeaves \/ \E n \in 0 .. MaxBytes : PeerSends(n)
  BY <1>1, PeerStep
<1>2. CASE ReadData \/ ReadEnds
  BY <1>2, ReadStep, EndStep
<1>3. CASE RouteOne \/ RoutesDone
  BY <1>3, RouteStep, DoneStep
<1>4. CASE WriteAll \/ WriteNothing \/ WritePart
  <2>1. fifo # <<>>
    BY <1>4 DEF WriteAll, WriteNothing, WritePart
  <2>2. Len(Head(fifo).data) \in Nat
    BY <2>1 DEF IInv, TypeOK, Messages
  <2>3. PICK n \in 0 .. Len(Head(fifo).data) : Writes(n)
    BY <1>4, <2>2 DEF WriteAll, WriteNothing, WritePart
  <2> QED BY <2>1, <2>3, WriteStep
<1>5. CASE UNCHANGED vars
  BY <1>5 DEF vars, peer, reactor, IInv, TypeOK, Filled, NoJunk
<1> QED BY <1>1, <1>2, <1>3, <1>4, <1>5 DEF Next

LEMMA Invariance == Spec => []IInv
  BY InitIInv, StepIInv, PTL DEF Spec

\* Messages never hold more than event_msg_t has room for, and everything else
\* has its type.
THEOREM TypeCorrect == Spec => []TypeOK
<1>1. IInv => TypeOK
  BY DEF IInv
<1> QED BY Invariance, <1>1, PTL

\* The byte that read() leaves free is enough for every number of routes and
\* every order of handlers.
THEOREM HandlersStayInside == Spec => []BufferKept
<1>1. IInv => BufferKept
  BY DEF IInv, Filled, BufferKept
<1> QED BY Invariance, <1>1, PTL

\* No destination gets what was on the stack, or the terminator, from a handler
\* that keeps its contract, even after one that does not.
THEOREM MessagesAreClean == Spec => []NoJunk
<1>1. IInv => NoJunk
  BY DEF IInv
<1> QED BY Invariance, <1>1, PTL

(****************************************************************************)
(* Order.                                                                   *)
(****************************************************************************)

\* No source has two routes to one destination.
RoutesApart == \A rs \in RouteLists : Apart(rs)

LEMMA SourceBytes ==
    /\ \A b \in Byte : b[2] \in Nat
    /\ \A k \in Nat : OfSource(In(k)) /\ In(k)[2] = k
    /\ ~OfSource(Mark) /\ ~OfSource(Nul) /\ ~OfSource(Junk)
    /\ \A b \in Byte : (OfSource(Up(b)) <=> OfSource(b)) /\ Up(b)[2] = b[2]
  BY DEF Byte, OfSource, In, Mark, Nul, Junk, Up

\* c holds no byte of the source that b does not hold.
NothingNew(b, c) == \A i \in 1 .. BUF_SIZE : OfSource(c[i]) =>
    \E j \in 1 .. BUF_SIZE : OfSource(b[j]) /\ b[j][2] = c[i][2]

\* A handler may move the bytes but keeps their order.
LEMMA HandleOrder ==
    ASSUME NEW handler \in Handlers, NEW n \in 0 .. BUF_SIZE - 1,
           NEW b \in [1 .. BUF_SIZE -> Byte], Ordered(b)
    PROVE  LET c == Handle(handler, b, n).buf IN Ordered(c) /\ NothingNew(b, c)
<1>0. \A i, j \in 1 .. BUF_SIZE : i < j /\ OfSource(b[i]) /\ OfSource(b[j]) => b[i][2] < b[j][2]
  BY DEF Ordered
<1>1. CASE handler = "usb_to_uart"
  <2> DEFINE up == [k \in DOMAIN b |-> IF k <= n THEN Up(b[k]) ELSE b[k]]
  <2>1. Handle(handler, b, n).buf = up
    BY <1>1 DEF Handle, usb_to_uart
  <2>2. DOMAIN up = 1 .. BUF_SIZE
    OBVIOUS
  <2>3. \A k \in 1 .. BUF_SIZE : (OfSource(up[k]) <=> OfSource(b[k])) /\ up[k][2] = b[k][2]
    BY SourceBytes
  <2> HIDE DEF up
  <2> QED BY <1>0, <2>1, <2>2, <2>3 DEF Ordered, NothingNew
<1>2. CASE handler = "uart_to_usb"
  <2> DEFINE longer == [k \in DOMAIN b \cup 1 .. n + 1 |->
                           IF k = 1 THEN Mark ELSE IF k <= n + 1 THEN b[k - 1] ELSE b[k]]
             from(k) == IF k <= n + 1 THEN k - 1 ELSE k
  <2>1. Handle(handler, b, n).buf = IF n + 1 > FILTER_ROOM THEN b ELSE longer
    BY <1>2 DEF Handle, uart_to_usb
  <2>2. DOMAIN longer = 1 .. BUF_SIZE /\ longer[1] = Mark
    OBVIOUS
  <2>3. \A k \in 2 .. BUF_SIZE : longer[k] = b[from(k)] /\ from(k) \in 1 .. BUF_SIZE
    OBVIOUS
  <2>4. \A j, k \in 2 .. BUF_SIZE : j < k /\ ~(from(j) < from(k)) => FALSE
    OBVIOUS
  <2>5. \A k \in 1 .. BUF_SIZE : OfSource(longer[k]) => k \in 2 .. BUF_SIZE
    BY <2>2, SourceBytes
  <2> HIDE DEF longer, from
  <2>6. Ordered(longer)
    BY <1>0, <2>2, <2>3, <2>4, <2>5 DEF Ordered
  <2>7. NothingNew(b, longer)
    BY <2>3, <2>5 DEF NothingNew
  <2> QED BY <2>1, <2>6, <2>7 DEF NothingNew
<1>3. CASE handler \in {"none", "reject", "long", "empty"}
  BY <1>3 DEF Handle, NothingNew
<1> QED BY <1>1, <1>2, <1>3 DEF Handlers

\* What does not touch the bytes.
LEMMA OrderKept ==
    ASSUME OInv, UNCHANGED <<received, out, fifo, buf, todo, routes>>
    PROVE  OInv'
  BY DEF OInv, Line, Fresh, Apart, Ordered, Precedes, Read

LEMMA ReadOrder == ASSUME IInv, OInv, ReadData PROVE OInv'
<1>0. TypeOK /\ Line /\ Apart(routes) /\ received \in Nat
  BY DEF IInv, OInv, TypeOK
<1>1. PICK n \in Uses(BUF_SIZE - 1) \ {0} :
          /\ received' = received + n
          /\ len' = IF n < BUF_SIZE THEN n ELSE BUF_SIZE - 1
  BY DEF ReadData
<1>2. n \in Nat /\ len' \in 0 .. BUF_SIZE - 1 /\ len' <= n /\ received' \in Nat
      /\ received <= received'
  BY <1>0, <1>1, UsesNat
<1>3. UNCHANGED <<out, fifo, routes>> /\ todo' = routes
  BY DEF ReadData
<1>4. DOMAIN buf' = 1 .. BUF_SIZE
  BY DEF ReadData
<1>5. ASSUME NEW k \in 1 .. BUF_SIZE, OfSource(buf'[k])
      PROVE  buf'[k][2] = received + k /\ received + k <= received' /\ received < received + k
  <2>1. buf'[k] = IF k <= len' THEN In(received + k) ELSE IF k = len' + 1 THEN Nul ELSE Junk
    BY DEF ReadData
  <2>2. k <= len' /\ buf'[k] = In(received + k)
    BY <1>5, <2>1, SourceBytes
  <2> QED BY <1>0, <1>1, <1>2, <2>2, SourceBytes
<1>6. Ordered(buf') /\ Read(buf)'
  BY <1>0, <1>4, <1>5 DEF Ordered, Read
<1>7. ASSUME NEW s \in Seq(Byte), Read(s)
      PROVE  /\ Precedes(s, buf')
             /\ \A i \in DOMAIN s : OfSource(s[i]) => s[i][2] <= received'
  <2>1. \A i \in DOMAIN s : s[i][2] \in Nat
    BY SourceBytes
  <2>2. \A i \in DOMAIN s : OfSource(s[i]) => s[i][2] <= received
    BY <1>7 DEF Read
  <2>3. ASSUME NEW i \in DOMAIN s, NEW k \in 1 .. BUF_SIZE, OfSource(s[i]), OfSource(buf'[k])
        PROVE  s[i][2] < buf'[k][2]
    <3>1. buf'[k][2] = received + k
      BY <1>5, <2>3
    <3> QED BY <1>0, <2>1, <2>2, <2>3, <3>1
  <2>4. Precedes(s, buf')
    BY <1>4, <2>3 DEF Precedes
  <2> QED BY <1>0, <1>2, <2>1, <2>2, <2>4
<1>8. /\ \A d \in Dsts : out[d] \in Seq(Byte) /\ Read(out[d])
      /\ \A k \in 1 .. Len(fifo) : fifo[k].data \in Seq(Byte) /\ Read(fifo[k].data)
      /\ \A i \in 1 .. Len(routes) : routes[i].dst \in Dsts
  <2>1. \A k \in 1 .. Len(fifo) : fifo[k] \in Messages
    BY <1>0 DEF TypeOK
  <2>2. \A i \in 1 .. Len(routes) : routes[i] \in Route
    BY <1>0 DEF TypeOK
  <2> QED BY <1>0, <2>1, <2>2 DEF TypeOK, Line, Messages, Route
<1>9. Line'
  <2>1. (\A d \in Dsts : Ordered(out[d]) /\ Read(out[d]))'
    BY <1>0, <1>3, <1>7, <1>8 DEF Line, Read, Ordered
  <2>2. (\A k \in 1 .. Len(fifo) : /\ Ordered(fifo[k].data) /\ Read(fifo[k].data)
                                  /\ Precedes(out[fifo[k].route.dst], fifo[k].data))'
    BY <1>0, <1>3, <1>7, <1>8 DEF Line, Read, Ordered, Precedes
  <2>3. (\A k, l \in 1 .. Len(fifo) :
            k < l /\ fifo[k].route.dst = fifo[l].route.dst => Precedes(fifo[k].data, fifo[l].data))'
    BY <1>0, <1>3 DEF Line, Precedes
  <2> QED BY <2>1, <2>2, <2>3 DEF Line
<1>10. Fresh'
  BY <1>3, <1>6, <1>7, <1>8 DEF Fresh, Ordered, Precedes
<1>11. Apart(todo)' /\ Apart(routes)'
  BY <1>0, <1>3 DEF Apart
<1> QED BY <1>9, <1>10, <1>11 DEF OInv

LEMMA DoneOrder == ASSUME IInv, OInv, RoutesDone PROVE OInv'
<1>1. /\ UNCHANGED <<received, out, fifo, todo, routes>> /\ DOMAIN buf' = 1 .. BUF_SIZE
      /\ \A i \in 1 .. BUF_SIZE : buf'[i] = Junk
  BY DEF RoutesDone, peer
<1>2. \A i \in DOMAIN buf' : ~OfSource(buf'[i])
  BY <1>1, SourceBytes
<1> QED BY <1>1, <1>2 DEF OInv, Line, Fresh, Apart, Ordered, Precedes, Read


LEMMA MessageFacts ==
    ASSUME NEW r \in Route, NEW ret \in Nat, NEW b \in [1 .. BUF_SIZE -> Byte], NEW c \in Seq(Byte)
    PROVE  LET m == [data |-> Copied(b, Clamp(ret)), route |-> r, chunk |-> c]
           IN  /\ m \in Messages /\ m.route = r
               /\ \A k \in DOMAIN m.data : k \in 1 .. BUF_SIZE /\ m.data[k] = b[k]
<1> DEFINE size == Clamp(ret)
           data == Copied(b, size)
<1>1. size \in 0 .. MAX_DATA
  BY DEF Clamp
<1> HIDE DEF size
<1>2. data \in Seq(Byte) /\ Len(data) = size /\ DOMAIN data = 1 .. size
      /\ \A k \in 1 .. size : k <= BUF_SIZE => data[k] = b[k]
  <2>1. size \in Nat
    BY <1>1
  <2> QED BY <2>1, CopiedFacts DEF Copied
<1>3. \A k \in DOMAIN data : k \in 1 .. BUF_SIZE /\ data[k] = b[k]
  BY <1>1, <1>2
<1> HIDE DEF data
<1>4. [data |-> data, route |-> r, chunk |-> c] \in Messages
  BY <1>1, <1>2 DEF Messages
<1> QED BY <1>3, <1>4 DEF size, data

\* Nothing new, nothing out of order.
LEMMA NothingNewFacts ==
    ASSUME NEW b \in [1 .. BUF_SIZE -> Byte], NEW c \in [1 .. BUF_SIZE -> Byte], NothingNew(b, c)
    PROVE  /\ Read(b) => Read(c)
           /\ \A s : Precedes(s, b) => Precedes(s, c)
<1>1. Read(b) => Read(c)
  BY DEF Read, NothingNew
<1>2. ASSUME NEW s, Precedes(s, b) PROVE Precedes(s, c)
  <2> SUFFICES ASSUME NEW i \in DOMAIN s, NEW j \in 1 .. BUF_SIZE, OfSource(s[i]), OfSource(c[j])
               PROVE  s[i][2] < c[j][2]
    BY DEF Precedes
  <2>1. PICK k \in 1 .. BUF_SIZE : OfSource(b[k]) /\ b[k][2] = c[j][2]
    BY <1>2 DEF NothingNew
  <2> QED BY <1>2, <2>1 DEF Precedes
<1> QED BY <1>1, <1>2

\* A message joins the line.
LEMMA PushOrder ==
    ASSUME TypeOK, Line, NEW m \in Messages, fifo' = Append(fifo, m), UNCHANGED <<out, received>>,
           Ordered(m.data), Read(m.data), Precedes(out[m.route.dst], m.data),
           \A k \in 1 .. Len(fifo) :
              fifo[k].route.dst = m.route.dst => Precedes(fifo[k].data, m.data)
    PROVE  Line'
<1>1. /\ fifo \in Seq(Messages) /\ Len(fifo) \in Nat /\ Len(fifo') = Len(fifo) + 1
      /\ \A k \in 1 .. Len(fifo') : \/ k \in 1 .. Len(fifo) /\ fifo'[k] = fifo[k]
                                    \/ k = Len(fifo) + 1 /\ fifo'[k] = m
  BY DEF TypeOK
<1>2. \A k, l \in 1 .. Len(fifo') : k < l => k \in 1 .. Len(fifo)
  BY <1>1
<1>3. (\A d \in Dsts : Ordered(out[d]) /\ Read(out[d]))'
  BY DEF Line, Ordered, Read
<1>4. ASSUME NEW k \in 1 .. Len(fifo')
      PROVE  /\ Ordered(fifo'[k].data) /\ Read(fifo'[k].data)
             /\ Precedes(out[fifo'[k].route.dst], fifo'[k].data)
  BY <1>1 DEF Line
<1>5. ASSUME NEW k \in 1 .. Len(fifo'), NEW l \in 1 .. Len(fifo'), k < l,
             fifo'[k].route.dst = fifo'[l].route.dst
      PROVE  Precedes(fifo'[k].data, fifo'[l].data)
  BY <1>1, <1>2, <1>5 DEF Line
<1>6. (\A k \in 1 .. Len(fifo) : /\ Ordered(fifo[k].data) /\ Read(fifo[k].data)
                                /\ Precedes(out[fifo[k].route.dst], fifo[k].data))'
  <2>1. (\A k \in 1 .. Len(fifo) : Ordered(fifo[k].data))'
    BY <1>4
  <2>2. (\A k \in 1 .. Len(fifo) : Read(fifo[k].data))'
    BY <1>4 DEF Read
  <2>3. (\A k \in 1 .. Len(fifo) : Precedes(out[fifo[k].route.dst], fifo[k].data))'
    BY <1>4
  <2> QED BY <2>1, <2>2, <2>3
<1>7. (\A k, l \in 1 .. Len(fifo) :
          k < l /\ fifo[k].route.dst = fifo[l].route.dst => Precedes(fifo[k].data, fifo[l].data))'
  BY <1>5
<1> QED BY <1>3, <1>6, <1>7 DEF Line

LEMMA LineKept == ASSUME Line, UNCHANGED <<fifo, out, received>> PROVE Line'
<1>1. (\A d \in Dsts : Ordered(out[d]) /\ Read(out[d]))'
  BY DEF Line, Ordered, Read
<1>2. (\A k \in 1 .. Len(fifo) : Ordered(fifo[k].data))'
  BY DEF Line
<1>3. (\A k \in 1 .. Len(fifo) : Read(fifo[k].data))'
  BY DEF Line, Read
<1>4. (\A k \in 1 .. Len(fifo) : Precedes(out[fifo[k].route.dst], fifo[k].data))'
  BY DEF Line
<1>5. (\A k, l \in 1 .. Len(fifo) :
          k < l /\ fifo[k].route.dst = fifo[l].route.dst => Precedes(fifo[k].data, fifo[l].data))'
  BY DEF Line
<1> QED BY <1>1, <1>2, <1>3, <1>4, <1>5 DEF Line

LEMMA RouteOrder == ASSUME IInv, OInv, RouteOne PROVE OInv'
<1> DEFINE r == Head(todo)
           h == Handle(r.handler, buf, len)
           m == [data |-> Copied(h.buf, Clamp(h.ret)), route |-> r, chunk |-> chunk]
<1>0. /\ TypeOK /\ Filled /\ Line /\ Fresh /\ Apart(todo) /\ Apart(routes)
      /\ UNCHANGED <<received, out, routes>> /\ todo # <<>> /\ todo' = Tail(todo)
      /\ todo \in Seq(Route) /\ Len(todo) \in Nat /\ chunk \in Seq(Byte)
  BY DEF IInv, OInv, RouteOne, peer, TypeOK
<1>1. /\ 1 \in 1 .. Len(todo) /\ r = todo[1] /\ r \in Route
      /\ \A i \in 1 .. Len(todo') : todo'[i] = todo[i + 1] /\ i + 1 \in 1 .. Len(todo) /\ i + 1 # 1
      /\ \A i, j \in 1 .. Len(todo') : i + 1 = j + 1 => i = j
  BY <1>0
<1>3. r.handler \in Handlers
  BY <1>1 DEF Route
<1>2. buf' = h.buf /\ (UNCHANGED fifo \/ (h.ret >= 0 /\ Push(m)))
  <2>1. DataLen(r.handler, h.ret) = Clamp(h.ret)
    BY <1>0, <1>3, DataLenFacts DEF TypeOK
  <2> QED BY <2>1 DEF RouteOne
<1>4. h.buf \in [1 .. BUF_SIZE -> Byte] /\ h.ret \in Int
  BY <1>0, <1>3, HandleFacts DEF HandlerKeeps, TypeOK, Filled
<1>5. Ordered(h.buf) /\ NothingNew(buf, h.buf)
  BY <1>0, <1>3, HandleOrder DEF TypeOK, Filled, Fresh
<1>6. h.ret >= 0 => /\ m \in Messages /\ m.route = r
                    /\ \A k \in DOMAIN m.data : k \in 1 .. BUF_SIZE /\ m.data[k] = h.buf[k]
  <2> DEFINE b   == h.buf
             ret == h.ret
  <2>1. ret >= 0 => ret \in Nat
    BY <1>4
  <2>2. b \in [1 .. BUF_SIZE -> Byte]
    BY <1>4
  <2>3. m = [data |-> Copied(b, Clamp(ret)), route |-> r, chunk |-> chunk]
    OBVIOUS
  <2> HIDE DEF b, ret, m, r
  <2>4. ret >= 0 => /\ m \in Messages /\ m.route = r
                    /\ \A k \in DOMAIN m.data : k \in 1 .. BUF_SIZE /\ m.data[k] = b[k]
    BY <1>0, <1>1, <2>1, <2>2, <2>3, MessageFacts
  <2> QED BY <2>4 DEF b, ret
<1> HIDE DEF h, m
<1>7. /\ Read(h.buf)
      /\ \A i \in 1 .. Len(todo) :
            /\ Precedes(out[todo[i].dst], h.buf)
            /\ \A k \in 1 .. Len(fifo) :
                  fifo[k].route.dst = todo[i].dst => Precedes(fifo[k].data, h.buf)
  <2>1. /\ Read(buf) => Read(h.buf)
        /\ \A s : Precedes(s, buf) => Precedes(s, h.buf)
    <3>1. buf \in [1 .. BUF_SIZE -> Byte]
      BY <1>0 DEF Filled
    <3> QED BY <1>4, <1>5, <3>1, NothingNewFacts
  <2> QED BY <1>0, <2>1 DEF Fresh
<1>8. Apart(todo)' /\ Apart(routes)'
  BY <1>0, <1>1 DEF Apart
<1>9. CASE UNCHANGED fifo
  <2>1. Line'
    BY <1>0, <1>9, LineKept
  <2>2. Ordered(buf)' /\ Read(buf)'
    BY <1>0, <1>2, <1>5, <1>7 DEF Ordered, Read
  <2>3. \A i \in 1 .. Len(todo') :
           /\ Precedes(out[todo'[i].dst], buf')
           /\ \A k \in 1 .. Len(fifo) :
                 fifo[k].route.dst = todo'[i].dst => Precedes(fifo[k].data, buf')
    <3>1. buf' = h.buf
      BY <1>2
    <3> QED BY <1>1, <1>7, <3>1
  <2>4. Fresh'
    BY <1>0, <1>9, <2>2, <2>3 DEF Fresh, Precedes
  <2> QED BY <1>8, <2>1, <2>4 DEF OInv
<1>10. CASE h.ret >= 0 /\ fifo' = Append(fifo, m)
  <2>1. m \in Messages /\ m.route = r
        /\ \A k \in DOMAIN m.data : k \in 1 .. BUF_SIZE /\ m.data[k] = h.buf[k]
    BY <1>6, <1>10
  <2>2. DOMAIN h.buf = 1 .. BUF_SIZE /\ DOMAIN m.data \subseteq Nat
    <3>1. m.data \in Seq(Byte)
      BY <2>1 DEF Messages
    <3> QED BY <1>4, <3>1
  <2>3. Ordered(m.data) /\ Read(m.data)
    BY <1>5, <1>7, <2>1, <2>2 DEF Ordered, Read
  <2>4. \A s : Precedes(s, h.buf) => Precedes(s, m.data)
    BY <2>1, <2>2 DEF Precedes
  <2>5. /\ Precedes(out[m.route.dst], m.data)
        /\ \A k \in 1 .. Len(fifo) :
              fifo[k].route.dst = m.route.dst => Precedes(fifo[k].data, m.data)
    BY <1>1, <1>7, <2>1, <2>4
  <2>6. Line'
    BY <1>0, <1>10, <2>1, <2>3, <2>5, PushOrder
  <2>7. Ordered(buf)' /\ Read(buf)'
    BY <1>0, <1>2, <1>5, <1>7 DEF Ordered, Read
  <2>8. \A k \in 1 .. Len(fifo') : (k \in 1 .. Len(fifo) /\ fifo'[k] = fifo[k]) \/ fifo'[k] = m
    <3>1. fifo \in Seq(Messages) /\ Len(fifo) \in Nat
      BY <1>0 DEF TypeOK
    <3> QED BY <1>10, <2>1, <3>1
  <2>9. \A i \in 1 .. Len(todo') : todo'[i].dst # m.route.dst
    BY <1>0, <1>1, <2>1 DEF Apart
  <2>10. \A i \in 1 .. Len(todo') :
           /\ Precedes(out[todo'[i].dst], buf')
           /\ \A k \in 1 .. Len(fifo') :
                 fifo'[k].route.dst = todo'[i].dst => Precedes(fifo'[k].data, buf')
    <3>1. SUFFICES ASSUME NEW i \in 1 .. Len(todo')
                   PROVE  /\ Precedes(out[todo'[i].dst], h.buf)
                          /\ \A k \in 1 .. Len(fifo') :
                                fifo'[k].route.dst = todo'[i].dst
                                => Precedes(fifo'[k].data, h.buf)
      BY <1>2
    <3>2. todo'[i] = todo[i + 1] /\ i + 1 \in 1 .. Len(todo)
      BY <1>1
    <3>3. /\ Precedes(out[todo'[i].dst], h.buf)
          /\ \A k \in 1 .. Len(fifo) :
                fifo[k].route.dst = todo'[i].dst => Precedes(fifo[k].data, h.buf)
      BY <1>7, <3>2
    <3> QED BY <2>8, <2>9, <3>3
  <2>11. Fresh'
    BY <1>0, <2>7, <2>10 DEF Fresh, Precedes
  <2> QED BY <1>8, <2>6, <2>11 DEF OInv
<1> QED BY <1>2, <1>9, <1>10 DEF Push

\* What write() took comes behind what the port has.
LEMMA AppendedBytes ==
    ASSUME NEW s \in Seq(Byte), NEW t \in Seq(Byte)
    PROVE  \A i \in DOMAIN (s \o t) : \/ i \in DOMAIN s /\ (s \o t)[i] = s[i]
                                      \/ /\ i - Len(s) \in DOMAIN t
                                         /\ (s \o t)[i] = t[i - Len(s)]
                                         /\ i > Len(s)
OBVIOUS

LEMMA WriteOrder ==
    ASSUME IInv, OInv, fifo # <<>>, NEW n \in 0 .. Len(Head(fifo).data), Writes(n)
    PROVE  OInv'
<1> DEFINE m == Head(fifo)
           dst == m.route.dst
           part == SubSeq(m.data, 1, n)
<1>0. /\ TypeOK /\ Line /\ Fresh /\ Apart(todo) /\ Apart(routes)
      /\ UNCHANGED <<received, routes, todo, buf>> /\ fifo' = Tail(fifo)
      /\ out' = [out EXCEPT ![dst] = @ \o part]
      /\ fifo \in Seq(Messages) /\ Len(fifo) \in Nat
  BY DEF IInv, OInv, Writes, peer, reactor, TypeOK
<1>1. /\ 1 \in 1 .. Len(fifo) /\ m = fifo[1] /\ m \in Messages
      /\ \A k \in 1 .. Len(fifo') : fifo'[k] = fifo[k + 1] /\ k + 1 \in 1 .. Len(fifo) /\ 1 < k + 1
      /\ \A k, l \in 1 .. Len(fifo') : k < l => k + 1 < l + 1
  BY <1>0
<1>2. m.data \in Seq(Byte) /\ Len(m.data) \in Nat /\ dst \in Dsts /\ m.route = fifo[1].route
  BY <1>1 DEF Messages, Route
<1>3. part \in Seq(Byte) /\ \A k \in DOMAIN part : k \in DOMAIN m.data /\ part[k] = m.data[k]
  BY <1>2
<1>4. out[dst] \in Seq(Byte) /\ Ordered(out[dst]) /\ Read(out[dst])
      /\ Precedes(out[dst], m.data) /\ Ordered(m.data) /\ Read(m.data)
  BY <1>0, <1>1, <1>2 DEF TypeOK, Line
<1> HIDE DEF m, dst, part
<1>5. DOMAIN part \subseteq Nat /\ Ordered(part) /\ Read(part) /\ Precedes(out[dst], part)
  <2>1. DOMAIN part \subseteq Nat
    BY <1>3
  <2> QED BY <1>3, <1>4, <2>1 DEF Ordered, Read, Precedes
<1>6. /\ out'[dst] = out[dst] \o part
      /\ \A d \in Dsts \ {dst} : out'[d] = out[d]
  BY <1>0, <1>2 DEF TypeOK
<1>7. \A i \in DOMAIN out'[dst] : \/ i \in DOMAIN out[dst] /\ out'[dst][i] = out[dst][i]
                                  \/ /\ i - Len(out[dst]) \in DOMAIN part
                                     /\ out'[dst][i] = part[i - Len(out[dst])]
                                     /\ i > Len(out[dst])
  <2>1. out[dst] \in Seq(Byte) /\ part \in Seq(Byte)
    BY <1>3, <1>4
  <2>2. \A i \in DOMAIN (out[dst] \o part) :
           \/ i \in DOMAIN out[dst] /\ (out[dst] \o part)[i] = out[dst][i]
           \/ /\ i - Len(out[dst]) \in DOMAIN part
              /\ (out[dst] \o part)[i] = part[i - Len(out[dst])]
              /\ i > Len(out[dst])
    BY <2>1, AppendedBytes
  <2>3. out'[dst] = out[dst] \o part
    BY <1>6
  <2> QED BY <2>2, <2>3
<1>8. Ordered(out'[dst])
  <2>1. DOMAIN out[dst] = 1 .. Len(out[dst]) /\ Len(out[dst]) \in Nat
        /\ DOMAIN out'[dst] \subseteq Nat
    BY <1>3, <1>4, <1>6
  <2> DEFINE L == Len(out[dst])
  <2>2. SUFFICES ASSUME NEW i \in DOMAIN out'[dst], NEW j \in DOMAIN out'[dst], i < j,
                        OfSource(out'[dst][i]), OfSource(out'[dst][j])
                 PROVE  out'[dst][i][2] < out'[dst][j][2]
    BY DEF Ordered
  <2>3. i \in Nat /\ j \in Nat /\ L \in Nat
    BY <2>1
  <2>4. CASE j \in DOMAIN out[dst] /\ out'[dst][j] = out[dst][j]
    <3>1. i \in DOMAIN out[dst] /\ out'[dst][i] = out[dst][i]
      BY <1>7, <2>1, <2>2, <2>3, <2>4
    <3> QED BY <1>4, <2>2, <2>4, <3>1 DEF Ordered
  <2>5. CASE j - L \in DOMAIN part /\ out'[dst][j] = part[j - L]
    <3>1. CASE i \in DOMAIN out[dst] /\ out'[dst][i] = out[dst][i]
      BY <1>5, <2>2, <2>5, <3>1 DEF Precedes
    <3>2. CASE i - L \in DOMAIN part /\ out'[dst][i] = part[i - L]
      <4>1. i - L < j - L
        BY <2>2, <2>3
      <4> QED BY <1>5, <2>2, <2>5, <3>2, <4>1 DEF Ordered
    <3> QED BY <1>7, <3>1, <3>2
  <2> QED BY <1>7, <2>4, <2>5
<1>9. Read(out'[dst])
  BY <1>4, <1>5, <1>7 DEF Read
<1>10. ASSUME NEW t, Precedes(out[dst], t), Precedes(m.data, t) PROVE Precedes(out'[dst], t)
  <2>1. ASSUME NEW i \in DOMAIN out'[dst]
        PROVE  \/ i \in DOMAIN out[dst] /\ out'[dst][i] = out[dst][i]
               \/ \E k \in DOMAIN m.data : out'[dst][i] = m.data[k]
    BY <1>3, <1>7
  <2> QED BY <1>10, <2>1 DEF Precedes
<1>11. ASSUME NEW k \in 1 .. Len(fifo')
       PROVE  /\ Ordered(fifo'[k].data) /\ Read(fifo'[k].data)
              /\ Precedes(out'[fifo'[k].route.dst], fifo'[k].data)
  <2>1. /\ Ordered(fifo'[k].data) /\ Read(fifo'[k].data) /\ fifo'[k].route.dst \in Dsts
        /\ Precedes(out[fifo'[k].route.dst], fifo'[k].data)
        /\ fifo'[k].route.dst = dst => Precedes(m.data, fifo'[k].data)
    <3>1. fifo'[k] \in Messages
      BY <1>0, <1>1
    <3>2. fifo'[k].route.dst \in Dsts
      BY <3>1 DEF Messages, Route
    <3> QED BY <1>0, <1>1, <3>2 DEF Line, dst
  <2> QED BY <1>6, <1>10, <2>1
<1>12. Line'
  <2>1. (\A d \in Dsts : Ordered(out[d]) /\ Read(out[d]))'
    <3>1. ASSUME NEW d \in Dsts PROVE Ordered(out'[d]) /\ Read(out'[d])
      BY <1>0, <1>6, <1>8, <1>9 DEF Line
    <3> QED BY <1>0, <3>1 DEF Ordered, Read
  <2>2. (\A k \in 1 .. Len(fifo) : /\ Ordered(fifo[k].data) /\ Read(fifo[k].data)
                                  /\ Precedes(out[fifo[k].route.dst], fifo[k].data))'
    BY <1>0, <1>11 DEF Ordered, Read, Precedes
  <2>3. \A k, l \in 1 .. Len(fifo') :
           k < l /\ fifo'[k].route.dst = fifo'[l].route.dst => Precedes(fifo'[k].data, fifo'[l].data)
    <3>1. \A k, l \in 1 .. Len(fifo) : k < l /\ fifo[k].route.dst = fifo[l].route.dst
                                        => Precedes(fifo[k].data, fifo[l].data)
      BY <1>0 DEF Line
    <3> QED BY <1>1, <3>1
  <2>4. (\A k, l \in 1 .. Len(fifo) :
            k < l /\ fifo[k].route.dst = fifo[l].route.dst => Precedes(fifo[k].data, fifo[l].data))'
    BY <2>3 DEF Precedes
  <2> QED BY <2>1, <2>2, <2>4 DEF Line
<1>13. Fresh'
  <2>1. Ordered(buf)' /\ Read(buf)'
    BY <1>0 DEF Fresh, Ordered, Read
  <2>2. ASSUME NEW i \in 1 .. Len(todo)
        PROVE  /\ Precedes(out'[todo[i].dst], buf)
               /\ \A k \in 1 .. Len(fifo') :
                     fifo'[k].route.dst = todo[i].dst => Precedes(fifo'[k].data, buf)
    <3>1. todo[i].dst \in Dsts
      <4>1. todo[i] \in Route
        BY <1>0 DEF TypeOK
      <4> QED BY <4>1 DEF Route
    <3> QED BY <1>0, <1>1, <1>6, <1>10, <3>1 DEF Fresh, dst
  <2>3. (\A i \in 1 .. Len(todo) :
            /\ Precedes(out[todo[i].dst], buf)
            /\ \A k \in 1 .. Len(fifo) :
                  fifo[k].route.dst = todo[i].dst => Precedes(fifo[k].data, buf))'
    <3>1. \A i \in 1 .. Len(todo') :
            /\ Precedes(out'[todo'[i].dst], buf')
            /\ \A k \in 1 .. Len(fifo') :
                  fifo'[k].route.dst = todo'[i].dst => Precedes(fifo'[k].data, buf')
      <4>1. todo' = todo /\ buf' = buf
        BY <1>0
      <4> QED BY <2>2, <4>1
    <3> QED BY <3>1 DEF Precedes
  <2> QED BY <2>1, <2>3 DEF Fresh
<1> QED BY <1>0, <1>12, <1>13 DEF OInv, Apart

LEMMA StepOrder == IInv /\ OInv /\ [Next]_vars => OInv'
<1> SUFFICES ASSUME IInv, OInv, [Next]_vars PROVE OInv'
  OBVIOUS
<1>1. CASE PeerLeaves \/ (\E n \in 0 .. MaxBytes : PeerSends(n)) \/ ReadEnds \/ UNCHANGED vars
  BY <1>1, OrderKept DEF PeerLeaves, PeerSends, ReadEnds, vars, peer, reactor
<1>2. CASE ReadData \/ RouteOne \/ RoutesDone
  BY <1>2, ReadOrder, RouteOrder, DoneOrder
<1>3. CASE WriteAll \/ WriteNothing \/ WritePart
  <2>1. fifo # <<>>
    BY <1>3 DEF WriteAll, WriteNothing, WritePart
  <2>2. Len(Head(fifo).data) \in Nat
    BY <2>1 DEF IInv, TypeOK, Messages
  <2>3. PICK n \in 0 .. Len(Head(fifo).data) : Writes(n)
    BY <1>3, <2>2 DEF WriteAll, WriteNothing, WritePart
  <2> QED BY <2>1, <2>3, WriteOrder
<1> QED BY <1>1, <1>2, <1>3 DEF Next

\* Every destination gets the source's bytes in the order they were sent, none
\* twice, whatever handlers do to the buffer they share.
THEOREM KeepsOrder == ASSUME RoutesApart PROVE Spec => []BytesInOrder
<1>1. Init => OInv
  <2> SUFFICES ASSUME Init PROVE OInv
    OBVIOUS
  <2>1. /\ Len(fifo) = 0 /\ Len(todo) = 0 /\ \A d \in Dsts : out[d] = <<>>
        /\ \A i \in DOMAIN buf : ~OfSource(buf[i])
    BY SourceBytes DEF Init
  <2>2. 1 .. 0 = {} /\ DOMAIN <<>> = {}
    OBVIOUS
  <2>3. Apart(routes) /\ Apart(todo)
    BY <2>1, <2>2, RoutesApart DEF Init, RoutesApart, Apart
  <2> QED BY <2>1, <2>2, <2>3 DEF OInv, Line, Fresh, Ordered, Read, Precedes
<1>2. IInv /\ OInv => BytesInOrder
  BY DEF OInv, Line, BytesInOrder
<1> QED BY <1>1, <1>2, StepOrder, Invariance, PTL DEF Spec
=============================================================================
