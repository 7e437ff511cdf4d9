-------------------------- MODULE ControlPlaneProofs --------------------------
(****************************************************************************)
(* Proofs about ControlPlane for every number of clients and of registry    *)
(* slots, every set of frames, every size of header, payload and buffer,    *)
(* and every cut of the stream.                                             *)
(****************************************************************************)
EXTENDS ControlPlane, SequenceTheorems, TLAPS

(****************************************************************************)
(* Streams.  F is the sequence of frames a client has sent, s the bytes of  *)
(* it that are not dispatched yet, k the frame they start with.             *)
(****************************************************************************)
SizeOf(f) == HDR_SIZE + f.len

\* Every byte belongs to a frame; the bytes of a frame follow each other, and
\* after its last one comes the first one of the next frame.
InFrame(x, F) == x[1] \in 1 .. Len(F) /\ x[2] \in 1 .. SizeOf(F[x[1]])
Framed(s, F) ==
    /\ \A i \in 1 .. Len(s) : InFrame(s[i], F)
    /\ \A i, j \in 1 .. Len(s) :
          i <= j /\ s[i][2] + (j - i) <= SizeOf(F[s[i][1]])
              => s[j] = <<s[i][1], s[i][2] + (j - i)>>
    /\ \A i, j \in 1 .. Len(s) :
          j = i + 1 /\ s[i][2] = SizeOf(F[s[i][1]]) => s[j] = <<s[i][1] + 1, 1>>

\* The bytes run from the start of frame k to the end of the last frame.
Cut(s, F, k) ==
    /\ Framed(s, F)
    /\ Len(s) = 0 => k = Len(F) + 1
    /\ Len(s) > 0 => s[1] = <<k, 1>> /\ s[Len(s)] = <<Len(F), SizeOf(F[Len(F)])>>

LEMMA SizeFacts == \A f \in FrameKinds : SizeOf(f) \in Nat /\ SizeOf(f) > 0 /\ f.len \in Nat
  BY ProtoAssumption, ClientAssumption DEF SizeOf

LEMMA BytesFacts ==
    ASSUME NEW f \in FrameKinds, NEW n \in Nat
    PROVE  /\ Bytes(n, f) \in Seq(Cells)
           /\ Len(Bytes(n, f)) = SizeOf(f)
           /\ \A i \in 1 .. SizeOf(f) : Bytes(n, f)[i] = <<n, i>>
  BY SizeFacts DEF Bytes, SizeOf, Cells

\* A client that has sent nothing.
LEMMA CutNothing == Cut(<<>>, <<>>, 1)
  BY DEF Cut, Framed

\* A whole frame is added at the end.
LEMMA CutSend ==
    ASSUME NEW F \in Seq(FrameKinds), NEW s \in Seq(Cells), NEW k \in Nat, Cut(s, F, k),
           NEW f \in FrameKinds
    PROVE  Cut(s \o Bytes(Len(F) + 1, f), Append(F, f), k)
<1> DEFINE n == Len(F) + 1
           b == Bytes(n, f)
           t == s \o b
           G == Append(F, f)
           size == SizeOf(f)
           l == Len(s)
<1>1. n \in Nat /\ n > 0 /\ n = Len(F) + 1 /\ Len(F) \in Nat
  OBVIOUS
<1> HIDE DEF n
<1>2. b \in Seq(Cells) /\ Len(b) = size /\ \A i \in 1 .. size : b[i] = <<n, i>>
  BY <1>1, BytesFacts
<1>3. size \in Nat /\ size > 0 /\ l \in Nat
  BY SizeFacts
<1>4. /\ Len(G) = n /\ G[n] = f
      /\ \A i \in 1 .. Len(F) : G[i] = F[i]
  BY <1>1
<1> HIDE DEF b
<1>5. /\ t \in Seq(Cells) /\ Len(t) = l + Len(b)
      /\ \A i \in 1 .. l + Len(b) : t[i] = IF i <= l THEN s[i] ELSE b[i - l]
  BY <1>2, ConcatProperties
<1>6. /\ Len(t) = l + size
      /\ \A i \in 1 .. l : t[i] = s[i]
      /\ \A i \in l + 1 .. l + size : t[i] = <<n, i - l>>
  BY <1>2, <1>3, <1>5
<1>7. /\ \A i \in 1 .. l : InFrame(s[i], F)
      /\ l > 0 => s[1] = <<k, 1>> /\ s[l] = <<Len(F), SizeOf(F[Len(F)])>>
      /\ l = 0 => k = n
  BY <1>1 DEF Cut, Framed
<1> HIDE DEF t, G, size, l
<1>8. \A i \in 1 .. l : /\ InFrame(t[i], G)
                        /\ SizeOf(G[t[i][1]]) = SizeOf(F[s[i][1]])
  <2> TAKE i \in 1 .. l
  <2>1. t[i] = s[i] /\ s[i][1] \in 1 .. Len(F) /\ s[i][2] \in 1 .. SizeOf(F[s[i][1]])
    BY <1>6, <1>7 DEF InFrame
  <2>2. G[s[i][1]] = F[s[i][1]] /\ s[i][1] \in 1 .. Len(G)
    BY <2>1, <1>1, <1>4
  <2> QED BY <2>1, <2>2 DEF InFrame
<1>9. \A i \in l + 1 .. l + size : InFrame(t[i], G) /\ SizeOf(G[t[i][1]]) = size
  BY <1>1, <1>3, <1>4, <1>6 DEF InFrame, size
\* What is left of an old frame lies in s, for s ends with the last frame.
<1>10. ASSUME NEW i \in 1 .. l, NEW j \in 1 .. l + size, i <= j,
              s[i][2] + (j - i) <= SizeOf(F[s[i][1]])
       PROVE  j <= l
  <2> SUFFICES ASSUME j > l PROVE FALSE
    BY <1>3
  <2> DEFINE a == s[i][1]
             o == s[i][2]
             w == SizeOf(F[a])
  <2>1. a \in 1 .. Len(F) /\ o \in 1 .. w /\ w \in Nat
    <3>1. InFrame(s[i], F)
      BY <1>7
    <3>2. a \in 1 .. Len(F) /\ o \in 1 .. w
      BY <3>1 DEF InFrame
    <3> QED BY <3>2, SizeFacts
  <2>2. l \in 1 .. l /\ l > 0 /\ o + (l - i) < w /\ o + (j - i) <= w
    BY <1>3, <1>10, <2>1
  <2>3. s[l] = <<a, o + (l - i)>>
    BY <2>1, <2>2 DEF Cut, Framed, l
  <2>4. s[l] = <<Len(F), SizeOf(F[Len(F)])>>
    BY <1>7, <2>2
  <2> HIDE DEF o
  <2>5. a = Len(F) /\ o + (l - i) = SizeOf(F[Len(F)])
    BY <2>3, <2>4
  <2>6. o + (l - i) = w
    BY <2>5
  <2> HIDE DEF w
  <2> QED BY <2>1, <2>2, <2>6, <1>3
<1>11. ASSUME NEW i \in 1 .. l + size, NEW j \in 1 .. l + size, i <= j,
              t[i][2] + (j - i) <= SizeOf(G[t[i][1]])
       PROVE  t[j] = <<t[i][1], t[i][2] + (j - i)>>
  <2>1. CASE i <= l
    <3>1. i \in 1 .. l /\ t[i] = s[i] /\ SizeOf(G[t[i][1]]) = SizeOf(F[s[i][1]])
      BY <2>1, <1>3, <1>6, <1>8
    <3>2. s[i][2] + (j - i) <= SizeOf(F[s[i][1]])
      BY <3>1, <1>11
    <3>3. j \in 1 .. l
      BY <3>1, <3>2, <1>3, <1>10, <1>11
    <3>4. t[j] = s[j]
      BY <3>3, <1>6
    <3>5. s[j] = <<s[i][1], s[i][2] + (j - i)>>
      BY <3>1, <3>2, <3>3, <1>11 DEF Cut, Framed, l
    <3> QED BY <3>1, <3>4, <3>5
  <2>2. CASE i > l
    <3>1. t[i] = <<n, i - l>> /\ t[j] = <<n, j - l>>
      BY <2>2, <1>3, <1>6, <1>11
    <3>2. t[i][1] = n /\ t[i][2] = i - l
      BY <3>1
    <3>3. (i - l) + (j - i) = j - l
      BY <1>3
    <3> QED BY <3>1, <3>2, <3>3
  <2> QED BY <2>1, <2>2, <1>3
<1>12. ASSUME NEW i \in 1 .. l + size, NEW j \in 1 .. l + size, j = i + 1,
              t[i][2] = SizeOf(G[t[i][1]])
       PROVE  t[j] = <<t[i][1] + 1, 1>>
  <2>1. CASE i < l
    <3>1. i \in 1 .. l /\ j \in 1 .. l
      BY <2>1, <1>3, <1>12
    <3>2. t[i] = s[i] /\ t[j] = s[j] /\ s[i][2] = SizeOf(F[s[i][1]])
      BY <3>1, <1>6, <1>8, <1>12
    <3> QED BY <3>1, <3>2, <1>12 DEF Cut, Framed, l
  <2>2. CASE i = l
    <3>1. t[i] = <<Len(F), SizeOf(F[Len(F)])>>
      BY <2>2, <1>3, <1>6, <1>7
    <3>2. t[j] = <<n, j - l>> /\ j - l = 1
      BY <2>2, <1>3, <1>6, <1>12
    <3> QED BY <3>1, <3>2, <1>1
  <2>3. CASE i > l
    <3>1. t[i] = <<n, i - l>> /\ SizeOf(G[t[i][1]]) = size
      BY <2>3, <1>3, <1>6, <1>9
    <3>2. i - l = size
      BY <3>1, <1>12
    <3> QED BY <3>2, <1>3, <1>12
  <2> QED BY <2>1, <2>2, <2>3, <1>3
<1>13. Framed(t, G)
  <2>1. \A i \in 1 .. Len(t) : InFrame(t[i], G)
    <3> TAKE i \in 1 .. Len(t)
    <3>1. i \in 1 .. l \/ i \in l + 1 .. l + size
      BY <1>3, <1>6
    <3> QED BY <3>1, <1>8, <1>9
  <2> QED BY <2>1, <1>6, <1>11, <1>12 DEF Framed
<1>14. t[1] = <<k, 1>> /\ t[Len(t)] = <<Len(G), SizeOf(G[Len(G)])>> /\ Len(t) > 0
  <2>1. t[l + size] = <<n, size>>
    BY <1>3, <1>6
  <2>2. t[1] = <<k, 1>>
    <3>1. CASE l = 0
      BY <3>1, <1>3, <1>6, <1>7
    <3>2. CASE l > 0
      BY <3>2, <1>3, <1>6, <1>7
    <3> QED BY <3>1, <3>2, <1>3
  <2> QED BY <2>1, <2>2, <1>3, <1>4, <1>6 DEF size
<1>15. Cut(t, G, k)
  BY <1>3, <1>6, <1>13, <1>14 DEF Cut
<1> QED BY <1>15 DEF t, b, n, G

\* The first frame is taken away.
LEMMA CutConsume ==
    ASSUME NEW F \in Seq(FrameKinds), NEW s \in Seq(Cells), NEW k \in Nat, Cut(s, F, k),
           Len(s) > 0
    PROVE  /\ k \in DOMAIN F
           /\ SizeOf(F[k]) <= Len(s) =>
                  Cut(SubSeq(s, SizeOf(F[k]) + 1, Len(s)), F, k + 1)
<1> DEFINE n == SizeOf(F[k])
           l == Len(s)
           t == SubSeq(s, n + 1, l)
<1>1. k \in 1 .. Len(F) /\ s[1] = <<k, 1>> /\ l \in Nat
  BY DEF Cut, Framed, InFrame
<1>2. n \in Nat /\ n > 0
  BY <1>1, SizeFacts
<1> SUFFICES ASSUME n <= l PROVE Cut(t, F, k + 1)
  BY <1>1
<1>3. s[n] = <<k, n>>
  <2>1. s[1][1] = k /\ s[1][2] = 1
    BY <1>1
  <2>2. 1 + (n - 1) = n /\ 1 \in 1 .. l /\ n \in 1 .. l /\ 1 <= n
    BY <1>1, <1>2
  <2> HIDE DEF n
  <2>3. n = SizeOf(F[k])
    BY DEF n
  <2> QED BY <2>1, <2>2, <2>3 DEF Cut, Framed
<1> HIDE DEF n
<1>4. /\ Len(t) = l - n
      /\ \A i \in 1 .. l - n : t[i] = s[n + i]
  BY <1>1, <1>2
<1>5. \A i \in 1 .. l - n : n + i \in 1 .. l
  BY <1>1, <1>2
<1> HIDE DEF t
<1>6. Framed(t, F)
  <2>1. \A i \in 1 .. l - n : InFrame(t[i], F)
    BY <1>4, <1>5 DEF Cut, Framed
  <2>2. ASSUME NEW i \in 1 .. l - n, NEW j \in 1 .. l - n, i <= j,
               t[i][2] + (j - i) <= SizeOf(F[t[i][1]])
        PROVE  t[j] = <<t[i][1], t[i][2] + (j - i)>>
    <3> DEFINE ii == n + i
               jj == n + j
    <3>1. ii \in 1 .. l /\ jj \in 1 .. l /\ jj - ii = j - i /\ ii <= jj
      BY <1>1, <1>2, <2>2
    <3>2. t[i] = s[ii] /\ t[j] = s[jj]
      BY <1>4
    <3> HIDE DEF ii, jj
    <3> QED BY <3>1, <3>2, <2>2 DEF Cut, Framed
  <2>3. ASSUME NEW i \in 1 .. l - n, NEW j \in 1 .. l - n, j = i + 1,
               t[i][2] = SizeOf(F[t[i][1]])
        PROVE  t[j] = <<t[i][1] + 1, 1>>
    <3> DEFINE ii == n + i
               jj == n + j
    <3>1. ii \in 1 .. l /\ jj \in 1 .. l /\ jj = ii + 1
      BY <1>1, <1>2, <2>3
    <3>2. t[i] = s[ii] /\ t[j] = s[jj]
      BY <1>4
    <3> HIDE DEF ii, jj
    <3> QED BY <3>1, <3>2, <2>3 DEF Cut, Framed
  <2> QED BY <2>1, <2>2, <2>3, <1>4 DEF Framed
<1>7. l > 0 /\ s[l] = <<Len(F), SizeOf(F[Len(F)])>>
  BY DEF Cut
<1>8. ASSUME Len(t) = 0 PROVE k + 1 = Len(F) + 1
  <2>1. l = n
    BY <1>1, <1>2, <1>4, <1>8
  <2> HIDE DEF l
  <2> QED BY <2>1, <1>3, <1>7
<1>9. ASSUME Len(t) > 0
      PROVE  t[1] = <<k + 1, 1>> /\ t[Len(t)] = <<Len(F), SizeOf(F[Len(F)])>>
  <2>1. n + 1 \in 1 .. l /\ n \in 1 .. l /\ 1 \in 1 .. l - n /\ l - n \in 1 .. l - n
    BY <1>1, <1>2, <1>4, <1>9
  <2>2. t[1] = s[n + 1] /\ t[Len(t)] = s[l]
    <3>1. n + (l - n) = l
      BY <1>1, <1>2
    <3>2. t[1] = s[n + 1] /\ t[l - n] = s[n + (l - n)]
      BY <2>1, <1>4
    <3> QED BY <3>1, <3>2, <1>4
  <2>3. s[n][1] = k /\ s[n][2] = SizeOf(F[k])
    BY <1>3 DEF n
  <2>4. s[n + 1] = <<k + 1, 1>>
    BY <2>1, <2>3 DEF Cut, Framed
  <2> QED BY <2>2, <2>4, <1>7
<1> QED BY <1>6, <1>8, <1>9 DEF Cut

(****************************************************************************)
(* The inductive invariant.                                                 *)
(****************************************************************************)

\* From accept() to the moment the connection is given up.
Decoding == pc \in {"recv", "decode", "ack", "beat"}

\* Each connection is in the backlog once and is not closed while it waits or
\* is served.
Connections ==
    /\ cur = NoClient <=> pc = "accept"
    /\ pc = "accept" => buf = <<>> /\ seen = 0
    /\ cur # NoClient => cst[cur] \in {"connected", "hup"} /\ fd \in Fds
    /\ \A i \in 1 .. Len(backlog) :
          /\ cst[backlog[i]] \in {"connected", "hup"}
          /\ backlog[i] # cur
          /\ \A j \in 1 .. Len(backlog) : i # j => backlog[i] # backlog[j]

\* What a client has sent is all there until it is served; then what is in the
\* buffer and what is still to be received follow on the last frame dispatched.
Streams ==
    /\ \A c \in Clients : c # cur /\ cst[c] # "closed" => Cut(stream[c], frames[c], 1)
    /\ \A c \in Clients : cst[c] = "new" => frames[c] = <<>> /\ stream[c] = <<>>
    /\ Decoding => Cut(buf \o stream[cur], frames[cur], seen + 1)

\* RegistryFollowsConnection, slot by slot.
Registered ==
    \A i \in Reg!Slots : Reg!Used(i) =>
        cur # NoClient /\ g_table[i].client_fd = fd /\ pc # "close"

\* The ACKs are those of REGISTERs that were dispatched; one that says ok has
\* left an entry.
SomeEntry == \E k \in Reg!Slots : Reg!Used(k)
AckKnown(c, i) ==
    /\ acks[c][i][1] \in 1 .. Len(frames[c])
    /\ frames[c][acks[c][i][1]].cmd = "REGISTER"
    /\ c = cur => acks[c][i][1] <= seen
    /\ c = cur /\ pc = "ack" => acks[c][i][1] < seen /\ ~(acks[c][i][2] /\ reply)
    /\ c = cur /\ Decoding /\ acks[c][i][2] => SomeEntry
Acks ==
    /\ \A c \in Clients : c # cur /\ cst[c] # "closed" => acks[c] = <<>>
    /\ \A c \in Clients : \A i \in 1 .. Len(acks[c]) : AckKnown(c, i)
    /\ pc = "ack" => /\ seen \in 1 .. Len(frames[cur])
                     /\ frames[cur][seen].cmd = "REGISTER"
                     /\ reply => SomeEntry

\* The seq an ACK echoes is the number of the frame dispatched last.
Echoed == seq = seen

\* The clock is never behind a time that was read from it.
Clock == hb <= now /\ check <= now

IInv == /\ TypeOK
        /\ Connections
        /\ Streams
        /\ Registered
        /\ Acks /\ AcksArePaired /\ Echoed
        /\ Clock /\ NoFalseAlarm
(****************************************************************************)
(* The registry.                                                            *)
(****************************************************************************)
LEMMA SlotFacts ==
    ASSUME TypeOK, NEW i \in Reg!Slots
    PROVE  /\ Reg!Used(i) => g_table[i] \in Reg!Entry
           /\ ~Reg!Used(i) => g_table[i] = Reg!NoEntry
<1>1. g_table[i] \in Reg!Entry \/ g_table[i] = Reg!NoEntry
  BY DEF TypeOK, Reg!TypeOK
<1>2. g_table[i] \in Reg!Entry => g_table[i].in_use = TRUE
  BY DEF Reg!Entry
<1>3. g_table[i] = Reg!NoEntry => g_table[i].in_use = FALSE
  BY DEF Reg!NoEntry
<1> QED BY <1>1, <1>2, <1>3, Zenon DEF Reg!Used

LEMMA RegisterFacts ==
    ASSUME TypeOK, NEW d \in Fds, NEW id \in RawIds, Reg!Register(d, id), now' = now
    PROVE  /\ Reg!TypeOK'
           /\ \A i \in Reg!Slots : Reg!Used(i) => g_table[i].client_fd # d
           /\ \E k \in Reg!Slots :
                 /\ Reg!Used(k)' /\ g_table'[k].client_fd = d
                 /\ \A i \in Reg!Slots \ {k} : g_table'[i] = g_table[i]
<1> DEFINE new == [in_use |-> TRUE, client_fd |-> d, device_id |-> id,
                   last_heartbeat_ms |-> now]
<1>1. PICK k \in Reg!Slots : g_table' = [g_table EXCEPT ![k] = new]
  BY DEF Reg!Register
<1>2. new \in Reg!Entry
  BY DEF TypeOK, Reg!TypeOK, Reg!Entry
<1>3. new.in_use = TRUE /\ new.client_fd = d
  OBVIOUS
<1> HIDE DEF new
<1>4. g_table'[k] = new /\ \A i \in Reg!Slots \ {k} : g_table'[i] = g_table[i]
  BY <1>1 DEF TypeOK, Reg!TypeOK
<1>5. Reg!TypeOK'
  BY <1>1, <1>2 DEF TypeOK, Reg!TypeOK
<1>6. Reg!Used(k)'
  BY <1>3, <1>4 DEF Reg!Used
<1> QED BY <1>3, <1>4, <1>5, <1>6 DEF Reg!Register, Reg!Admits

LEMMA UnregisterFacts ==
    ASSUME TypeOK, NEW d \in Fds, Reg!Unregister(d), now' = now
    PROVE  /\ Reg!TypeOK'
           /\ \A i \in Reg!Slots :
                 Reg!Used(i)' => g_table'[i] = g_table[i] /\ Reg!Used(i) /\ g_table[i].client_fd # d
<1>1. Reg!TypeOK'
  BY DEF TypeOK, Reg!TypeOK, Reg!Unregister
<1>2. ASSUME NEW i \in Reg!Slots, Reg!Used(i)' PROVE i \notin Reg!Of(d)
  BY <1>2 DEF Reg!Unregister, Reg!Used, Reg!NoEntry
<1>3. ASSUME NEW i \in Reg!Slots, i \notin Reg!Of(d) PROVE g_table'[i] = g_table[i]
  BY <1>3 DEF Reg!Unregister
<1> QED BY <1>1, <1>2, <1>3 DEF Reg!Of, Reg!Used

LEMMA HeartbeatFacts ==
    ASSUME TypeOK, NEW d \in Fds, NEW t \in 0 .. MaxTime, Reg!UpdateHeartbeat(d, t), now' = now
    PROVE  /\ Reg!TypeOK'
           /\ \A i \in Reg!Slots :
                 /\ Reg!Used(i)' = Reg!Used(i)
                 /\ Reg!Used(i) => g_table'[i].client_fd = g_table[i].client_fd
<1>1. ASSUME NEW i \in Reg!Slots
      PROVE  /\ g_table'[i] \in Reg!Entry \cup {Reg!NoEntry}
             /\ Reg!Used(i)' = Reg!Used(i)
             /\ Reg!Used(i) => g_table'[i].client_fd = g_table[i].client_fd
  <2>1. CASE i \in Reg!Of(d)
    <3>1. g_table[i] \in Reg!Entry
      BY <2>1, SlotFacts DEF Reg!Of
    <3>2. g_table'[i] = [g_table[i] EXCEPT !.last_heartbeat_ms = t]
      BY <2>1 DEF Reg!UpdateHeartbeat
    <3> QED BY <3>1, <3>2 DEF Reg!Entry, Reg!Used
  <2>2. CASE i \notin Reg!Of(d)
    BY <2>2 DEF Reg!UpdateHeartbeat, TypeOK, Reg!TypeOK, Reg!Used
  <2> QED BY <2>1, <2>2
<1>2. Reg!TypeOK'
  BY <1>1 DEF TypeOK, Reg!TypeOK, Reg!UpdateHeartbeat
<1> QED BY <1>1, <1>2

(****************************************************************************)
(* The decoder.                                                             *)
(****************************************************************************)

\* The buffer starts with the first frame that is not dispatched yet.
LEMMA AlignedFacts ==
    ASSUME IInv, Decoding, Len(buf) > 0
    PROVE  /\ cur \in Clients /\ fd \in Fds
           /\ seen + 1 \in 1 .. Len(frames[cur])
           /\ buf[1] = <<seen + 1, 1>> /\ HeaderSeq = seen + 1
           /\ Header = frames[cur][seen + 1] /\ Header \in FrameKinds
<1>1. cur \in Clients /\ fd \in Fds
  BY DEF IInv, TypeOK, Connections, Decoding
<1>2. buf \in Seq(Cells) /\ stream[cur] \in Seq(Cells) /\ frames[cur] \in Seq(FrameKinds)
      /\ seen \in Nat
  BY <1>1 DEF IInv, TypeOK
<1> DEFINE s == buf \o stream[cur]
<1>3. s \in Seq(Cells) /\ Len(s) > 0 /\ s[1] = buf[1]
  BY <1>2, ConcatProperties
<1>4. Cut(s, frames[cur], seen + 1)
  BY DEF IInv, Streams
<1> HIDE DEF s
<1>5. buf[1] = <<seen + 1, 1>>
  BY <1>3, <1>4 DEF Cut
<1>6. seen + 1 \in 1 .. Len(frames[cur])
  BY <1>2, <1>3, <1>4, CutConsume
<1>7. Header = frames[cur][seen + 1] /\ Header \in FrameKinds
  BY <1>2, <1>5, <1>6 DEF Header
<1> QED BY <1>1, <1>5, <1>6, <1>7 DEF HeaderSeq

\* Where a whole frame is dispatched, it is the next frame of the client; and
\* the buffer goes on with the one behind it.
LEMMA DecodeFacts ==
    ASSUME IInv, pc = "decode", Complete
    PROVE  /\ cur \in Clients /\ fd \in Fds
           /\ seen + 1 \in 1 .. Len(frames[cur])
           /\ Header = frames[cur][seen + 1] /\ Header \in FrameKinds
           /\ HeaderSeq = seen + 1
           /\ FrameSize = SizeOf(Header) /\ FrameSize \in Nat /\ FrameSize <= Len(buf)
<1>1. HDR_SIZE \in Nat /\ HDR_SIZE > 0 /\ Len(buf) \in Nat
  BY ProtoAssumption DEF IInv, TypeOK
<1>2. HaveHeader
  BY <1>1 DEF Complete, FrameSize, HaveHeader
<1>3. Len(buf) > 0 /\ Decoding
  BY <1>1, <1>2 DEF HaveHeader, Decoding
<1>4. Header \in FrameKinds
  BY <1>3, AlignedFacts
<1> QED BY <1>1, <1>2, <1>3, <1>4, AlignedFacts, SizeFacts DEF Complete, FrameSize, SizeOf

LEMMA MinOfTwo ==
    ASSUME NEW a \in Nat, NEW b \in Nat
    PROVE  Min({a, b}) \in Nat /\ Min({a, b}) <= a /\ Min({a, b}) <= b
  BY DEF Min

\* recv() takes a part of the stream that fits into the buffer.
LEMMA RecvFacts ==
    ASSUME IInv, Recv
    PROVE  /\ cur \in Clients
           /\ buf' \in Seq(Cells) /\ Len(buf') <= BUF_SIZE
           /\ stream' \in [Clients -> Seq(Cells)]
           /\ \A c \in Clients \ {cur} : stream'[c] = stream[c]
           /\ buf' \o stream'[cur] = buf \o stream[cur]
<1>1. cur \in Clients
  BY DEF IInv, TypeOK, Connections, Recv
<1> DEFINE st == stream[cur]
<1>2. buf \in Seq(Cells) /\ st \in Seq(Cells) /\ Len(buf) \in Nat /\ Len(st) \in Nat
      /\ Len(buf) <= BUF_SIZE /\ BUF_SIZE \in Nat
  BY <1>1, ProtoAssumption DEF IInv, TypeOK, BUF_SIZE
<1>3. PICK n \in 1 .. Min({Len(st), BUF_SIZE - Len(buf)}) :
           /\ buf' = buf \o SubSeq(st, 1, n)
           /\ stream' = [stream EXCEPT ![cur] = SubSeq(@, n + 1, Len(@))]
  BY DEF Recv
<1>4. n \in Nat /\ n <= Len(st) /\ n <= BUF_SIZE - Len(buf)
  <2> DEFINE a == Len(st)
             b == BUF_SIZE - Len(buf)
  <2>1. a \in Nat /\ b \in Nat
    BY <1>2
  <2>2. n \in 1 .. Min({a, b})
    OBVIOUS
  <2> HIDE DEF a, b
  <2>3. n \in Nat /\ n <= a /\ n <= b
    BY <2>1, <2>2, MinOfTwo
  <2> QED BY <2>3 DEF a, b
<1> DEFINE h == SubSeq(st, 1, n)
           r == SubSeq(st, n + 1, Len(st))
<1>5. h \in Seq(Cells) /\ Len(h) = n /\ r \in Seq(Cells)
  BY <1>2, <1>4
<1>6. h \o r = st
  <2>1. SubSeq(st, 1, n) \o SubSeq(st, n + 1, Len(st)) = SubSeq(st, 1, Len(st))
    BY <1>2, <1>4, ConcatAdjacentSubSeq
  <2> QED BY <2>1, <1>2, SubSeqFull
<1>7. stream' = [stream EXCEPT ![cur] = r] /\ buf' = buf \o h
  BY <1>3
<1> HIDE DEF st, h, r
<1>8. buf' \in Seq(Cells) /\ Len(buf') = Len(buf) + n
  BY <1>2, <1>5, <1>7, ConcatProperties
<1>9. Len(buf') <= BUF_SIZE
  BY <1>2, <1>4, <1>8
<1>10. stream'[cur] = r /\ \A c \in Clients \ {cur} : stream'[c] = stream[c]
  BY <1>1, <1>7 DEF IInv, TypeOK
<1>11. stream' \in [Clients -> Seq(Cells)]
  BY <1>1, <1>5, <1>7 DEF IInv, TypeOK
<1>12. (buf \o h) \o r = buf \o (h \o r)
  <2>1. buf \in Seq(Cells) /\ h \in Seq(Cells) /\ r \in Seq(Cells)
    BY <1>2, <1>5
  <2> QED BY <2>1, ConcatAssociative
<1> QED BY <1>1, <1>6, <1>7, <1>8, <1>9, <1>10, <1>11, <1>12 DEF st

\* What is received joins what is buffered, in whichever order it is appended.
LEMMA CellsAssociate ==
    ASSUME NEW s \in Seq(Cells), NEW t \in Seq(Cells), NEW u \in Seq(Cells)
    PROVE  (s \o t) \o u = s \o (t \o u)
BY ConcatAssociative

\* memmove() keeps the bytes behind the frame.
LEMMA ConsumeFacts ==
    ASSUME IInv, pc = "decode", Complete, Consume, UNCHANGED <<frames, stream, cur>>
    PROVE  /\ buf' \in Seq(Cells) /\ Len(buf') <= BUF_SIZE
           /\ seen' = seen + 1 /\ seen' \in Nat /\ seq' = seen'
           /\ Cut(buf' \o stream[cur], frames[cur], seen' + 1)
<1> DEFINE st == stream[cur]
           F == frames[cur]
           n == FrameSize
           s == buf \o st
<1>1. /\ cur \in Clients
      /\ seen + 1 \in 1 .. Len(F)
      /\ n = SizeOf(F[seen + 1]) /\ n \in Nat /\ n <= Len(buf)
      /\ HeaderSeq = seen + 1
  BY DecodeFacts
<1>2. /\ buf \in Seq(Cells) /\ st \in Seq(Cells) /\ F \in Seq(FrameKinds) /\ seen \in Nat
      /\ Len(buf) <= BUF_SIZE /\ BUF_SIZE \in Nat /\ Len(buf) \in Nat /\ Len(st) \in Nat
  <2>1. BUF_SIZE \in Nat
    BY ProtoAssumption DEF BUF_SIZE
  <2>2. buf \in Seq(Cells) /\ Len(buf) <= BUF_SIZE /\ seen \in Nat
    BY DEF IInv, TypeOK
  <2>3. st \in Seq(Cells) /\ F \in Seq(FrameKinds)
    BY <1>1 DEF IInv, TypeOK
  <2> QED BY <2>1, <2>2, <2>3
<1>3. Cut(s, F, seen + 1)
  BY DEF IInv, Streams, Decoding
<1>4. buf' = SubSeq(buf, n + 1, Len(buf)) /\ seen' = seen + 1 /\ seq' = seen'
  BY <1>1 DEF Consume
<1> HIDE DEF F, st, n
<1>5. buf' \in Seq(Cells) /\ Len(buf') = Len(buf) - n
      /\ \A i \in 1 .. Len(buf) - n : buf'[i] = buf[n + i]
  BY <1>1, <1>2, <1>4
<1>6. n > 0
  BY <1>1, <1>2, SizeFacts
<1>7. s \in Seq(Cells) /\ Len(s) = Len(buf) + Len(st)
      /\ \A i \in 1 .. Len(buf) + Len(st) : s[i] = IF i <= Len(buf) THEN buf[i] ELSE st[i - Len(buf)]
  BY <1>2, ConcatProperties
<1>8. buf' \o st = SubSeq(s, n + 1, Len(s))
  <2> DEFINE a == buf' \o st
             b == SubSeq(s, n + 1, Len(s))
             l == Len(buf)
  <2>1. a \in Seq(Cells) /\ Len(a) = Len(buf') + Len(st)
        /\ \A i \in 1 .. Len(buf') + Len(st) :
              a[i] = IF i <= Len(buf') THEN buf'[i] ELSE st[i - Len(buf')]
    BY <1>2, <1>5, ConcatProperties
  <2>2. s \in Seq(Cells) /\ n + 1 \in Nat
    BY <1>1, <1>7
  <2> HIDE DEF s
  <2>3. b \in Seq(Cells) /\ Len(b) = Len(s) - n /\ \A i \in 1 .. Len(s) - n : b[i] = s[n + i]
    <3>1. Len(s) \in Nat /\ n <= Len(s)
      BY <1>1, <1>2, <1>7
    <3> QED BY <1>1, <2>2, <3>1
  <2> HIDE DEF a, b
  <2>4. /\ l \in Nat /\ Len(st) \in Nat /\ Len(buf') = l - n /\ Len(s) = l + Len(st)
        /\ n \in Nat /\ n <= l
    BY <1>1, <1>2, <1>5, <1>7
  <2>5. \A i \in 1 .. l - n : buf'[i] = buf[n + i]
    BY <1>5
  <2>6. \A i \in 1 .. l + Len(st) : s[i] = IF i <= l THEN buf[i] ELSE st[i - l]
    BY <1>7
  <2> HIDE DEF l
  <2>7. Len(a) = Len(b) /\ Len(b) = l - n + Len(st)
    BY <2>1, <2>3, <2>4
  <2>8. ASSUME NEW i \in 1 .. l - n + Len(st) PROVE a[i] = b[i]
    <3>1. n + i \in 1 .. l + Len(st) /\ i \in 1 .. Len(s) - n /\ i \in Nat
      BY <2>4
    <3>2. b[i] = s[n + i]
      BY <3>1, <2>3
    <3>3. CASE i <= l - n
      <4>1. i \in 1 .. l - n /\ n + i <= l
        BY <3>3, <2>4, <3>1
      <4>2. a[i] = buf'[i] /\ s[n + i] = buf[n + i]
        BY <3>1, <4>1, <2>1, <2>4, <2>6
      <4> QED BY <3>2, <4>1, <4>2, <2>5
    <3>4. CASE ~(i <= l - n)
      <4>1. ~(n + i <= l) /\ n + i - l = i - (l - n)
        BY <3>4, <2>4, <3>1
      <4>2. a[i] = st[i - (l - n)]
        BY <3>4, <2>1, <2>4
      <4>3. s[n + i] = st[n + i - l]
        <5>1. ASSUME NEW m \in 1 .. l + Len(st), m = n + i PROVE s[m] = st[m - l]
          BY <4>1, <5>1, <2>6
        <5> QED BY <3>1, <5>1, <2>4
      <4> QED BY <3>2, <4>1, <4>2, <4>3
    <3> QED BY <3>3, <3>4
  <2>9. a = b
    BY <2>1, <2>3, <2>7, <2>8, SeqEqual
  <2> QED BY <2>9 DEF a, b
<1>9. n <= Len(s) /\ Len(s) > 0
  BY <1>1, <1>2, <1>6, <1>7
<1> HIDE DEF s
<1>10. Cut(SubSeq(s, n + 1, Len(s)), F, seen + 1 + 1)
  <2>1. s \in Seq(Cells) /\ F \in Seq(FrameKinds) /\ seen + 1 \in Nat
    BY <1>2, <1>7
  <2> QED BY <1>1, <1>3, <1>9, <2>1, CutConsume
<1>11. Len(buf') <= BUF_SIZE /\ seen' \in Nat
  BY <1>1, <1>2, <1>4, <1>5
<1> QED BY <1>4, <1>5, <1>8, <1>10, <1>11 DEF st, F

(****************************************************************************)
(* Type correctness.                                                        *)
(****************************************************************************)
LEMMA InitType == Init => TypeOK
<1> SUFFICES ASSUME Init PROVE TypeOK
  OBVIOUS
<1>1. MaxTime \in Nat /\ BUF_SIZE \in Nat
  BY ProtoAssumption DEF BUF_SIZE
<1>2. Reg!TypeOK
  BY <1>1 DEF Init, Reg!Init, Reg!TypeOK
<1>3. /\ frames \in [Clients -> Seq(FrameKinds)] /\ stream \in [Clients -> Seq(Cells)]
      /\ acks \in [Clients -> Seq(Nat \X BOOLEAN)] /\ backlog \in Seq(Clients)
      /\ buf \in Seq(Cells) /\ Len(buf) = 0 /\ {hb, check} \subseteq 0 .. MaxTime
  BY <1>1 DEF Init
<1>4. fd \in Fds \cup {-1} /\ seen \in Nat /\ seq \in Nat /\ reply \in BOOLEAN /\ cur \in Clients \cup {NoClient}
      /\ {copied, warned} \subseteq SUBSET Reg!Entry
  BY DEF Init
<1>5. /\ cst \in [Clients -> {"new", "connected", "hup", "closed"}]
      /\ pc \in {"accept", "recv", "decode", "ack", "beat", "unregister", "close"}
      /\ mpc \in {"sleep", "iterate", "report"}
  BY DEF Init
<1> QED BY <1>1, <1>2, <1>3, <1>4, <1>5 DEF TypeOK

LEMMA TypeStep == IInv /\ [Next]_vars => TypeOK'
<1> SUFFICES ASSUME IInv, [Next]_vars PROVE TypeOK'
  OBVIOUS
<1> USE DEF reg, clients, ipc, main
<1>0. TypeOK /\ BUF_SIZE \in Nat /\ MaxTime \in Nat
  BY ProtoAssumption DEF IInv, BUF_SIZE
<1>1. CASE UNCHANGED vars
  BY <1>0, <1>1 DEF TypeOK, vars, Reg!TypeOK
<1>2. ASSUME NEW c \in Clients, Connect(c) PROVE TypeOK'
  BY <1>0, <1>2 DEF Connect, TypeOK, Reg!TypeOK
<1>3. ASSUME NEW c \in Clients, NEW f \in FrameKinds, SendFrame(c, f) PROVE TypeOK'
  <2>1. frames[c] \in Seq(FrameKinds) /\ stream[c] \in Seq(Cells)
    BY <1>0 DEF TypeOK
  <2>2. Bytes(Len(frames[c]) + 1, f) \in Seq(Cells)
    BY <2>1, BytesFacts
  <2>3. stream[c] \o Bytes(Len(frames[c]) + 1, f) \in Seq(Cells)
    BY <2>1, <2>2, ConcatProperties
  <2>4. Append(frames[c], f) \in Seq(FrameKinds)
    BY <2>1
  <2>5. stream' \in [Clients -> Seq(Cells)] /\ frames' \in [Clients -> Seq(FrameKinds)]
    BY <1>0, <1>3, <2>3, <2>4 DEF SendFrame, TypeOK
  <2> QED BY <1>0, <1>3, <2>5 DEF SendFrame, TypeOK, Reg!TypeOK
<1>4. ASSUME NEW c \in Clients, Disconnect(c) PROVE TypeOK'
  BY <1>0, <1>4 DEF Disconnect, TypeOK, Reg!TypeOK
<1>5. CASE AcceptClient
  <2>1. Head(backlog) \in Clients /\ Tail(backlog) \in Seq(Clients)
    BY <1>0, <1>5 DEF AcceptClient, TypeOK
  <2> QED BY <1>0, <1>5, <2>1 DEF AcceptClient, TypeOK, Reg!TypeOK
<1>6. CASE Recv
  BY <1>0, <1>6, RecvFacts DEF Recv, TypeOK, Reg!TypeOK
<1>7. CASE RecvEof
  BY <1>0, <1>7 DEF RecvEof, TypeOK, Reg!TypeOK
<1>8. CASE DecodeIncomplete
  BY <1>0, <1>8 DEF DecodeIncomplete, TypeOK, Reg!TypeOK
<1>9. CASE DecodeFatal
  BY <1>0, <1>9 DEF DecodeFatal, TypeOK, Reg!TypeOK
<1>10. CASE DispatchRegister
  <2>1. buf' \in Seq(Cells) /\ Len(buf') <= BUF_SIZE /\ seen' \in Nat /\ seq' \in Nat
    BY <1>10, ConsumeFacts DEF DispatchRegister
  <2>2. Reg!TypeOK' /\ reply' \in BOOLEAN
    <3>1. CASE Reg!Register(fd, Header.id) /\ Parses(Header) /\ reply' = TRUE
      <4>1. fd \in Fds /\ Header.id \in RawIds
        BY <1>10, <3>1, DecodeFacts, ClientAssumption DEF DispatchRegister, Parses
      <4> QED BY <1>0, <1>10, <3>1, <4>1, RegisterFacts DEF DispatchRegister
    <3>2. CASE UNCHANGED g_table /\ reply' = FALSE
      BY <1>0, <1>10, <3>2 DEF DispatchRegister, TypeOK, Reg!TypeOK
    <3> QED BY <1>10, <3>1, <3>2 DEF DispatchRegister
  <2> QED BY <1>0, <1>10, <2>1, <2>2 DEF DispatchRegister, TypeOK
<1>11. CASE SendAck
  <2>1. cur \in Clients
    BY <1>11 DEF SendAck, IInv, TypeOK, Connections
  <2>2. Append(acks[cur], <<seq, reply>>) \in Seq(Nat \X BOOLEAN)
    BY <1>0, <2>1 DEF TypeOK
  <2> QED BY <1>0, <1>11, <2>1, <2>2 DEF SendAck, TypeOK, Reg!TypeOK
<1>12. CASE LoseAck
  BY <1>0, <1>12 DEF LoseAck, TypeOK, Reg!TypeOK
<1>13. CASE DispatchHeartbeat
  <2>1. buf' \in Seq(Cells) /\ Len(buf') <= BUF_SIZE /\ seen' \in Nat /\ seq' \in Nat
    BY <1>13, ConsumeFacts DEF DispatchHeartbeat
  <2> QED BY <1>0, <1>13, <2>1 DEF DispatchHeartbeat, TypeOK, Reg!TypeOK
<1>14. CASE UpdateHeartbeat
  <2>1. Reg!TypeOK'
    BY <1>0, <1>14, HeartbeatFacts DEF UpdateHeartbeat, IInv, TypeOK, Connections
  <2> QED BY <1>0, <1>14, <2>1 DEF UpdateHeartbeat, TypeOK
<1>15. CASE DispatchOther
  <2>1. buf' \in Seq(Cells) /\ Len(buf') <= BUF_SIZE /\ seen' \in Nat /\ seq' \in Nat
    BY <1>15, ConsumeFacts DEF DispatchOther
  <2> QED BY <1>0, <1>15, <2>1 DEF DispatchOther, TypeOK, Reg!TypeOK
<1>16. CASE Unregister
  <2>1. Reg!TypeOK'
    BY <1>0, <1>16, UnregisterFacts DEF Unregister, IInv, TypeOK, Connections
  <2> QED BY <1>0, <1>16, <2>1 DEF Unregister, TypeOK
<1>17. CASE Close
  <2>1. <<>> \in Seq(Cells) /\ Len(<<>>) = 0
    OBVIOUS
  <2>2. stream' \in [Clients -> Seq(Cells)]
    BY <1>0, <1>17, <2>1 DEF Close, TypeOK
  <2>3. cst' \in [Clients -> {"new", "connected", "hup", "closed"}]
    BY <1>0, <1>17 DEF Close, TypeOK
  <2>4. buf' \in Seq(Cells) /\ Len(buf') <= BUF_SIZE /\ hb' \in 0 .. MaxTime
    BY <1>0, <1>17, <2>1 DEF Close
  <2>5. /\ pc' = "accept" /\ cur' = NoClient /\ fd' = -1 /\ seen' \in Nat /\ seq' \in Nat
        /\ reply' \in BOOLEAN
        /\ UNCHANGED <<frames, backlog, acks, main, reg>>
    BY <1>17 DEF Close
  <2> QED BY <1>0, <2>2, <2>3, <2>4, <2>5 DEF TypeOK, Reg!TypeOK
<1>18. CASE CheckBegins
  BY <1>0, <1>18 DEF CheckBegins, TypeOK, Reg!TypeOK
<1>19. CASE Iterate
  <2>1. Reg!Snapshot \subseteq Reg!Entry
    BY <1>0, SlotFacts DEF Reg!Snapshot
  <2> QED BY <1>0, <1>19, <2>1 DEF Iterate, TypeOK, Reg!TypeOK
<1>20. CASE Report
  BY <1>0, <1>20 DEF Report, TypeOK, Reg!TypeOK
<1>21. CASE Tick
  <2>1. now' \in 0 .. MaxTime
    BY <1>0, <1>21 DEF Tick, TypeOK, Reg!TypeOK
  <2> QED BY <1>0, <1>21, <2>1 DEF Tick, TypeOK, Reg!TypeOK
<1> QED BY <1>1, <1>2, <1>3, <1>4, <1>5, <1>6, <1>7, <1>8, <1>9, <1>10, <1>11, <1>12, <1>13,
           <1>14, <1>15, <1>16, <1>17, <1>18, <1>19, <1>20, <1>21 DEF Next

(****************************************************************************)
(* The parts of the invariant.                                              *)
(****************************************************************************)

\* The steps of ipc_thread between accept() and close(), and those that leave
\* ipc_thread and the connections alone.
Serving == \/ Recv \/ RecvEof \/ DecodeIncomplete \/ DecodeFatal \/ DispatchRegister
           \/ SendAck \/ LoseAck \/ DispatchHeartbeat \/ UpdateHeartbeat \/ DispatchOther
           \/ Unregister
Elsewhere == CheckBegins \/ Iterate \/ Report \/ Tick \/ UNCHANGED vars

LEMMA StepCases ==
    ASSUME [Next]_vars
    PROVE  \/ \E c \in Clients : Connect(c) \/ Disconnect(c)
           \/ \E c \in Clients, f \in FrameKinds : SendFrame(c, f)
           \/ AcceptClient \/ Serving \/ Close \/ Elsewhere
  BY DEF Next, Serving, Elsewhere

LEMMA ServingFacts ==
    ASSUME Serving
    PROVE  /\ pc # "accept" /\ pc' # "accept" /\ pc # "close"
           /\ UNCHANGED <<cur, fd, frames, cst, backlog>>
<1> USE DEF clients, ipc, main, reg
<1>1. CASE Recv \/ RecvEof \/ DecodeIncomplete \/ DecodeFatal
  BY <1>1 DEF Recv, RecvEof, DecodeIncomplete, DecodeFatal
<1>2. CASE DispatchRegister \/ DispatchHeartbeat \/ DispatchOther
  BY <1>2 DEF DispatchRegister, DispatchHeartbeat, DispatchOther
<1>3. CASE SendAck \/ LoseAck \/ UpdateHeartbeat \/ Unregister
  BY <1>3 DEF SendAck, LoseAck, UpdateHeartbeat, Unregister
<1> QED BY <1>1, <1>2, <1>3 DEF Serving

LEMMA ElsewhereFacts ==
    ASSUME Elsewhere
    PROVE  UNCHANGED <<clients, ipc, g_table>>
  BY DEF Elsewhere, CheckBegins, Iterate, Report, Tick, vars, reg

\* The connections.
LEMMA ConnectionsStep == IInv /\ [Next]_vars => Connections'
<1> SUFFICES ASSUME IInv, [Next]_vars PROVE Connections'
  OBVIOUS
<1> USE DEF clients, ipc, main, reg
<1>0. /\ Connections /\ NoClient \notin Clients
      /\ cst \in [Clients -> {"new", "connected", "hup", "closed"}]
      /\ backlog \in Seq(Clients) /\ Len(backlog) \in Nat
      /\ \A i \in 1 .. Len(backlog) : backlog[i] \in Clients
  BY ClientAssumption DEF IInv, TypeOK
<1>1. ASSUME NEW c \in Clients, Connect(c) PROVE Connections'
  <2>1. /\ cst[c] = "new" /\ cst' = [cst EXCEPT ![c] = "connected"]
        /\ backlog' = Append(backlog, c) /\ UNCHANGED <<pc, cur, fd, buf, seen>>
    BY <1>1 DEF Connect
  <2>2. /\ Len(backlog') = Len(backlog) + 1 /\ backlog'[Len(backlog) + 1] = c
        /\ \A i \in 1 .. Len(backlog) : backlog'[i] = backlog[i]
    BY <1>0, <2>1
  <2>3. c # cur /\ \A i \in 1 .. Len(backlog) : c # backlog[i]
    BY <1>0, <2>1 DEF Connections
  <2>4. \A d \in Clients : cst[d] \in {"connected", "hup"} => cst'[d] \in {"connected", "hup"}
    BY <1>0, <2>1
  <2>5. cst'[c] = "connected"
    BY <1>0, <2>1
  <2>6. \A i \in 1 .. Len(backlog') : i \in 1 .. Len(backlog) \/ i = Len(backlog) + 1
    BY <1>0, <2>2
  <2>7. \A i \in 1 .. Len(backlog') :
          /\ cst'[backlog'[i]] \in {"connected", "hup"}
          /\ backlog'[i] # cur
          /\ \A j \in 1 .. Len(backlog') : i # j => backlog'[i] # backlog'[j]
    BY <1>0, <2>2, <2>3, <2>4, <2>5, <2>6 DEF Connections
  <2>8. cur # NoClient => cst'[cur] \in {"connected", "hup"}
    BY <1>0, <2>4 DEF Connections, IInv, TypeOK
  <2> QED BY <1>0, <2>1, <2>7, <2>8 DEF Connections
<1>2. ASSUME NEW c \in Clients, Disconnect(c) PROVE Connections'
  <2>1. cst' = [cst EXCEPT ![c] = "hup"] /\ UNCHANGED <<backlog, pc, cur, fd, buf, seen>>
    BY <1>2 DEF Disconnect
  <2>2. \A d \in Clients : cst[d] \in {"connected", "hup"} => cst'[d] \in {"connected", "hup"}
    BY <1>0, <2>1
  <2>3. cur # NoClient => cst'[cur] \in {"connected", "hup"}
    BY <1>0, <2>2 DEF Connections, IInv, TypeOK
  <2> QED BY <1>0, <2>1, <2>2, <2>3 DEF Connections
<1>3. ASSUME NEW c \in Clients, NEW f \in FrameKinds, SendFrame(c, f) PROVE Connections'
  BY <1>0, <1>3 DEF SendFrame, Connections
<1>4. CASE AcceptClient
  <2>1. /\ pc = "accept" /\ backlog # <<>> /\ fd' \in Fds /\ cur' = Head(backlog)
        /\ backlog' = Tail(backlog) /\ pc' = "recv" /\ UNCHANGED cst
    BY <1>4 DEF AcceptClient
  <2>2. /\ 1 \in 1 .. Len(backlog) /\ cur' = backlog[1] /\ Len(backlog') = Len(backlog) - 1
        /\ \A i \in 1 .. Len(backlog') : /\ backlog'[i] = backlog[i + 1]
                                         /\ i + 1 \in 1 .. Len(backlog) /\ i + 1 # 1
        /\ \A i, j \in 1 .. Len(backlog') : i # j => i + 1 # j + 1
    BY <1>0, <2>1
  <2>3. cur' # NoClient /\ cst'[cur'] \in {"connected", "hup"}
    BY <1>0, <2>1, <2>2 DEF Connections
  <2>4. \A i \in 1 .. Len(backlog') :
          /\ cst'[backlog'[i]] \in {"connected", "hup"}
          /\ backlog'[i] # cur'
          /\ \A j \in 1 .. Len(backlog') : i # j => backlog'[i] # backlog'[j]
    BY <1>0, <2>1, <2>2 DEF Connections
  <2> QED BY <2>1, <2>3, <2>4 DEF Connections
<1>5. CASE Serving
  BY <1>0, <1>5, ServingFacts DEF Connections
<1>6. CASE Close
  <2>1. /\ pc = "close" /\ cst' = [cst EXCEPT ![cur] = "closed"] /\ pc' = "accept"
        /\ cur' = NoClient /\ buf' = <<>> /\ seen' = 0 /\ UNCHANGED backlog
    BY <1>6 DEF Close
  <2>2. \A d \in Clients : d # cur => cst'[d] = cst[d]
    BY <1>0, <2>1
  <2>3. \A i \in 1 .. Len(backlog) : backlog[i] \in Clients /\ backlog[i] # NoClient
    BY <1>0
  <2> QED BY <1>0, <2>1, <2>2, <2>3 DEF Connections
<1>7. CASE Elsewhere
  BY <1>0, <1>7, ElsewhereFacts DEF Connections
<1> QED BY <1>1, <1>2, <1>3, <1>4, <1>5, <1>6, <1>7, StepCases

\* The streams.
LEMMA StreamsStep == IInv /\ [Next]_vars => Streams'
<1> SUFFICES ASSUME IInv, [Next]_vars PROVE Streams'
  OBVIOUS
<1> USE DEF clients, ipc, main, reg
<1>0. /\ Connections /\ Streams /\ NoClient \notin Clients
      /\ cst \in [Clients -> {"new", "connected", "hup", "closed"}]
      /\ frames \in [Clients -> Seq(FrameKinds)] /\ stream \in [Clients -> Seq(Cells)]
      /\ cur \in Clients \cup {NoClient} /\ buf \in Seq(Cells) /\ seen \in Nat
  BY ClientAssumption DEF IInv, TypeOK
<1>1. ASSUME NEW c \in Clients, Connect(c) PROVE Streams'
  <2>1. /\ cst[c] = "new" /\ cst' = [cst EXCEPT ![c] = "connected"]
        /\ UNCHANGED <<pc, cur, buf, seen, stream, frames>>
    BY <1>1 DEF Connect
  <2>2. \A d \in Clients : /\ cst[d] = "closed" => cst'[d] = "closed"
                           /\ cst'[d] = "new" => cst[d] = "new"
    BY <1>0, <2>1
  <2> QED BY <1>0, <2>1, <2>2 DEF Streams, Decoding
<1>2. ASSUME NEW c \in Clients, Disconnect(c) PROVE Streams'
  <2>1. /\ cst[c] = "connected" /\ cst' = [cst EXCEPT ![c] = "hup"]
        /\ UNCHANGED <<pc, cur, buf, seen, stream, frames>>
    BY <1>2 DEF Disconnect
  <2>2. \A d \in Clients : /\ cst[d] = "closed" => cst'[d] = "closed"
                           /\ cst'[d] = "new" => cst[d] = "new"
    BY <1>0, <2>1
  <2> QED BY <1>0, <2>1, <2>2 DEF Streams, Decoding
<1>3. ASSUME NEW c \in Clients, NEW f \in FrameKinds, SendFrame(c, f) PROVE Streams'
  <2> DEFINE b == Bytes(Len(frames[c]) + 1, f)
  <2>1. /\ cst[c] = "connected" /\ frames' = [frames EXCEPT ![c] = Append(@, f)]
        /\ stream' = [stream EXCEPT ![c] = @ \o b]
        /\ UNCHANGED <<pc, cur, buf, seen, cst>>
    BY <1>3 DEF SendFrame
  <2>2. frames[c] \in Seq(FrameKinds) /\ stream[c] \in Seq(Cells) /\ Len(frames[c]) + 1 \in Nat
    BY <1>0
  <2>3. b \in Seq(Cells)
    BY <2>2, BytesFacts
  <2>4. ASSUME NEW s \in Seq(Cells), NEW k \in Nat, Cut(s, frames[c], k)
        PROVE  Cut(s \o b, Append(frames[c], f), k)
    BY <2>2, <2>4, CutSend
  <2> HIDE DEF b
  <2>5. /\ frames'[c] = Append(frames[c], f) /\ stream'[c] = stream[c] \o b
        /\ \A d \in Clients : d # c => frames'[d] = frames[d] /\ stream'[d] = stream[d]
    BY <1>0, <2>1
  <2>6. c # cur => Cut(stream'[c], frames'[c], 1)
    BY <1>0, <2>1, <2>2, <2>4, <2>5 DEF Streams
  <2>7. c = cur /\ Decoding => Cut(buf \o stream'[c], frames'[c], seen + 1)
    <3> SUFFICES ASSUME c = cur, Decoding PROVE Cut(buf \o stream'[c], frames'[c], seen + 1)
      OBVIOUS
    <3>1. buf \o stream[c] \in Seq(Cells) /\ seen + 1 \in Nat
      BY <1>0, <2>2, ConcatProperties
    <3>2. Cut(buf \o stream[c], frames[c], seen + 1)
      BY <1>0 DEF Streams
    <3>3. (buf \o stream[c]) \o b = buf \o (stream[c] \o b)
      <4>1. buf \in Seq(Cells)
        BY <1>0
      <4> QED BY <4>1, <2>2, <2>3, CellsAssociate
    <3> QED BY <2>4, <2>5, <3>1, <3>2, <3>3
  <2>8. Decoding' => Decoding
    BY <2>1 DEF Decoding
  <2>9. \A d \in Clients : d # cur /\ cst[d] # "closed" => Cut(stream'[d], frames'[d], 1)
    BY <1>0, <2>5, <2>6 DEF Streams
  <2>10. \A d \in Clients : cst[d] = "new" => frames'[d] = <<>> /\ stream'[d] = <<>>
    BY <1>0, <2>1, <2>5 DEF Streams
  <2>11. Decoding => Cut(buf \o stream'[cur], frames'[cur], seen + 1)
    <3>1. CASE c = cur
      BY <2>7, <3>1
    <3>2. CASE c # cur
      <4>1. Decoding => cur \in Clients
        BY <1>0 DEF Decoding, Connections
      <4> QED BY <1>0, <2>5, <3>2, <4>1 DEF Streams
    <3> QED BY <3>1, <3>2
  <2> QED BY <2>1, <2>8, <2>9, <2>10, <2>11 DEF Streams
<1>4. CASE AcceptClient
  <2>1. /\ pc = "accept" /\ backlog # <<>> /\ cur' = Head(backlog) /\ pc' = "recv"
        /\ UNCHANGED <<cst, frames, stream, buf, seen>>
    BY <1>4 DEF AcceptClient
  <2>2. backlog \in Seq(Clients)
    BY DEF IInv, TypeOK
  <2>3. cur' \in Clients /\ cst[cur'] # "closed" /\ cur = NoClient /\ buf = <<>> /\ seen = 0
    <3>1. 1 \in 1 .. Len(backlog) /\ cur' = backlog[1]
      BY <2>1, <2>2
    <3> QED BY <1>0, <2>1, <2>2, <3>1 DEF Connections
  <2>4. Cut(stream[cur'], frames[cur'], 1)
    BY <1>0, <2>3 DEF Streams
  <2>5. buf \o stream[cur'] = stream[cur'] /\ seen + 1 = 1
    <3>1. stream[cur'] \in Seq(Cells)
      BY <1>0, <2>3
    <3> QED BY <2>3, <3>1, ConcatEmptySeq
  <2>6. \A d \in Clients : d # cur
    BY <1>0, <2>3
  <2> QED BY <1>0, <2>1, <2>4, <2>5, <2>6 DEF Streams
<1>5. CASE Recv
  <2>1. /\ UNCHANGED <<cur, seen, cst, frames>> /\ Decoding
    BY <1>5 DEF Recv, Decoding
  <2>2. /\ cur \in Clients /\ \A c \in Clients \ {cur} : stream'[c] = stream[c]
        /\ buf' \o stream'[cur] = buf \o stream[cur]
    BY <1>5, RecvFacts
  <2>3. cst[cur] # "new"
    BY <1>0, <2>2 DEF Connections
  <2> QED BY <1>0, <2>1, <2>2, <2>3 DEF Streams
<1>6. CASE DispatchRegister \/ DispatchHeartbeat \/ DispatchOther
  <2>1. /\ pc = "decode" /\ Complete /\ Consume
        /\ UNCHANGED <<cur, cst, frames, stream>>
    BY <1>6 DEF DispatchRegister, DispatchHeartbeat, DispatchOther
  <2>2. Cut(buf' \o stream[cur], frames[cur], seen' + 1)
    BY <2>1, ConsumeFacts
  <2> QED BY <1>0, <2>1, <2>2 DEF Streams
<1>7. CASE \/ RecvEof \/ DecodeIncomplete \/ DecodeFatal \/ SendAck \/ LoseAck
           \/ UpdateHeartbeat \/ Unregister
  <2>1. /\ UNCHANGED <<cur, cst, frames, stream, seen>>
        /\ Decoding' => Decoding /\ UNCHANGED buf
    BY <1>7 DEF RecvEof, DecodeIncomplete, DecodeFatal, SendAck, LoseAck, UpdateHeartbeat,
                Unregister, Decoding
  <2> QED BY <1>0, <2>1 DEF Streams
<1>8. CASE Close
  <2>1. /\ cst' = [cst EXCEPT ![cur] = "closed"] /\ stream' = [stream EXCEPT ![cur] = <<>>]
        /\ ~Decoding' /\ cur' = NoClient /\ UNCHANGED frames
    BY <1>8 DEF Close, Decoding
  <2>2. \A d \in Clients : d # cur => cst'[d] = cst[d] /\ stream'[d] = stream[d]
    BY <1>0, <2>1
  <2>3. cur \in Clients => cst'[cur] = "closed"
    BY <1>0, <2>1
  <2> QED BY <1>0, <2>1, <2>2, <2>3 DEF Streams
<1>9. CASE Elsewhere
  BY <1>0, <1>9, ElsewhereFacts DEF Streams, Decoding
<1> QED BY <1>1, <1>2, <1>3, <1>4, <1>5, <1>6, <1>7, <1>8, <1>9, StepCases DEF Serving

\* The registry.
LEMMA RegisteredStep == IInv /\ [Next]_vars => Registered'
<1> SUFFICES ASSUME IInv, [Next]_vars PROVE Registered'
  OBVIOUS
<1> USE DEF clients, ipc, main, reg
<1>0. Registered /\ Connections /\ TypeOK /\ NoClient \notin Clients
  BY ClientAssumption DEF IInv
<1>1. ASSUME NEW c \in Clients, Connect(c) \/ Disconnect(c) PROVE Registered'
  BY <1>0, <1>1 DEF Connect, Disconnect, Registered, Reg!Used
<1>2. ASSUME NEW c \in Clients, NEW f \in FrameKinds, SendFrame(c, f) PROVE Registered'
  BY <1>0, <1>2 DEF SendFrame, Registered, Reg!Used
<1>3. CASE AcceptClient
  BY <1>0, <1>3 DEF AcceptClient, Connections, Registered, Reg!Used
<1>4. CASE DispatchRegister
  <2>1. cur \in Clients /\ UNCHANGED <<cur, fd>> /\ pc' # "close"
    BY <1>0, <1>4, DecodeFacts DEF DispatchRegister
  <2>2. CASE Parses(Header) /\ Reg!Register(fd, Header.id)
    <3>1. fd \in Fds /\ Header.id \in RawIds /\ now' = now
      BY <1>4, <2>2, DecodeFacts, ClientAssumption DEF DispatchRegister, Parses
    <3>2. /\ \A i \in Reg!Slots : Reg!Used(i) => g_table[i].client_fd # fd
          /\ \E k \in Reg!Slots :
                /\ Reg!Used(k)' /\ g_table'[k].client_fd = fd
                /\ \A i \in Reg!Slots \ {k} : g_table'[i] = g_table[i]
      BY <1>0, <2>2, <3>1, RegisterFacts
    <3>3. \A i \in Reg!Slots : ~Reg!Used(i)
      BY <1>0, <3>2 DEF Registered
    <3> QED BY <1>0, <2>1, <3>2, <3>3 DEF Registered, Reg!Used
  <2>3. CASE UNCHANGED g_table
    BY <1>0, <2>1, <2>3 DEF Registered, Reg!Used
  <2> QED BY <1>4, <2>2, <2>3 DEF DispatchRegister
<1>5. CASE UpdateHeartbeat
  <2>1. pc = "beat" /\ Reg!UpdateHeartbeat(fd, hb) /\ UNCHANGED <<cur, fd, now>> /\ pc' # "close"
    BY <1>5 DEF UpdateHeartbeat
  <2>2. fd \in Fds /\ hb \in 0 .. MaxTime
    BY <1>0, <2>1 DEF Connections, TypeOK
  <2>3. \A i \in Reg!Slots : /\ Reg!Used(i)' = Reg!Used(i)
                             /\ Reg!Used(i) => g_table'[i].client_fd = g_table[i].client_fd
    BY <1>0, <2>1, <2>2, HeartbeatFacts
  <2> QED BY <1>0, <2>1, <2>3 DEF Registered
<1>6. CASE Unregister
  <2>1. pc = "unregister" /\ Reg!Unregister(fd) /\ UNCHANGED now
    BY <1>6 DEF Unregister
  <2>2. fd \in Fds
    BY <1>0, <2>1 DEF Connections
  <2>3. \A i \in Reg!Slots : Reg!Used(i)' => Reg!Used(i) /\ g_table[i].client_fd # fd
    BY <1>0, <2>1, <2>2, UnregisterFacts
  <2> QED BY <1>0, <2>3 DEF Registered
<1>7. CASE \/ Recv \/ RecvEof \/ DecodeIncomplete \/ DecodeFatal \/ SendAck \/ LoseAck
           \/ DispatchHeartbeat \/ DispatchOther
  <2>1. UNCHANGED <<cur, fd, g_table>> /\ pc' # "close"
    BY <1>7 DEF Recv, RecvEof, DecodeIncomplete, DecodeFatal, SendAck, LoseAck,
                DispatchHeartbeat, DispatchOther
  <2> QED BY <1>0, <2>1 DEF Registered, Reg!Used
<1>8. CASE Close
  BY <1>0, <1>8 DEF Close, Registered, Reg!Used
<1>9. CASE Elsewhere
  BY <1>0, <1>9, ElsewhereFacts DEF Registered, Reg!Used
<1> QED BY <1>1, <1>2, <1>3, <1>4, <1>5, <1>6, <1>7, <1>8, <1>9, StepCases DEF Serving

\* The ACK's seq.
LEMMA EchoedStep == IInv /\ [Next]_vars => Echoed'
<1> SUFFICES ASSUME IInv, [Next]_vars PROVE Echoed'
  OBVIOUS
<1> USE DEF clients, ipc, main, reg
<1>0. seq = seen
  BY DEF IInv, Echoed
<1>1. CASE DispatchRegister \/ DispatchHeartbeat \/ DispatchOther
  <2>1. /\ pc = "decode" /\ Complete /\ Consume
        /\ UNCHANGED <<cur, frames, stream>>
    BY <1>1 DEF DispatchRegister, DispatchHeartbeat, DispatchOther
  <2> QED BY <2>1, ConsumeFacts DEF Echoed
<1>2. ASSUME UNCHANGED <<seq, seen>> PROVE Echoed'
  BY <1>0, <1>2 DEF Echoed
<1>3. CASE \E c \in Clients : Connect(c) \/ Disconnect(c) \/ \E f \in FrameKinds : SendFrame(c, f)
  BY <1>2, <1>3 DEF Connect, Disconnect, SendFrame
<1>4. CASE \/ AcceptClient \/ Recv \/ RecvEof \/ DecodeIncomplete \/ DecodeFatal \/ SendAck
           \/ LoseAck \/ UpdateHeartbeat \/ Unregister
  BY <1>2, <1>4 DEF AcceptClient, Recv, RecvEof, DecodeIncomplete, DecodeFatal, SendAck,
                    LoseAck, UpdateHeartbeat, Unregister
<1>5. CASE Close
  BY <1>5 DEF Close, Echoed
<1>6. CASE Elsewhere
  BY <1>2, <1>6, ElsewhereFacts
<1> QED BY <1>1, <1>3, <1>4, <1>5, <1>6, StepCases DEF Serving

\* The clock and the check.
LEMMA ClockStep == IInv /\ [Next]_vars => Clock'
<1> SUFFICES ASSUME IInv, [Next]_vars PROVE Clock'
  OBVIOUS
<1> USE DEF clients, ipc, main, reg
<1>0. Clock /\ now \in Nat /\ hb \in Nat /\ check \in Nat
  BY ProtoAssumption DEF IInv, TypeOK, Reg!TypeOK
<1>1. ASSUME NEW c \in Clients, Connect(c) \/ Disconnect(c) PROVE Clock'
  BY <1>0, <1>1 DEF Connect, Disconnect, Clock
<1>2. ASSUME NEW c \in Clients, NEW f \in FrameKinds, SendFrame(c, f) PROVE Clock'
  BY <1>0, <1>2 DEF SendFrame, Clock
<1>3. CASE AcceptClient
  BY <1>0, <1>3 DEF AcceptClient, Clock
<1>4. CASE DispatchHeartbeat
  BY <1>0, <1>4 DEF DispatchHeartbeat, Clock
<1>5. CASE DispatchRegister \/ DispatchOther
  BY <1>0, <1>5 DEF DispatchRegister, DispatchOther, Clock
<1>6. CASE \/ Recv \/ RecvEof \/ DecodeIncomplete \/ DecodeFatal \/ SendAck \/ LoseAck
           \/ UpdateHeartbeat \/ Unregister
  BY <1>0, <1>6 DEF Recv, RecvEof, DecodeIncomplete, DecodeFatal, SendAck, LoseAck,
                    UpdateHeartbeat, Unregister, Clock
<1>7. CASE Close
  BY <1>0, <1>7 DEF Close, Clock
<1>8. CASE Elsewhere
  BY <1>0, <1>8 DEF Elsewhere, CheckBegins, Iterate, Report, Tick, vars, Clock
<1> QED BY <1>1, <1>2, <1>3, <1>4, <1>5, <1>6, <1>7, <1>8, StepCases DEF Serving

\* The subtraction does not wrap where the guard lets it be made.
LEMMA StaleFacts ==
    ASSUME TypeOK, NEW e \in Reg!Entry, Stale(e)
    PROVE  e.last_heartbeat_ms + TIMEOUT < check
<1>1. /\ e.last_heartbeat_ms \in Nat /\ check \in Nat /\ check <= MaxTime /\ TIMEOUT \in Nat
      /\ MODULUS \in Nat /\ MODULUS > MaxTime + TIMEOUT /\ MaxTime \in Nat
  BY ProtoAssumption DEF TypeOK, Reg!Entry
<1> DEFINE d == check - e.last_heartbeat_ms
<1>2. d \in Nat /\ d < MODULUS
  BY <1>1 DEF Stale
<1> HIDE DEF d
<1>3. d % MODULUS = d
  BY <1>1, <1>2
<1>4. d > TIMEOUT
  BY <1>3 DEF Stale, Age, d
<1> QED BY <1>1, <1>4 DEF d

LEMMA NoFalseAlarmStep == IInv /\ [Next]_vars => NoFalseAlarm'
<1> SUFFICES ASSUME IInv, [Next]_vars PROVE NoFalseAlarm'
  OBVIOUS
<1> USE DEF clients, ipc, main, reg
<1>0. /\ NoFalseAlarm /\ Clock /\ TypeOK
      /\ warned \subseteq Reg!Entry /\ copied \subseteq Reg!Entry
  BY DEF IInv, TypeOK
<1>1. CASE CheckBegins
  <2>1. check' = now /\ warned' = warned
    BY <1>1 DEF CheckBegins
  <2>2. /\ now \in Nat /\ check \in Nat /\ check <= now /\ TIMEOUT \in Nat
        /\ \A e \in warned : e.last_heartbeat_ms \in Nat
    <3>1. now \in Nat /\ check \in Nat /\ TIMEOUT \in Nat /\ MaxTime \in Nat
      BY <1>0, ProtoAssumption DEF TypeOK, Reg!TypeOK
    <3>2. \A e \in warned : e.last_heartbeat_ms \in 0 .. MaxTime
      BY <1>0 DEF Reg!Entry
    <3> QED BY <1>0, <3>1, <3>2 DEF Clock
  <2> QED BY <1>0, <2>1, <2>2 DEF NoFalseAlarm
<1>2. CASE Report
  <2>1. warned' = {e \in copied : Stale(e)} /\ check' = check
    BY <1>2 DEF Report
  <2> QED BY <1>0, <2>1, StaleFacts DEF NoFalseAlarm
<1>3. ASSUME UNCHANGED <<warned, check>> PROVE NoFalseAlarm'
  BY <1>0, <1>3 DEF NoFalseAlarm
<1>4. CASE \E c \in Clients : Connect(c) \/ Disconnect(c) \/ \E f \in FrameKinds : SendFrame(c, f)
  BY <1>3, <1>4 DEF Connect, Disconnect, SendFrame
<1>5. CASE AcceptClient \/ Close
  BY <1>3, <1>5 DEF AcceptClient, Close
<1>6. CASE Serving
  BY <1>3, <1>6 DEF Serving, Recv, RecvEof, DecodeIncomplete, DecodeFatal, SendAck, LoseAck,
     UpdateHeartbeat, Unregister, DispatchRegister, DispatchHeartbeat, DispatchOther
<1>7. CASE Iterate \/ Tick \/ UNCHANGED vars
  BY <1>3, <1>7 DEF Iterate, Tick, vars
<1> QED BY <1>1, <1>2, <1>4, <1>5, <1>6, <1>7, StepCases DEF Elsewhere

\* The ACKs.
LEMMA AcksKept ==
    ASSUME IInv, UNCHANGED <<acks, frames, cur, cst>>, seen' \in Nat, seen' >= seen,
           pc' # "ack", Decoding' => Decoding /\ (SomeEntry => SomeEntry')
    PROVE  Acks'
<1>0. Acks /\ seen \in Nat /\ acks \in [Clients -> Seq(Nat \X BOOLEAN)]
  BY DEF IInv, TypeOK
<1>1. ASSUME NEW c \in Clients, NEW i \in 1 .. Len(acks[c]), AckKnown(c, i)
      PROVE  AckKnown(c, i)'
  <2>1. acks[c][i][1] \in Nat
    BY <1>0
  <2> QED BY <1>0, <1>1, <2>1 DEF AckKnown
<1> QED BY <1>0, <1>1 DEF Acks

LEMMA AcksStep == IInv /\ [Next]_vars => Acks' /\ AcksArePaired'
<1> SUFFICES ASSUME IInv, [Next]_vars PROVE Acks' /\ AcksArePaired'
  OBVIOUS
<1> USE DEF clients, ipc, main, reg
<1>0. /\ Acks /\ AcksArePaired /\ Connections /\ TypeOK /\ NoClient \notin Clients
      /\ acks \in [Clients -> Seq(Nat \X BOOLEAN)] /\ seen \in Nat
      /\ frames \in [Clients -> Seq(FrameKinds)]
      /\ cur \in Clients \cup {NoClient}
      /\ cst \in [Clients -> {"new", "connected", "hup", "closed"}]
  BY ClientAssumption DEF IInv, TypeOK
<1>1. ASSUME NEW c \in Clients, Connect(c) \/ Disconnect(c) PROVE Acks' /\ AcksArePaired'
  <2>1. /\ UNCHANGED <<acks, frames, cur, seen, pc, reply, g_table>>
        /\ cst[c] # "closed" /\ \E st \in {"connected", "hup"} : cst' = [cst EXCEPT ![c] = st]
    BY <1>1 DEF Connect, Disconnect
  <2>2. \A d \in Clients : cst'[d] # "closed" => cst[d] # "closed"
    BY <1>0, <2>1
  <2> QED BY <1>0, <2>1, <2>2 DEF Acks, AckKnown, SomeEntry, Decoding, Reg!Used, AcksArePaired
<1>2. ASSUME NEW c \in Clients, NEW f \in FrameKinds, SendFrame(c, f)
      PROVE  Acks' /\ AcksArePaired'
  <2>1. /\ frames' = [frames EXCEPT ![c] = Append(@, f)]
        /\ UNCHANGED <<acks, cur, seen, pc, reply, g_table, cst>>
    BY <1>2 DEF SendFrame
  <2>2. \A d \in Clients : \A n \in 1 .. Len(frames[d]) :
          n \in 1 .. Len(frames'[d]) /\ frames'[d][n] = frames[d][n]
    <3> TAKE d \in Clients
    <3>1. CASE d = c
      <4>1. frames'[c] = Append(frames[c], f) /\ frames[c] \in Seq(FrameKinds)
        BY <1>0, <2>1
      <4> QED BY <3>1, <4>1
    <3>2. CASE d # c
      BY <1>0, <2>1, <3>2
    <3> QED BY <3>1, <3>2
  <2>3. SomeEntry' = SomeEntry /\ Decoding' = Decoding
    BY <2>1 DEF SomeEntry, Decoding, Reg!Used
  <2>4. \A d \in Clients : \A i \in 1 .. Len(acks[d]) : AckKnown(d, i)'
    <3> TAKE d \in Clients
    <3> TAKE i \in 1 .. Len(acks[d])
    <3>1. AckKnown(d, i)
      BY <1>0 DEF Acks
    <3>2. acks'[d][i] = acks[d][i] /\ UNCHANGED <<seen, cur, pc, reply>>
      BY <2>1
    <3> QED BY <2>2, <2>3, <3>1, <3>2 DEF AckKnown
  <2>5. pc = "ack" => cur \in Clients
    BY <1>0 DEF Connections
  <2>6. Acks'
    BY <1>0, <2>1, <2>2, <2>3, <2>4, <2>5 DEF Acks
  <2>7. \A d \in Clients : \A i \in DOMAIN acks[d] : frames'[d][acks[d][i][1]].cmd = "REGISTER"
    <3> TAKE d \in Clients
    <3>1. DOMAIN acks[d] = 1 .. Len(acks[d])
      BY <1>0
    <3> QED BY <2>4, <2>1, <3>1 DEF AckKnown
  <2> QED BY <1>0, <2>1, <2>6, <2>7 DEF AcksArePaired
<1>3. CASE AcceptClient
  <2>1. /\ pc = "accept" /\ backlog # <<>> /\ cur' = Head(backlog) /\ pc' = "recv"
        /\ UNCHANGED <<cst, frames, acks>>
    BY <1>3 DEF AcceptClient
  <2>2. cur' \in Clients /\ cst[cur'] # "closed" /\ cur = NoClient
    <3>1. backlog \in Seq(Clients)
      BY DEF IInv, TypeOK
    <3>2. 1 \in 1 .. Len(backlog) /\ cur' = backlog[1] /\ backlog[1] \in Clients
      BY <2>1, <3>1
    <3>3. cst[backlog[1]] \in {"connected", "hup"} /\ cur = NoClient
      BY <1>0, <2>1, <3>2 DEF Connections
    <3> QED BY <3>2, <3>3
  <2>3. acks[cur'] = <<>> /\ Len(acks[cur']) = 0
    BY <1>0, <2>2 DEF Acks
  <2>4. \A c \in Clients : \A i \in 1 .. Len(acks[c]) : c # cur'
    BY <2>3
  <2>5. Acks'
    BY <1>0, <2>1, <2>2, <2>4 DEF Acks, AckKnown
  <2> QED BY <1>0, <2>1, <2>5 DEF AcksArePaired
<1>4. CASE DispatchRegister
  <2>1. /\ pc = "decode" /\ Complete /\ Consume /\ Header.cmd = "REGISTER" /\ pc' = "ack"
        /\ UNCHANGED <<acks, frames, cur, cst, stream, fd, now>>
    BY <1>4 DEF DispatchRegister
  <2>2. seen' = seen + 1
    BY <2>1 DEF Consume
  <2>3. cur \in Clients /\ seen' \in 1 .. Len(frames[cur]) /\ frames[cur][seen'].cmd = "REGISTER"
    BY <2>1, <2>2, DecodeFacts
  <2>4. \/ reply' = TRUE /\ SomeEntry' /\ ~SomeEntry
        \/ reply' = FALSE /\ SomeEntry' = SomeEntry
    <3>1. CASE Parses(Header) /\ Reg!Register(fd, Header.id) /\ reply' = TRUE
      <4>1. fd \in Fds /\ Header.id \in RawIds
        BY <2>1, <3>1, DecodeFacts, ClientAssumption DEF Parses
      <4>2. /\ \A i \in Reg!Slots : Reg!Used(i) => g_table[i].client_fd # fd
            /\ SomeEntry'
        BY <1>0, <2>1, <3>1, <4>1, RegisterFacts DEF SomeEntry
      <4>3. ~SomeEntry
        BY <4>2 DEF IInv, Registered, SomeEntry
      <4> QED BY <3>1, <4>2, <4>3
    <3>2. CASE reply' = FALSE /\ UNCHANGED g_table
      BY <3>2 DEF SomeEntry, Reg!Used
    <3> QED BY <1>4, <3>1, <3>2 DEF DispatchRegister
  <2>5. ASSUME NEW c \in Clients, NEW i \in 1 .. Len(acks[c]) PROVE AckKnown(c, i)'
    <3>1. AckKnown(c, i) /\ acks[c][i][1] \in Nat
      BY <1>0 DEF Acks
    <3>2. Decoding
      BY <2>1 DEF Decoding
    <3> QED BY <1>0, <2>1, <2>2, <2>4, <3>1, <3>2 DEF AckKnown
  <2>6. Acks'
    BY <1>0, <2>1, <2>3, <2>4, <2>5 DEF Acks
  <2> QED BY <1>0, <2>1, <2>6 DEF AcksArePaired
<1>5. CASE SendAck
  <2>1. /\ pc = "ack" /\ acks' = [acks EXCEPT ![cur] = Append(@, <<seen, reply>>)]
        /\ pc' = "decode" /\ UNCHANGED <<frames, cst, cur, seen, reply, g_table>>
    BY <1>5 DEF SendAck, IInv, Echoed
  <2>2. /\ cur \in Clients /\ reply \in BOOLEAN
        /\ seen \in 1 .. Len(frames[cur]) /\ frames[cur][seen].cmd = "REGISTER"
        /\ reply => SomeEntry
    BY <1>0, <2>1 DEF Acks, Connections, TypeOK
  <2> DEFINE n == Len(acks[cur]) + 1
  <2>3. /\ Len(acks'[cur]) = n /\ acks'[cur][n] = <<seen, reply>>
        /\ \A i \in 1 .. Len(acks[cur]) : acks'[cur][i] = acks[cur][i]
        /\ n \in Nat /\ Len(acks[cur]) = n - 1
    <3>1. acks'[cur] = Append(acks[cur], <<seen, reply>>) /\ acks[cur] \in Seq(Nat \X BOOLEAN)
      BY <1>0, <2>1, <2>2
    <3> QED BY <3>1
  <2>4. \A c \in Clients : c # cur => acks'[c] = acks[c]
    BY <1>0, <2>1
  <2>5. Decoding /\ Decoding' /\ SomeEntry' = SomeEntry
    BY <2>1 DEF Decoding, SomeEntry, Reg!Used
  <2>6. \A i \in 1 .. Len(acks[cur]) :
          acks[cur][i][1] < seen /\ ~(acks[cur][i][2] /\ reply) /\ acks[cur][i][1] \in Nat
    BY <1>0, <2>1, <2>2 DEF Acks, AckKnown
  <2> HIDE DEF n
  <2>7. \A i \in 1 .. n : i \in 1 .. Len(acks[cur]) \/ i = n
    BY <2>3
  <2>8. \A i \in 1 .. n : AckKnown(cur, i)'
    <3> TAKE i \in 1 .. n
    <3>1. CASE i \in 1 .. Len(acks[cur])
      BY <1>0, <2>1, <2>2, <2>3, <2>5, <3>1 DEF Acks, AckKnown
    <3>2. CASE i = n
      BY <1>0, <2>1, <2>2, <2>3, <2>5, <3>2 DEF AckKnown
    <3> QED BY <2>7, <3>1, <3>2
  <2>9. \A c \in Clients : c # cur => \A i \in 1 .. Len(acks[c]) : AckKnown(c, i)'
    BY <1>0, <2>1, <2>4 DEF Acks, AckKnown
  <2>10. Acks'
    BY <1>0, <2>1, <2>3, <2>4, <2>8, <2>9 DEF Acks
  <2>11. \A i \in DOMAIN acks'[cur] : frames[cur][acks'[cur][i][1]].cmd = "REGISTER"
    <3>1. DOMAIN acks'[cur] = 1 .. n
      BY <1>0, <2>1, <2>2, <2>3
    <3> QED BY <2>1, <2>8, <3>1 DEF AckKnown
  <2>12. \A i, j \in 1 .. n :
           i < j => /\ acks'[cur][i][1] < acks'[cur][j][1]
                    /\ ~(acks'[cur][i][2] /\ acks'[cur][j][2])
    <3> SUFFICES ASSUME NEW i \in 1 .. n, NEW j \in 1 .. n, i < j
                 PROVE  /\ acks'[cur][i][1] < acks'[cur][j][1]
                        /\ ~(acks'[cur][i][2] /\ acks'[cur][j][2])
      OBVIOUS
    <3>1. i \in 1 .. Len(acks[cur]) /\ acks'[cur][i] = acks[cur][i]
      BY <2>3
    <3>2. CASE j = n
      BY <2>3, <2>6, <3>1, <3>2
    <3>3. CASE j # n
      <4>1. j \in 1 .. Len(acks[cur]) /\ acks'[cur][j] = acks[cur][j]
        BY <2>3, <2>7, <3>3
      <4>2. DOMAIN acks[cur] = 1 .. Len(acks[cur])
        BY <1>0, <2>2
      <4> QED BY <1>0, <2>2, <3>1, <4>1, <4>2 DEF AcksArePaired
    <3> QED BY <3>2, <3>3
  <2>13. DOMAIN acks'[cur] = 1 .. n
    BY <1>0, <2>1, <2>2, <2>3
  <2>14. ASSUME NEW c \in Clients
         PROVE  /\ \A i \in DOMAIN acks'[c] : frames'[c][acks'[c][i][1]].cmd = "REGISTER"
                /\ \A i, j \in DOMAIN acks'[c] :
                      i < j => /\ acks'[c][i][1] < acks'[c][j][1]
                               /\ ~(acks'[c][i][2] /\ acks'[c][j][2])
    <3>1. CASE c = cur
      BY <2>1, <2>11, <2>12, <2>13, <3>1
    <3>2. CASE c # cur
      BY <1>0, <2>1, <2>4, <3>2 DEF AcksArePaired
    <3> QED BY <3>1, <3>2
  <2> QED BY <2>10, <2>14 DEF AcksArePaired
<1>6. CASE DispatchHeartbeat \/ DispatchOther
  <2>1. /\ pc = "decode" /\ Complete /\ Consume /\ pc' # "ack"
        /\ UNCHANGED <<acks, frames, cur, cst, g_table>>
    BY <1>6 DEF DispatchHeartbeat, DispatchOther
  <2>2. seen' \in Nat /\ seen' >= seen
    BY <1>0, <2>1 DEF Consume
  <2>3. Decoding /\ (SomeEntry => SomeEntry')
    BY <2>1 DEF Decoding, SomeEntry, Reg!Used
  <2>4. Acks'
    BY <2>1, <2>2, <2>3, AcksKept
  <2> QED BY <1>0, <2>1, <2>4 DEF AcksArePaired
<1>7. CASE UpdateHeartbeat
  <2>1. /\ pc = "beat" /\ Reg!UpdateHeartbeat(fd, hb) /\ pc' = "decode"
        /\ UNCHANGED <<acks, frames, cur, cst, seen, now>>
    BY <1>7 DEF UpdateHeartbeat
  <2>2. fd \in Fds /\ hb \in 0 .. MaxTime
    BY <1>0, <2>1 DEF Connections, TypeOK
  <2>3. \A i \in Reg!Slots : Reg!Used(i)' = Reg!Used(i)
    BY <1>0, <2>1, <2>2, HeartbeatFacts
  <2>4. Decoding /\ (SomeEntry => SomeEntry')
    BY <2>1, <2>3 DEF Decoding, SomeEntry
  <2>5. Acks'
    BY <1>0, <2>1, <2>4, AcksKept
  <2> QED BY <1>0, <2>1, <2>5 DEF AcksArePaired
<1>8. CASE Recv \/ RecvEof \/ DecodeIncomplete \/ DecodeFatal \/ LoseAck \/ Unregister
  <2>1. pc' # "ack" /\ UNCHANGED <<acks, frames, cur, cst, seen>>
    BY <1>8 DEF Recv, RecvEof, DecodeIncomplete, DecodeFatal, LoseAck, Unregister
  <2>2. Decoding' => Decoding /\ UNCHANGED g_table
    BY <1>8 DEF Recv, RecvEof, DecodeIncomplete, DecodeFatal, LoseAck, Unregister, Decoding
  <2>3. UNCHANGED g_table => SomeEntry' = SomeEntry
    BY DEF SomeEntry, Reg!Used
  <2>4. seen' \in Nat /\ seen' >= seen
    BY <1>0, <2>1
  <2>5. Acks'
    BY <2>1, <2>2, <2>3, <2>4, AcksKept
  <2> QED BY <1>0, <2>1, <2>5 DEF AcksArePaired
<1>9. CASE Close
  <2>1. /\ cst' = [cst EXCEPT ![cur] = "closed"] /\ pc = "close" /\ pc' = "accept"
        /\ cur' = NoClient /\ UNCHANGED <<frames, acks>>
    BY <1>9 DEF Close
  <2>2. \A d \in Clients : d # cur => cst'[d] = cst[d]
    BY <1>0, <2>1
  <2>3. cur \in Clients => cst'[cur] = "closed"
    BY <1>0, <2>1
  <2>4. \A c \in Clients : \A i \in 1 .. Len(acks[c]) : AckKnown(c, i)'
    BY <1>0, <2>1 DEF Acks, AckKnown
  <2>5. Acks'
    BY <1>0, <2>1, <2>2, <2>3, <2>4 DEF Acks
  <2> QED BY <1>0, <2>1, <2>5 DEF AcksArePaired
<1>10. CASE Elsewhere
  BY <1>0, <1>10, ElsewhereFacts
     DEF Acks, AckKnown, SomeEntry, Decoding, Reg!Used, AcksArePaired
<1> QED BY <1>1, <1>2, <1>3, <1>4, <1>5, <1>6, <1>7, <1>8, <1>9, <1>10, StepCases DEF Serving

(****************************************************************************)
(* The theorems.                                                            *)
(****************************************************************************)
LEMMA InitIInv == Init => IInv
<1> SUFFICES ASSUME Init PROVE IInv
  OBVIOUS
<1>1. TypeOK
  BY InitType
<1>2. /\ \A c \in Clients : frames[c] = <<>> /\ stream[c] = <<>> /\ cst[c] = "new" /\ acks[c] = <<>>
      /\ backlog = <<>> /\ Len(backlog) = 0 /\ pc = "accept" /\ cur = NoClient /\ buf = <<>>
      /\ seen = 0 /\ hb = 0 /\ check = 0 /\ warned = {} /\ now = 0
      /\ g_table = [i \in Reg!Slots |-> Reg!NoEntry]
  BY DEF Init, Reg!Init
<1>3. Connections
  BY <1>2 DEF Connections
<1>4. Streams
  BY <1>2, CutNothing DEF Streams, Decoding
<1>5. Registered
  BY <1>2 DEF Registered, Reg!Used, Reg!NoEntry
<1>6. Acks /\ AcksArePaired
  <2>1. \A c \in Clients : Len(acks[c]) = 0 /\ DOMAIN acks[c] = {}
    BY <1>2
  <2> QED BY <1>2, <2>1 DEF Acks, AcksArePaired
<1>7. Clock /\ NoFalseAlarm /\ Echoed
  BY <1>2 DEF Init, Clock, NoFalseAlarm, Echoed
<1> QED BY <1>1, <1>3, <1>4, <1>5, <1>6, <1>7 DEF IInv

LEMMA IInvStep == IInv /\ [Next]_vars => IInv'
  BY TypeStep, ConnectionsStep, StreamsStep, RegisteredStep, AcksStep, EchoedStep,
     ClockStep, NoFalseAlarmStep DEF IInv

\* IInv is an inductive invariant.
THEOREM Inductive == Spec => []IInv
  BY InitIInv, IInvStep, PTL DEF Spec

\* Whatever clients connect, send and end, in whatever pieces it arrives, no
\* variable leaves its type; the receive buffer is never overrun.
THEOREM TypeCorrect == Spec => []TypeOK
  BY Inductive, PTL DEF IInv

\* memmove() and recv() leave the decoder at a frame boundary: it sees each frame
\* of the connection once, in order, and no other.
THEOREM AlwaysAligned == Spec => []DecoderAligned
<1>1. IInv => DecoderAligned
  <2> SUFFICES ASSUME IInv, pc \in {"recv", "decode"}, buf # <<>>
               PROVE  buf[1] = <<seen + 1, 1>>
    BY DEF DecoderAligned
  <2>1. Len(buf) > 0 /\ Decoding
    BY DEF IInv, TypeOK, Decoding
  <2> QED BY <2>1, AlignedFacts
<1> QED BY <1>1, Inductive, PTL

\* handle_client never meets a full buffer without a whole frame.
THEOREM NeverStuck == Spec => []BufferNeverStuck
<1>1. IInv => BufferNeverStuck
  <2> SUFFICES ASSUME IInv, pc = "decode", Incomplete, ~(Len(buf) < BUF_SIZE)
               PROVE  FALSE
    BY DEF BufferNeverStuck
  <2>1. /\ HDR_SIZE \in Nat /\ HDR_SIZE > 0 /\ MAX_PAYLOAD \in Nat /\ Len(buf) \in Nat
        /\ Len(buf) >= HDR_SIZE + MAX_PAYLOAD
    BY ProtoAssumption DEF IInv, TypeOK, BUF_SIZE
  <2>2. HaveHeader /\ Len(buf) > 0 /\ Decoding
    BY <2>1 DEF HaveHeader, Decoding
  <2>3. Header.len \in Nat
    BY <2>2, AlignedFacts, SizeFacts
  <2>4. Header.len <= MAX_PAYLOAD
    BY <2>1, <2>2, <2>3 DEF Incomplete, Fatal
  <2> QED BY <2>1, <2>2, <2>3, <2>4 DEF Incomplete, FrameSize
<1> QED BY <1>1, Inductive, PTL

\* The registry holds the client being served and no other.
THEOREM FollowsConnection == Spec => []RegistryFollowsConnection
<1>1. IInv => RegistryFollowsConnection
  BY DEF IInv, Registered, RegistryFollowsConnection, Reg!Snapshot
<1> QED BY <1>1, Inductive, PTL

\* proto_dispatch answers each REGISTER at most once, by its seq, in order, and
\* says ok to at most one of a connection.
THEOREM Paired == Spec => []AcksArePaired
  BY Inductive, PTL DEF IInv

\* No subprocess is called stale within TIMEOUT of a heartbeat the check has
\* seen, whenever the two threads read the clock.
THEOREM NeverFalse == Spec => []NoFalseAlarm
  BY Inductive, PTL DEF IInv

\* ipc_thread and the check use the registry as Registry says: the times it is
\* given were read from the clock and the descriptors are those of clients.
THEOREM RegistryUsed == Spec => Reg!Spec
<1>1. Init => Reg!Init
  BY DEF Init
<1>2. IInv /\ [Next]_vars => [Reg!Next]_(Reg!vars)
  <2> SUFFICES ASSUME IInv, [Next]_vars PROVE [Reg!Next]_(Reg!vars)
    OBVIOUS
  <2> USE DEF clients, ipc, main, reg
  <2>1. CASE DispatchRegister
    <3>1. pc = "decode" /\ Complete /\ now' = now
      BY <2>1 DEF DispatchRegister
    <3>2. CASE Parses(Header) /\ Reg!Register(fd, Header.id)
      <4>1. fd \in Fds /\ Header.id \in RawIds
        BY <3>1, <3>2, DecodeFacts, ClientAssumption DEF Parses
      <4> QED BY <3>1, <3>2, <4>1 DEF Reg!Next
    <3>3. CASE UNCHANGED g_table
      BY <3>1, <3>3 DEF Reg!vars
    <3> QED BY <2>1, <3>2, <3>3 DEF DispatchRegister
  <2>2. CASE UpdateHeartbeat
    <3>1. Reg!UpdateHeartbeat(fd, hb) /\ UNCHANGED now /\ pc = "beat"
      BY <2>2 DEF UpdateHeartbeat
    <3>2. fd \in Fds
      BY <3>1 DEF IInv, Connections
    <3>3. hb \in 0 .. now
      <4>1. hb \in 0 .. MaxTime /\ now \in 0 .. MaxTime /\ hb <= now
        BY DEF IInv, TypeOK, Reg!TypeOK, Clock
      <4> QED BY <4>1, ProtoAssumption
    <3> QED BY <3>1, <3>2, <3>3 DEF Reg!Next
  <2>3. CASE Unregister
    <3>1. Reg!Unregister(fd) /\ UNCHANGED now /\ pc = "unregister"
      BY <2>3 DEF Unregister
    <3>2. fd \in Fds
      BY <3>1 DEF IInv, Connections
    <3> QED BY <3>1, <3>2 DEF Reg!Next
  <2>4. CASE Tick
    BY <2>4 DEF Tick, Reg!Next, Reg!Tick
  <2>5. CASE \E c \in Clients : Connect(c) \/ Disconnect(c) \/ \E f \in FrameKinds : SendFrame(c, f)
    BY <2>5 DEF Connect, Disconnect, SendFrame, Reg!vars
  <2>6. CASE AcceptClient \/ Close \/ CheckBegins \/ Iterate \/ Report \/ UNCHANGED vars
    BY <2>6 DEF AcceptClient, Close, CheckBegins, Iterate, Report, vars, Reg!vars
  <2>7. CASE \/ Recv \/ RecvEof \/ DecodeIncomplete \/ DecodeFatal \/ SendAck \/ LoseAck
             \/ DispatchHeartbeat \/ DispatchOther
    BY <2>7 DEF Recv, RecvEof, DecodeIncomplete, DecodeFatal, SendAck, LoseAck,
                DispatchHeartbeat, DispatchOther, Reg!vars
  <2> QED BY <2>1, <2>2, <2>3, <2>4, <2>5, <2>6, <2>7, StepCases DEF Serving, Elsewhere
<1> QED BY <1>1, <1>2, Inductive, PTL DEF Spec, Reg!Spec
=============================================================================
