----------------------------- MODULE ControlPlane -----------------------------
(****************************************************************************)
(* The control plane: ipc_thread (ipc_server.c, proto_codec.c,              *)
(* proto_dispatcher.c), which serves one client connection at a time, and   *)
(* the main thread's heartbeat check (supervisor.c).  They share the        *)
(* registry, whose operations are those of module Registry.                 *)
(*                                                                          *)
(* A byte of a client's stream is a pair <<frame number, offset>>.  recv()  *)
(* returns any non-empty piece of what has arrived, so frames are split and *)
(* glued in every way.  Offset 1 .. HDR_SIZE of a frame is its header, in   *)
(* which magic, version, cmd, seq and payload_len stand; seq is taken to be *)
(* the frame's number.                                                      *)
(****************************************************************************)
EXTENDS Integers, Sequences, FiniteSets, FiniteSetsExt, SequencesExt

CONSTANTS Clients, Fds,  \* client processes; descriptors accept() may return
          NoClient,
          FrameKinds,    \* the frames a client may send: [cmd, magic, len, id]
          RawIds, NoId,  \* device_id values; NoId: the payload does not parse
          MAX_SUBPROCS,
          HDR_SIZE, MAX_PAYLOAD,   \* PROTO_HDR_SIZE, PROTO_MAX_PAYLOAD
          MAX_JSON,      \* 4096 in parse_register_json
          TIMEOUT,       \* HB_TIMEOUT_MS
          MODULUS,       \* 2^64: uint64_t arithmetic wraps here
          MaxFrames,     \* bound: frames all clients send together
          MaxTime        \* bound on the clock

ASSUME ProtoAssumption ==
    /\ {HDR_SIZE, MAX_PAYLOAD, MAX_JSON, TIMEOUT, MaxFrames, MaxTime} \subseteq Nat
    /\ HDR_SIZE > 0 /\ MAX_JSON <= MAX_PAYLOAD
    /\ MODULUS \in Nat /\ MODULUS > MaxTime + TIMEOUT
ASSUME ClientAssumption ==
    /\ NoClient \notin Clients
    /\ FrameKinds \subseteq [cmd : STRING, magic : BOOLEAN, len : Nat, id : RawIds \cup {NoId}]

BUF_SIZE == HDR_SIZE + MAX_PAYLOAD      \* IPC_RECV_BUF_SIZE

VARIABLES
    frames,    \* the frames each client has sent so far
    stream,    \* bytes sent and not received yet
    cst,       \* state of each client's connection
    backlog,   \* connections waiting for accept(), in order
    acks,      \* REGISTER_ACKs each client got: <<seq, ok>>
    pc,        \* where ipc_thread is
    cur, fd,   \* the client it serves, and client_fd
    buf,       \* handle_client's receive buffer
    seen,      \* history: frames of this connection dispatched so far
    seq,       \* seq of the header decoded last
    reply,     \* rc == 0 of the REGISTER being answered
    hb,        \* time read by registry_update_heartbeat before it locks
    mpc,       \* where the main thread is
    check,     \* now_ms of the running heartbeat check
    copied,    \* entries copied by registry_iterate
    warned,    \* entries the last check reported stale
    g_table, now

clients == <<frames, stream, cst, backlog, acks>>
ipc     == <<pc, cur, fd, buf, seen, seq, reply, hb>>
main    == <<mpc, check, copied, warned>>
reg     == <<g_table, now>>
vars    == <<clients, ipc, main, reg>>

Reg == INSTANCE Registry WITH DeviceIds <- RawIds, Trunc <- [id \in RawIds |-> id]

Cells == Nat \X Nat      \* frame number, offset

TypeOK ==
    /\ frames \in [Clients -> Seq(FrameKinds)]
    /\ stream \in [Clients -> Seq(Cells)]
    /\ cst \in [Clients -> {"new", "connected", "hup", "closed"}]
    /\ backlog \in Seq(Clients)
    /\ acks \in [Clients -> Seq(Nat \X BOOLEAN)]
    /\ pc \in {"accept", "recv", "decode", "ack", "beat", "unregister", "close"}
    /\ cur \in Clients \cup {NoClient}
    /\ fd \in Fds \cup {-1}
    /\ buf \in Seq(Cells) /\ Len(buf) <= BUF_SIZE
    /\ seen \in Nat /\ seq \in Nat
    /\ reply \in BOOLEAN
    /\ {hb, check} \subseteq 0 .. MaxTime
    /\ mpc \in {"sleep", "iterate", "report"}
    /\ {copied, warned} \subseteq SUBSET Reg!Entry
    /\ Reg!TypeOK

(****************************************************************************)
(* Client processes.                                                        *)
(****************************************************************************)
Connect(c) ==
    /\ cst[c] = "new"
    /\ cst' = [cst EXCEPT ![c] = "connected"]
    /\ backlog' = Append(backlog, c)
    /\ UNCHANGED <<frames, stream, acks, ipc, main, reg>>

FramesSent == MapThenSumSet(LAMBDA d : Len(frames[d]), Clients)

\* The bytes of a frame.
Bytes(number, f) == [i \in 1 .. HDR_SIZE + f.len |-> <<number, i>>]

SendFrame(c, f) ==
    /\ cst[c] = "connected"
    /\ FramesSent < MaxFrames
    /\ frames' = [frames EXCEPT ![c] = Append(@, f)]
    /\ stream' = [stream EXCEPT ![c] = @ \o Bytes(Len(frames[c]) + 1, f)]
    /\ UNCHANGED <<cst, backlog, acks, ipc, main, reg>>

Disconnect(c) ==
    /\ cst[c] = "connected"
    /\ cst' = [cst EXCEPT ![c] = "hup"]
    /\ UNCHANGED <<frames, stream, backlog, acks, ipc, main, reg>>

(****************************************************************************)
(* ipc_thread and handle_client.                                            *)
(****************************************************************************)
AcceptClient ==
    /\ pc = "accept" /\ backlog # <<>>
    /\ \E d \in Fds : fd' = d
    /\ cur' = Head(backlog)
    /\ backlog' = Tail(backlog)
    /\ pc' = "recv"
    /\ UNCHANGED <<frames, stream, cst, acks, buf, seen, seq, reply, hb, main, reg>>

\* n > 0: append to what the buffer still holds.
Recv_Overrun ==                     \* variant: asks for BUF_SIZE bytes every time
    /\ pc = "recv"
    /\ \E n \in 1 .. Min({Len(stream[cur]), BUF_SIZE}) :
         /\ buf' = buf \o SubSeq(stream[cur], 1, n)
         /\ stream' = [stream EXCEPT ![cur] = SubSeq(@, n + 1, Len(@))]
    /\ pc' = "decode"
    /\ UNCHANGED <<frames, cst, backlog, acks, cur, fd, seen, seq, reply, hb, main, reg>>
Recv ==
    /\ pc = "recv"
    /\ \E n \in 1 .. Min({Len(stream[cur]), BUF_SIZE - Len(buf)}) :
         /\ buf' = buf \o SubSeq(stream[cur], 1, n)
         /\ stream' = [stream EXCEPT ![cur] = SubSeq(@, n + 1, Len(@))]
    /\ pc' = "decode"
    /\ UNCHANGED <<frames, cst, backlog, acks, cur, fd, seen, seq, reply, hb, main, reg>>

\* n == 0, the client is gone; or n < 0.
RecvEof_Retry ==                    \* variant: tries again, as after EINTR
    /\ pc = "recv"
    /\ stream[cur] = <<>> /\ cst[cur] = "hup"
    /\ UNCHANGED vars
RecvEof ==
    /\ pc = "recv"
    /\ stream[cur] = <<>> /\ cst[cur] = "hup"
    /\ pc' = "unregister"
    /\ UNCHANGED <<clients, cur, fd, buf, seen, seq, reply, hb, main, reg>>

\* proto_decode.  A header that is read anywhere but at the start of a frame
\* has no magic.
Header == IF buf[1][2] = 1 THEN frames[cur][buf[1][1]]
          ELSE [cmd |-> "garbage", magic |-> FALSE, len |-> 0, id |-> NoId]
HeaderSeq == buf[1][1]

HaveHeader == Len(buf) >= HDR_SIZE
Fatal_AnyLength ==                  \* variant: payload_len is not checked
    HaveHeader /\ ~Header.magic
Fatal      == HaveHeader /\ (~Header.magic \/ Header.len > MAX_PAYLOAD)
FrameSize  == HDR_SIZE + (IF HaveHeader THEN Header.len ELSE 0)
Incomplete == ~Fatal /\ Len(buf) < FrameSize
Complete   == ~Fatal /\ Len(buf) >= FrameSize

\* PROTO_ERR_INCOMPLETE: receive more, unless the buffer is full.
DecodeIncomplete ==
    /\ pc = "decode" /\ Incomplete
    /\ pc' = IF Len(buf) = BUF_SIZE THEN "unregister" ELSE "recv"
    /\ UNCHANGED <<clients, cur, fd, buf, seen, seq, reply, hb, main, reg>>

\* BAD_MAGIC, BAD_VERSION, PAYLOAD_TOO_LARGE: drop the connection.
DecodeFatal ==
    /\ pc = "decode" /\ Fatal
    /\ buf' = <<>>
    /\ pc' = "unregister"
    /\ UNCHANGED <<clients, cur, fd, seen, seq, reply, hb, main, reg>>

\* A whole frame: memmove the rest of the buffer to the front.
Consume_HeaderOnly ==               \* variant: the payload is left in the buffer
    /\ buf' = SubSeq(buf, HDR_SIZE + 1, Len(buf))
    /\ seen' = seen + 1 /\ seq' = HeaderSeq
Consume ==
    /\ buf' = SubSeq(buf, FrameSize + 1, Len(buf))
    /\ seen' = seen + 1 /\ seq' = HeaderSeq

\* parse_register_json.
Parses(f) == f.len \in 1 .. MAX_JSON /\ f.id # NoId

\* proto_dispatch of PROTO_REGISTER: registry_register, then the ACK.
DispatchRegister ==
    /\ pc = "decode" /\ Complete /\ Header.cmd = "REGISTER"
    /\ \/ /\ Parses(Header) /\ Reg!Register(fd, Header.id)
          /\ reply' = TRUE
       \/ /\ ~(Parses(Header) /\ Reg!Admits(fd, Header.id))
          /\ reply' = FALSE
          /\ UNCHANGED g_table
    /\ Consume
    /\ pc' = "ack"
    /\ UNCHANGED <<clients, cur, fd, hb, main, now>>

\* send_register_ack: the whole ACK is written at once ...
SendAck_OwnSeq ==                   \* variant: numbers the ACKs itself
    /\ pc = "ack" /\ cst[cur] = "connected"
    /\ acks' = [acks EXCEPT ![cur] = Append(@, <<Len(@) + 1, reply>>)]
    /\ pc' = "decode"
    /\ UNCHANGED <<frames, stream, cst, backlog, cur, fd, buf, seen, seq, reply, hb, main, reg>>
SendAck_OneFrame ==                 \* variant: at most one frame per recv()
    /\ pc = "ack" /\ cst[cur] = "connected"
    /\ acks' = [acks EXCEPT ![cur] = Append(@, <<seq, reply>>)]
    /\ pc' = "recv"
    /\ UNCHANGED <<frames, stream, cst, backlog, cur, fd, buf, seen, seq, reply, hb, main, reg>>
SendAck ==
    /\ pc = "ack" /\ cst[cur] = "connected"
    /\ acks' = [acks EXCEPT ![cur] = Append(@, <<seq, reply>>)]
    /\ pc' = "decode"
    /\ UNCHANGED <<frames, stream, cst, backlog, cur, fd, buf, seen, seq, reply, hb, main, reg>>

\* ... or not at all, after EAGAIN nine times or EPIPE; either way
\* proto_dispatch returns 0 and the loop goes on.
LoseAck ==
    /\ pc = "ack"
    /\ pc' = "decode"
    /\ UNCHANGED <<clients, cur, fd, buf, seen, seq, reply, hb, main, reg>>

\* proto_dispatch of PROTO_HEARTBEAT: the time is read first ...
DispatchHeartbeat ==
    /\ pc = "decode" /\ Complete /\ Header.cmd = "HEARTBEAT"
    /\ hb' = now
    /\ Consume
    /\ pc' = "beat"
    /\ UNCHANGED <<clients, cur, fd, reply, main, reg>>

\* ... and stored under the mutex.
UpdateHeartbeat ==
    /\ pc = "beat"
    /\ Reg!UpdateHeartbeat(fd, hb)
    /\ pc' = "decode"
    /\ UNCHANGED <<clients, cur, fd, buf, seen, seq, reply, hb, main, now>>

\* The other commands are logged.
DispatchOther ==
    /\ pc = "decode" /\ Complete /\ Header.cmd \notin {"REGISTER", "HEARTBEAT"}
    /\ Consume
    /\ UNCHANGED <<clients, pc, cur, fd, reply, hb, main, reg>>

Unregister_Skipped ==               \* variant: the slot is not given back
    /\ pc = "unregister"
    /\ pc' = "close"
    /\ UNCHANGED <<clients, cur, fd, buf, seen, seq, reply, hb, main, reg>>
Unregister ==
    /\ pc = "unregister"
    /\ Reg!Unregister(fd)
    /\ pc' = "close"
    /\ UNCHANGED <<clients, cur, fd, buf, seen, seq, reply, hb, main, now>>

Close ==
    /\ pc = "close"
    /\ cst' = [cst EXCEPT ![cur] = "closed"]
    /\ stream' = [stream EXCEPT ![cur] = <<>>]
    /\ pc' = "accept"
    /\ cur' = NoClient /\ fd' = -1 /\ buf' = <<>> /\ seen' = 0
    /\ seq' = 0 /\ reply' = FALSE /\ hb' = 0
    /\ UNCHANGED <<frames, backlog, acks, main, reg>>

(****************************************************************************)
(* The main thread: supervisor_check_heartbeats once a second.              *)
(****************************************************************************)
CheckBegins ==
    /\ mpc = "sleep"
    /\ check' = now
    /\ mpc' = "iterate"
    /\ UNCHANGED <<clients, ipc, copied, warned, reg>>

\* registry_iterate(collect_cb).
Iterate ==
    /\ mpc = "iterate"
    /\ copied' = Reg!Snapshot
    /\ mpc' = "report"
    /\ UNCHANGED <<clients, ipc, check, warned, reg>>

\* uint64_t subtraction.
Age(e) == (check - e.last_heartbeat_ms) % MODULUS

\* A heartbeat newer than now_ms counts as fresh.
Stale_NoGuard(e) == Age(e) > TIMEOUT   \* variant: without that test
Stale(e) == check > e.last_heartbeat_ms /\ Age(e) > TIMEOUT

Report ==
    /\ mpc = "report"
    /\ warned' = {e \in copied : Stale(e)}
    /\ copied' = {}
    /\ mpc' = "sleep"
    /\ UNCHANGED <<clients, ipc, check, reg>>

Tick == /\ now < MaxTime
        /\ now' = now + 1
        /\ UNCHANGED <<clients, ipc, main, g_table>>

-----------------------------------------------------------------------------
Init ==
    /\ frames = [c \in Clients |-> <<>>]
    /\ stream = [c \in Clients |-> <<>>]
    /\ cst = [c \in Clients |-> "new"]
    /\ backlog = <<>>
    /\ acks = [c \in Clients |-> <<>>]
    /\ pc = "accept" /\ cur = NoClient /\ fd = -1 /\ buf = <<>> /\ seen = 0
    /\ seq = 0 /\ reply = FALSE /\ hb = 0
    /\ mpc = "sleep" /\ check = 0 /\ copied = {} /\ warned = {}
    /\ Reg!Init

IpcStep  == \/ AcceptClient \/ Recv \/ RecvEof
            \/ DecodeIncomplete \/ DecodeFatal
            \/ DispatchRegister \/ SendAck \/ LoseAck
            \/ DispatchHeartbeat \/ UpdateHeartbeat \/ DispatchOther
            \/ Unregister \/ Close

Next == \/ \E c \in Clients : Connect(c)
        \/ \E c \in Clients, f \in FrameKinds : SendFrame(c, f)
        \/ \E c \in Clients : Disconnect(c)
        \/ AcceptClient
        \/ Recv
        \/ RecvEof
        \/ DecodeIncomplete
        \/ DecodeFatal
        \/ DispatchRegister
        \/ SendAck
        \/ LoseAck
        \/ DispatchHeartbeat
        \/ UpdateHeartbeat
        \/ DispatchOther
        \/ Unregister
        \/ Close
        \/ CheckBegins
        \/ Iterate
        \/ Report
        \/ Tick

Spec == Init /\ [][Next]_vars

\* ipc_thread gets the processor.  Clients may do nothing for ever, and no promise
\* to them depends on main.  Every step of the thread changes ipc.
FairSpec == Spec /\ WF_ipc(IpcStep)

(****************************************************************************)
(* Properties.                                                              *)
(****************************************************************************)

\* However the stream is cut, the decoder stays at frame boundaries and sees
\* the frames of a connection one after the other: the buffer starts with the
\* first byte of the first frame that was not dispatched yet.
DecoderAligned == pc \in {"recv", "decode"} /\ buf # <<>> => buf[1] = <<seen + 1, 1>>

\* ipc_server.c calls it impossible in theory: the buffer is never full when
\* a frame is incomplete, so the connection of a correct client is not dropped.
BufferNeverStuck == pc = "decode" /\ Incomplete => Len(buf) < BUF_SIZE

\* The registry knows the client being served and no other, under the
\* descriptor it is served on; nothing is left of a connection once it is
\* closed, so that a client that gets the same descriptor starts afresh.
RegistryFollowsConnection ==
    \A e \in Reg!Snapshot : cur # NoClient /\ e.client_fd = fd /\ pc # "close"

\* Every ACK a client gets answers a REGISTER of its own, by its seq, in the
\* order sent, and at most one says ok.
AcksArePaired ==
    \A c \in Clients :
        /\ \A i \in DOMAIN acks[c] : frames[c][acks[c][i][1]].cmd = "REGISTER"
        /\ \A i, j \in DOMAIN acks[c] :
              i < j => /\ acks[c][i][1] < acks[c][j][1]
                       /\ ~(acks[c][i][2] /\ acks[c][j][2])

\* The check never calls a subprocess stale within TIMEOUT of a heartbeat it
\* has stored, even when the heartbeat is stored after now_ms was read and
\* the unsigned subtraction would wrap.
NoFalseAlarm == \A e \in warned : e.last_heartbeat_ms + TIMEOUT < check

\* Every frame of the client being served is dispatched, its REGISTER among them,
\* or the connection is dropped.
ServedClientAnswered ==
    (cur # NoClient) ~> (cur = NoClient \/ seen = Len(frames[cur]))

\* One connection is served at a time, but a client that has to wait is served
\* in the end, if none of those served before it stays connected for ever.
WaitingClientServed ==
    []<>(cur = NoClient \/ cst[cur] # "connected")
        => \A c \in Clients : (c \in ToSet(backlog)) ~> (cur = c)
=============================================================================
