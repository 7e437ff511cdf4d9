----------------------------- MODULE MCForwarder -----------------------------
(* Configurations of Forwarder for TLC.                                     *)
EXTENDS Forwarder

Port(n, t)     == [name |-> n, type |-> t]
Route(s, d)    == [src |-> s, dst |-> d, handler |-> FALSE]
Filtered(s, d) == [src |-> s, dst |-> d, handler |-> TRUE]

\* A TCP listening port, a serial device and an outgoing connection.
MixedPorts  == <<Port("HOST", "tcp_server"), Port("UART", "tty"), Port("UPLINK", "tcp_client")>>
MixedRoutes == <<Route("HOST", "UART"), Route("UART", "UPLINK")>>

\* A TCP listening port and a serial device.
TcpPorts  == <<Port("HOST", "tcp_server"), Port("UART", "tty")>>

\* A Unix socket whose clients' data goes to a UDP port, through a plugin, and
\* back to the clients, as does what the UDP port receives.
IpcPorts  == <<Port("HOST", "ipc_server"), Port("NET", "udp")>>
IpcRoutes == <<Filtered("HOST", "NET"), Route("HOST", "HOST"), Route("NET", "HOST")>>

\* The device forwards to the hosts and hears nothing of them.
ToHostRoutes == <<Route("UART", "HOST")>>

ConnSymmetry == Permutations(Conns)
=============================================================================
