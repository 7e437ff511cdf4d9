--------------------------- MODULE MCControlPlane ---------------------------
(* Frame sets for TLC.                                                      *)
EXTENDS ControlPlane

Frame(cmd, len, id) == [cmd |-> cmd, magic |-> TRUE, len |-> len, id |-> id]
Alien               == [cmd |-> "old", magic |-> FALSE, len |-> 0, id |-> NoId]

\* Every length that matters: none, which is no REGISTER; what a REGISTER may
\* have; the most the protocol allows, and more.
StreamKinds == {Frame("REGISTER", 0, NoId), Frame("REGISTER", 1, "a"),
                Frame("HEARTBEAT", 0, NoId),
                Frame("DATA", 2, NoId), Frame("DATA", 3, NoId), Alien}
=============================================================================
