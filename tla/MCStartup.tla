------------------------------ MODULE MCStartup ------------------------------
(* Contents of config.json, and plugins, for TLC.                           *)
EXTENDS Startup

Item(t, s) == [type |-> t, sub |-> s, use_frame |-> TRUE]

\* Every way a port can be opened or fail to.
Items == {Item("tty", "x"), Item("tty", Missing), Item("udp", "x"),
          Item("tcp_server", "x"), Item("ipc", "x"), Item("nonsense", "x")}

\* Three libraries that share handlers, and one that cannot be loaded.  The
\* first two fill g_handlers; with the third, one of them is cut short or left
\* out, by the order they are listed in.
Libraries == {"filter.so", "mine.so", "extra.so"}
Paths     == Libraries \cup {"codec.so"}
Handlers  == [path \in Libraries |->
                 CASE path = "filter.so" -> <<"filter.up", "filter.down">>
                   [] path = "mine.so"   -> <<"filter.down", "mine.swap">>
                   [] path = "extra.so"  -> <<"mine.swap", "extra.one", "filter.up">>]

Route(h)   == [src |-> "A", dst |-> "B", handler |-> h]
SomeRoutes == {Missing, <<Route("filter.down"), Route("extra.one")>>,
               <<Route("mine.swap"), Route("codec.none"), Route("filter.up")>>,
               <<Route("filter.up")>>}

\* One port more than there is room for; one plugin more, and one route more.
AllConfigs ==
    {[ports |-> p, plugins |-> <<"filter.so">>, routes |-> Missing] :
        p \in UNION {[1 .. k -> Items] : k \in 0 .. 4}}
    \cup {[ports |-> <<Item("tty", "x")>>, plugins |-> l, routes |-> r] :
             l \in UNION {[1 .. k -> Paths] : k \in 0 .. 4}, r \in SomeRoutes}
    \cup {[ports |-> Missing, plugins |-> Missing, routes |-> Missing], NoConfig}
==============================================================================
