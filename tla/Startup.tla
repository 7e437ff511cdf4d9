------------------------------- MODULE Startup -------------------------------
(****************************************************************************)
(* How the daemon gets from config.json to the state Forwarder starts in:   *)
(* load_config (config_store.c), plugin_load (plugin_loader.c),             *)
(* ports_open_all (port_manager.c), and main's loop over reactor_add_port.  *)
(* All of it runs before the threads do.  save_config (config_store.c),     *)
(* which is to write g_config back for the next start, is exported but has  *)
(* no caller in this program; it is modelled as a call at any time later.   *)
(*                                                                          *)
(* A port of the file is its "type", its sub-object (path, address, baud    *)
(* rate and so on, taken as one value) and use_frame; port names are copied *)
(* both ways and left out.  A plugin is its path, and a route one value.    *)
(* Descriptor 0 is the daemon's standard input.                             *)
(****************************************************************************)
EXTENDS Integers, Sequences, FiniteSets, FiniteSetsExt, SequencesExt

CONSTANTS Configs,     \* what config.json may hold: [ports, plugins, routes]
          Confs,       \* values of a sub-object
          Blank,       \* all its fields empty or 0
          Missing,     \* no sub-object; no array, or something else instead
          NoConfig,    \* the file cannot be read or parsed
          MAX_PORTS,   \* entries of g_config.ports and of g_port_table
          MAX_PLUGINS, MAX_ROUTES,  \* entries of g_config.plugins and .routes
          MAX_HANDLERS,             \* entries of g_handlers
          Provides,    \* path of a library that dlopen can load -> the handlers
                       \* its constructor registers, in order
          NFds         \* descriptors the process may have open

ASSUME StartupAssumption ==
    /\ {MAX_PORTS, MAX_PLUGINS, MAX_ROUTES, MAX_HANDLERS, NFds} \subseteq Nat
    /\ NFds > 0
    /\ Provides \in [DOMAIN Provides -> Seq(STRING)]

\* The types load_config looks for, and those g_config has.
KnownTypes == {"tty", "tcp_server", "tcp_client", "udp", "usb", "ipc"}
PortTypes  == (KnownTypes \ {"ipc"}) \cup {"ipc_server"}

\* What cJSON makes of a file, so far as load_config looks at it.  A type may be
\* any string; the literals are named because tlapm does not know them as such.
FileTypes == STRING \cup PortTypes \cup {""}
FilePort  == [type : FileTypes, sub : Confs \cup {Blank, Missing}, use_frame : BOOLEAN]
FileRoute == [src : STRING, dst : STRING, handler : STRING]
File      == [ports : Seq(FilePort) \cup {Missing}, plugins : Seq(STRING) \cup {Missing},
              routes : Seq(FileRoute) \cup {Missing}]

ASSUME FileAssumption ==
    /\ Configs \subseteq File \cup {NoConfig} /\ NoConfig \notin File
    /\ Missing \notin Confs \cup {Blank}
    /\ Missing \notin Seq(FilePort) \cup Seq(STRING) \cup Seq(FileRoute)

VARIABLES file,        \* config.json
          ports,       \* g_config.ports[0 .. port_count - 1]
          plugins, routes, \* g_config.plugins and .routes, up to their counts
          handlers,    \* g_handlers: [name, from], up to g_handler_count
          fdt,         \* descriptor -> the port it was opened for
          table,       \* the used entries of g_port_table, in order
          epoll,       \* descriptor -> port registered for it
          pc, i,       \* where main is, and its loop index
          saved        \* g_config when save_config last wrote it, if the file
                       \* holds that

config == <<ports, plugins, routes>>
served == <<fdt, table, epoll>>
vars   == <<file, config, handlers, served, pc, i, saved>>

Fds    == 0 .. NFds - 1
Stdin  == 0
Daemon == 0            \* owner of standard input
Nobody == -1

PortDef    == [type : PortTypes, conf : Confs \cup {Blank}, use_frame : BOOLEAN,
               fd : Fds \cup {-1}]

TypeOK == /\ file \in File \cup {NoConfig}
          /\ ports \in Seq(PortDef) /\ Len(ports) <= MAX_PORTS
          /\ fdt \in [Fds -> -1 .. MAX_PORTS]
          /\ table \in Seq([fd : Fds, port : 1 .. MAX_PORTS])
          /\ epoll \in [Fds -> 0 .. MAX_PORTS]
          /\ plugins \in Seq(STRING) /\ Len(plugins) <= MAX_PLUGINS
          /\ routes \in Seq(FileRoute) /\ Len(routes) <= MAX_ROUTES
          /\ handlers \in Seq([name : STRING, from : DOMAIN Provides])
          /\ Len(handlers) <= MAX_HANDLERS
          /\ pc \in {"load", "plugins", "open", "add", "run"}
          /\ i \in 1 .. Max({MAX_PORTS, MAX_PLUGINS}) + 1
          /\ saved \in [ports : Seq(PortDef), plugins : Seq(STRING), routes : Seq(FileRoute)]
                      \cup {NoConfig}

(****************************************************************************)
(* load_config.                                                             *)
(****************************************************************************)

\* The body of the loop in parse_ports.  g_config was zeroed before, so an
\* unknown type leaves PORT_TTY, and the `continue` of a tty port without its
\* sub-object leaves descriptor 0.
ParsePort(item) ==
    [type      |-> IF item.type = "ipc" THEN "ipc_server"
                   ELSE IF item.type \in KnownTypes THEN item.type ELSE "tty",
     conf      |-> IF item.type \in KnownTypes /\ item.sub # Missing
                   THEN item.sub ELSE Blank,
     use_frame |-> item.use_frame,
     fd        |-> IF item.type = "tty" /\ item.sub = Missing THEN 0 ELSE -1]

\* An array is read up to the limit of its table; without an array the count
\* stays 0.
Parsed_NoLimit(items, limit) ==    \* variant: the size of the table is not checked
    IF items = Missing THEN <<>> ELSE items
Parsed(items, limit) ==
    IF items = Missing THEN <<>> ELSE SubSeq(items, 1, Min({Len(items), limit}))

ParsePorts(items) ==
    LET read == Parsed(items, MAX_PORTS) IN [k \in DOMAIN read |-> ParsePort(read[k])]

\* A file that cannot be loaded leaves main without ports, and it goes on.
LoadConfig ==
    /\ pc = "load"
    /\ \/ /\ file = NoConfig
          /\ ports' = <<>> /\ plugins' = <<>> /\ routes' = <<>>
          /\ pc' = "run"
       \/ /\ file # NoConfig
          /\ ports' = ParsePorts(file.ports)
          /\ plugins' = Parsed(file.plugins, MAX_PLUGINS)
          /\ routes' = Parsed(file.routes, MAX_ROUTES)
          /\ pc' = "plugins"
    /\ i' = 1
    /\ UNCHANGED <<file, handlers, served, saved>>

(****************************************************************************)
(* main: plugin_load for every plugin of g_config.                          *)
(****************************************************************************)

\* The constructor of the library calls plugin_register_handler, which does
\* nothing once g_handlers is full.
Registered(path) ==
    LET all == handlers \o [k \in DOMAIN Provides[path] |->
                               [name |-> Provides[path][k], from |-> path]]
    IN  SubSeq(all, 1, Min({Len(all), MAX_HANDLERS}))

\* dlopen of a library that is loaded already does not run its constructor.
Loaded == {plugins[k] : k \in 1 .. i - 1}

\* main ignores the result of plugin_load.
LoadPlugin_StopAtError ==          \* variant: the first plugin that fails ends the loop
    /\ pc = "plugins"
    /\ \/ /\ i <= Len(plugins) /\ plugins[i] \in DOMAIN Provides
          /\ handlers' = IF plugins[i] \in Loaded THEN handlers ELSE Registered(plugins[i])
          /\ i' = i + 1
          /\ UNCHANGED pc
       \/ /\ i <= Len(plugins) => plugins[i] \notin DOMAIN Provides
          /\ i' = 1
          /\ pc' = "open"
          /\ UNCHANGED handlers
    /\ UNCHANGED <<file, config, served, saved>>
LoadPlugin ==
    /\ pc = "plugins"
    /\ \/ /\ i <= Len(plugins)
          /\ handlers' = IF plugins[i] \in DOMAIN Provides \ Loaded
                         THEN Registered(plugins[i]) ELSE handlers
          /\ i' = i + 1
          /\ UNCHANGED pc
       \/ /\ i > Len(plugins)
          /\ i' = 1
          /\ pc' = "open"
          /\ UNCHANGED handlers
    /\ UNCHANGED <<file, config, served, saved>>

\* plugin_get_handler: the library whose function a route gets, if any.
GetHandler(name) ==
    LET found == {k \in DOMAIN handlers : handlers[k].name = name}
    IN  IF found = {} THEN Missing ELSE handlers[Min(found)].from

(****************************************************************************)
(* ports_open_all.                                                          *)
(****************************************************************************)
FreeFds == {fd \in Fds : fdt[fd] = Nobody}

\* Opened, or descriptors in spite of an error that the code ignores:
\* connect() of a tcp_client, bind() of a udp port.
MayOpen(p) == FreeFds # {} /\ ~(p.type \in {"tty", "usb"} /\ p.conf = Blank)
MayFail(p) == FreeFds = {} \/ p.type \notin {"tcp_client", "udp"}

OpenSucceeds ==
    /\ MayOpen(ports[i])
    /\ fdt' = [fdt EXCEPT ![Min(FreeFds)] = i]
    /\ ports' = [ports EXCEPT ![i].fd = Min(FreeFds)]

\* Nothing is open, or what is open is closed again; base.fd is not touched.
OpenFails_Leaks ==                 \* variant: the error path forgets close()
    /\ MayFail(ports[i])
    /\ fdt' = IF FreeFds = {} THEN fdt ELSE [fdt EXCEPT ![Min(FreeFds)] = i]
    /\ UNCHANGED ports
OpenFails ==
    /\ MayFail(ports[i])
    /\ UNCHANGED <<fdt, ports>>

OpenPort ==
    /\ pc = "open"
    /\ \/ /\ i <= Len(ports)
          /\ OpenSucceeds \/ OpenFails
          /\ i' = i + 1
          /\ UNCHANGED pc
       \/ /\ i > Len(ports)
          /\ i' = 1
          /\ pc' = "add"
          /\ UNCHANGED <<fdt, ports>>
    /\ UNCHANGED <<file, plugins, routes, handlers, table, epoll, saved>>

(****************************************************************************)
(* main: reactor_add_port for every port of g_config.                       *)
(****************************************************************************)

\* EPOLL_CTL_ADD fails for a descriptor that is in the set, and may fail for
\* standard input, which need not be pollable; the result is ignored.
Register(fd) ==
    \/ /\ epoll[fd] = 0
       /\ epoll' = [epoll EXCEPT ![fd] = i]
    \/ /\ epoll[fd] # 0 \/ fd = Stdin
       /\ UNCHANGED epoll

AddPort ==
    /\ pc = "add"
    /\ \/ /\ i <= Len(ports) /\ ports[i].fd < 0
          /\ i' = i + 1
          /\ UNCHANGED <<table, epoll, pc>>
       \/ /\ i <= Len(ports) /\ ports[i].fd >= 0
          /\ table' = IF Len(table) < MAX_PORTS
                      THEN Append(table, [fd |-> ports[i].fd, port |-> i])
                      ELSE table
          /\ Register(ports[i].fd)
          /\ i' = i + 1
          /\ UNCHANGED pc
       \/ /\ i > Len(ports)
          /\ i' = 1
          /\ pc' = "run"
          /\ UNCHANGED <<table, epoll>>
    /\ UNCHANGED <<file, config, handlers, fdt, saved>>

(****************************************************************************)
(* save_config, and the next start of the daemon.                           *)
(****************************************************************************)

\* The switch has no case for PORT_IPC_SERVER: such a port is written without
\* a type and a sub-object.  use_frame is not written (and nothing reads it).
SavePort_NoConf(p) ==              \* variant: the sub-object is left empty
    [type |-> p.type, sub |-> Blank, use_frame |-> FALSE]
SavePort(p) ==
    IF p.type = "ipc_server"
    THEN [type |-> "", sub |-> Missing, use_frame |-> FALSE]
    ELSE [type |-> p.type, sub |-> p.conf, use_frame |-> FALSE]

\* It does not look at the result of fopen: where that fails fwrite crashes, and
\* the next start, Restart, finds the file as it was.
SaveConfig ==
    /\ pc = "run"
    /\ file' = [ports   |-> [k \in DOMAIN ports |-> SavePort(ports[k])],
                plugins |-> plugins,
                routes  |-> routes]
    /\ saved' = [ports |-> ports, plugins |-> plugins, routes |-> routes]
    /\ UNCHANGED <<config, handlers, served, pc, i>>

\* fopen has emptied the file, and fwrite or fclose fails unnoticed: what is
\* there cannot be parsed.
SaveFails ==
    /\ pc = "run"
    /\ file' = NoConfig /\ saved' = NoConfig
    /\ UNCHANGED <<config, handlers, served, pc, i>>

\* A new process.
Fresh == [ports |-> <<>>, plugins |-> <<>>, routes |-> <<>>, handlers |-> <<>>,
          fdt   |-> [fd \in Fds |-> IF fd = Stdin THEN Daemon ELSE Nobody],
          table |-> <<>>, epoll |-> [fd \in Fds |-> 0]]

\* The process ends and is started again: nothing but the file is left.
Restart == /\ pc = "run"
           /\ ports' = Fresh.ports /\ plugins' = Fresh.plugins /\ routes' = Fresh.routes
           /\ handlers' = Fresh.handlers
           /\ fdt' = Fresh.fdt /\ table' = Fresh.table /\ epoll' = Fresh.epoll
           /\ pc' = "load" /\ i' = 1
           /\ UNCHANGED <<file, saved>>

-----------------------------------------------------------------------------
Init == /\ file \in Configs
        /\ saved = NoConfig
        /\ ports = Fresh.ports /\ plugins = Fresh.plugins /\ routes = Fresh.routes
        /\ handlers = Fresh.handlers
        /\ fdt = Fresh.fdt /\ table = Fresh.table /\ epoll = Fresh.epoll
        /\ pc = "load" /\ i = 1

Next == LoadConfig \/ LoadPlugin \/ OpenPort \/ AddPort \/ SaveConfig \/ SaveFails \/ Restart

Spec == Init /\ [][Next]_vars

(****************************************************************************)
(* Properties.                                                              *)
(****************************************************************************)

\* When the threads start, exactly the ports that were opened are in
\* g_port_table, in the order of the file, each with a descriptor of its own
\* and with its epoll registration; and no descriptor was opened for a port
\* and then lost.  (Entries with descriptor 0 come from the `continue` in
\* parse_ports and have no descriptor of their own.)
OpenedPortsServed ==
    pc = "run" =>
        /\ \A k \in DOMAIN table : table[k].fd # Stdin =>
               /\ fdt[table[k].fd] = table[k].port
               /\ epoll[table[k].fd] = table[k].port
        /\ \A j, k \in DOMAIN table : j < k => table[j].port < table[k].port
        /\ \A fd \in Fds : fdt[fd] > 0 =>
               \E k \in DOMAIN table : table[k] = [fd |-> fd, port |-> fdt[fd]]

\* The loadable libraries among the first n plugins, and all they provide.
Available(n) == {plugins[k] : k \in 1 .. n} \cap DOMAIN Provides
Supply(n)    == UNION {{path} \X DOMAIN Provides[path] : path \in Available(n)}

\* Once the plugins are loaded, a route's handler comes from the first plugin
\* of config.json that provides it, whichever of the plugins cannot be loaded
\* or are listed twice, if the plugins up to that one fit into g_handlers.  When
\* they do not, the handler may be missing, but it never comes from a later
\* plugin.  A handler no plugin provides is not found.  (The data of a route
\* whose handler is missing is forwarded as it is.)
HandlersResolve ==
    LET provides(name) == {k \in DOMAIN plugins :
            plugins[k] \in DOMAIN Provides /\ name \in ToSet(Provides[plugins[k]])}
    IN  pc \in {"open", "add", "run"} =>
            \A r \in DOMAIN routes :
                LET name  == routes[r].handler
                    first == Min(provides(name))
                    fits  == Cardinality(Supply(first)) <= MAX_HANDLERS
                IN  IF provides(name) = {} THEN GetHandler(name) = Missing
                    ELSE \/ GetHandler(name) = plugins[first]
                         \/ GetHandler(name) = Missing /\ ~fits

\* What save_config has written is enough for the next start to have the same
\* plugins, the same routes and the same ports, except for the ipc ports it has
\* no case for.
SavedConfigReloads ==
    pc = "plugins" /\ saved # NoConfig =>
        /\ plugins = saved.plugins
        /\ routes = saved.routes
        /\ Len(ports) = Len(saved.ports)
        /\ \A k \in DOMAIN ports : saved.ports[k].type # "ipc_server" =>
               /\ ports[k].type = saved.ports[k].type
               /\ ports[k].conf = saved.ports[k].conf
=============================================================================
