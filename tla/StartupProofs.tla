---------------------------- MODULE StartupProofs ----------------------------
(****************************************************************************)
(* Proofs about Startup for every config.json, every size of the tables and *)
(* every number of descriptors, and any number of restarts.                 *)
(****************************************************************************)
EXTENDS Startup, FiniteSetTheorems, WellFoundedInduction, TLAPS

(****************************************************************************)
(* The inductive invariant.                                                 *)
(****************************************************************************)

\* A descriptor above standard input belongs to the port that has it.
Owned == /\ fdt[Stdin] = Daemon
         /\ \A k \in 1 .. Len(ports) : ports[k].fd > 0 => fdt[ports[k].fd] = k
         /\ \A fd \in Fds : fdt[fd] > 0 =>
               fdt[fd] \in 1 .. Len(ports) /\ ports[fdt[fd]].fd = fd

Loading == pc \in {"load", "plugins"} =>
    /\ fdt = Fresh.fdt /\ table = <<>> /\ epoll = Fresh.epoll
    /\ \A k \in 1 .. Len(ports) : ports[k].fd <= 0

Opening == pc = "open" =>
    /\ Owned /\ table = <<>> /\ epoll = Fresh.epoll
    /\ \A k \in 1 .. Len(ports) : k >= i => ports[k].fd <= 0

\* The ports before the i-th are in the table, if they have a descriptor, and
\* registered.
Added == /\ Len(table) < i
         /\ \A k \in 1 .. Len(table) :
               /\ table[k].port < i /\ table[k].port \in 1 .. Len(ports)
               /\ table[k].fd = ports[table[k].port].fd
               /\ table[k].fd # Stdin => epoll[table[k].fd] = table[k].port
         /\ \A j, k \in 1 .. Len(table) : j < k => table[j].port < table[k].port
         /\ \A p \in 1 .. Len(ports) : p < i /\ ports[p].fd >= 0 =>
               \E k \in 1 .. Len(table) : table[k].port = p
         /\ \A fd \in Fds : fd # Stdin /\ epoll[fd] # 0 => epoll[fd] < i /\ epoll[fd] = fdt[fd]
Adding == pc = "add" => Owned /\ Added

\* config.json is what was saved last.
FileIsSaved == saved # NoConfig =>
    /\ file \in File
    /\ Len(saved.ports) <= MAX_PORTS
    /\ Len(saved.plugins) <= MAX_PLUGINS /\ Len(saved.routes) <= MAX_ROUTES
    /\ file.ports = [k \in 1 .. Len(saved.ports) |-> SavePort(saved.ports[k])]
    /\ file.plugins = saved.plugins /\ file.routes = saved.routes

Tables == Loading /\ Opening /\ Adding /\ OpenedPortsServed

\* The plugins main has called plugin_load for.
Done == IF pc = "plugins" THEN i - 1 ELSE Len(plugins)

Provided(path, name) == \E m \in 1 .. Len(Provides[path]) : Provides[path][m] = name

\* g_handlers holds handlers of those plugins, those of an earlier plugin first.
Origins ==
    /\ \A k \in 1 .. Len(handlers) :
          handlers[k].from \in Available(Done) /\ Provided(handlers[k].from, handlers[k].name)
    /\ \A j, k \in 1 .. Len(handlers), b \in 1 .. Done :
          j <= k /\ plugins[b] = handlers[k].from => \E a \in 1 .. b : plugins[a] = handlers[j].from

\* It holds all that the first n plugins provide.
Present(n) == \A path \in Available(n) : \A m \in 1 .. Len(Provides[path]) :
    \E k \in 1 .. Len(handlers) : handlers[k].name = Provides[path][m] /\ handlers[k].from = path

\* It is full, or holds all; it holds what there is room for from the start; and
\* a plugin has entries only if all those before it are complete.
Complete ==
    /\ Len(handlers) <= Cardinality(Supply(Done))
    /\ Len(handlers) < MAX_HANDLERS => Present(Done)
    /\ \A n \in 0 .. Done : Cardinality(Supply(n)) <= MAX_HANDLERS => Present(n)
    /\ \A n \in 1 .. Done, k \in 1 .. Len(handlers) :
          (\A a \in 1 .. n : plugins[a] # handlers[k].from) => Present(n)

Plugged == /\ Done \in 0 .. Len(plugins)
           /\ pc = "load" => plugins = <<>> /\ handlers = <<>>
           /\ IsFiniteSet(Supply(Done)) /\ Origins /\ Complete

IInv == /\ TypeOK
        /\ Tables
        /\ Plugged
        /\ FileIsSaved /\ SavedConfigReloads

(****************************************************************************)
(* Lemmas about the constants and operators.                                *)
(****************************************************************************)
LEMMA Consts ==
    /\ {MAX_PORTS, MAX_PLUGINS, MAX_ROUTES, MAX_HANDLERS, NFds} \subseteq Nat
    /\ Fds \subseteq Nat /\ Stdin \in Fds /\ Nobody \notin Fds
    /\ NoConfig \notin File
  BY StartupAssumption, FileAssumption DEF Fds, Stdin, Nobody

LEMMA PairFacts ==
    ASSUME NEW a \in Nat, NEW b \in Nat
    PROVE  /\ Min({a, b}) \in Nat /\ Min({a, b}) <= a /\ Min({a, b}) <= b
           /\ a <= b => Min({a, b}) = a
           /\ b <= a => Min({a, b}) = b
           /\ Max({a, b}) \in Nat /\ Max({a, b}) >= a /\ Max({a, b}) >= b
<1>1. \E x \in {a, b} : \A y \in {a, b} : x <= y
  OBVIOUS
<1>2. \E x \in {a, b} : \A y \in {a, b} : x >= y
  OBVIOUS
<1>3. Min({a, b}) \in {a, b} /\ \A y \in {a, b} : Min({a, b}) <= y
  BY <1>1 DEF Min
<1>4. Max({a, b}) \in {a, b} /\ \A y \in {a, b} : Max({a, b}) >= y
  BY <1>2 DEF Max
<1> QED BY <1>3, <1>4

LEMMA LeastNat ==
    ASSUME NEW T \in SUBSET Nat, T # {}
    PROVE  \E x \in T : \A y \in T : x <= y
<1> DEFINE R == {ss \in Nat \X Nat : ss[1] < ss[2]}
<1>1. IsWellFoundedOn(R, Nat)
  BY NatLessThanWellFounded DEF OpToRel
<1>2. PICK x \in T : \A y \in T : <<y, x>> \notin R
  <2> HIDE DEF R
  <2> QED BY <1>1, WFMin
<1>3. ASSUME NEW y \in T PROVE x <= y
  <2>1. <<y, x>> \in Nat \X Nat /\ <<y, x>> \notin R
    BY <1>2
  <2>2. ~(y < x)
    BY <2>1
  <2> QED BY <2>2
<1> QED BY <1>3

\* POSIX: the descriptor given out was free.
LEMMA FreeFdFacts ==
    ASSUME FreeFds # {}
    PROVE  Min(FreeFds) \in Fds /\ fdt[Min(FreeFds)] = Nobody
<1>1. FreeFds \in SUBSET Nat
  BY Consts DEF FreeFds
<1>2. Min(FreeFds) \in FreeFds
  BY <1>1, LeastNat DEF Min
<1> QED BY <1>2 DEF FreeFds

\* The longest beginning of a sequence that has room.
LEMMA PrefixFacts ==
    ASSUME NEW S, NEW s \in Seq(S), NEW limit \in Nat
    PROVE  LET t == SubSeq(s, 1, Min({Len(s), limit})) IN
           /\ t \in Seq(S) /\ Len(t) <= limit
           /\ Len(s) <= limit => t = s
           /\ limit <= Len(s) => Len(t) = limit
           /\ Len(t) <= Len(s) /\ \A k \in 1 .. Len(t) : t[k] = s[k]
<1> DEFINE m == Min({Len(s), limit})
<1>1. /\ m \in Nat /\ m <= Len(s) /\ m <= limit
      /\ Len(s) <= limit => m = Len(s)
      /\ limit <= Len(s) => m = limit
  BY PairFacts
<1> HIDE DEF m
<1>2. SubSeq(s, 1, m) \in Seq(S) /\ Len(SubSeq(s, 1, m)) = m
  BY <1>1
<1>3. m = Len(s) => SubSeq(s, 1, m) = s
  BY <1>1
<1>4. /\ SubSeq(s, 1, m) \in Seq(S) /\ Len(SubSeq(s, 1, m)) <= limit
      /\ Len(s) <= limit => SubSeq(s, 1, m) = s
      /\ limit <= Len(s) => Len(SubSeq(s, 1, m)) = limit
      /\ Len(SubSeq(s, 1, m)) <= Len(s)
  BY <1>1, <1>2, <1>3
<1>5. \A k \in 1 .. Len(SubSeq(s, 1, m)) : SubSeq(s, 1, m)[k] = s[k]
  BY <1>1, <1>2
<1> QED BY <1>4, <1>5 DEF m

LEMMA ParsedFacts ==
    ASSUME NEW S, Missing \notin Seq(S), NEW items \in Seq(S) \cup {Missing}, NEW limit \in Nat
    PROVE  /\ Parsed(items, limit) \in Seq(S) /\ Len(Parsed(items, limit)) <= limit
           /\ items # Missing /\ Len(items) <= limit => Parsed(items, limit) = items
<1>1. CASE items = Missing
  BY <1>1 DEF Parsed
<1>2. CASE items # Missing
  BY <1>2, PrefixFacts DEF Parsed
<1> QED BY <1>1, <1>2

\* What parse_ports makes of an item; descriptor 0 at most.
LEMMA ParsePortFacts ==
    ASSUME NEW item \in FilePort
    PROVE  ParsePort(item) \in PortDef /\ ParsePort(item).fd <= 0
<1>1. /\ item.sub # Missing => item.sub \in Confs \cup {Blank}
      /\ item.use_frame \in BOOLEAN
  BY DEF FilePort
<1>2. 0 \in Fds
  BY Consts DEF Stdin
<1>3. ParsePort(item).fd \in {0, -1}
  BY DEF ParsePort
<1>4. ParsePort(item).type \in PortTypes
  BY DEF ParsePort, PortTypes, KnownTypes
<1>5. ParsePort(item).conf \in Confs \cup {Blank}
  BY <1>1 DEF ParsePort
<1>6. ParsePort(item) = [type |-> ParsePort(item).type, conf |-> ParsePort(item).conf,
                         use_frame |-> item.use_frame, fd |-> ParsePort(item).fd]
  BY DEF ParsePort
<1>7. ParsePort(item) \in PortDef
  BY <1>1, <1>2, <1>3, <1>4, <1>5, <1>6 DEF PortDef
<1> QED BY <1>3, <1>7

LEMMA ParsePortsFacts ==
    ASSUME NEW items \in Seq(FilePort) \cup {Missing}
    PROVE  /\ ParsePorts(items) \in Seq(PortDef) /\ Len(ParsePorts(items)) <= MAX_PORTS
           /\ Len(ParsePorts(items)) = Len(Parsed(items, MAX_PORTS))
           /\ \A k \in 1 .. Len(ParsePorts(items)) :
                 /\ ParsePorts(items)[k] = ParsePort(Parsed(items, MAX_PORTS)[k])
                 /\ ParsePorts(items)[k].fd <= 0
<1> DEFINE read == Parsed(items, MAX_PORTS)
<1>0. Missing \notin Seq(FilePort) /\ MAX_PORTS \in Nat
  BY Consts, FileAssumption
<1>1. read \in Seq(FilePort) /\ Len(read) <= MAX_PORTS
  BY <1>0, ParsedFacts
<1>2. ParsePorts(items) = [k \in 1 .. Len(read) |-> ParsePort(read[k])]
  BY <1>1 DEF ParsePorts
<1> HIDE DEF read
<1>3. \A k \in 1 .. Len(read) : ParsePort(read[k]) \in PortDef /\ ParsePort(read[k]).fd <= 0
  BY <1>1, ParsePortFacts
<1>4. ParsePorts(items) \in Seq(PortDef) /\ Len(ParsePorts(items)) = Len(read)
  BY <1>1, <1>2, <1>3
<1> QED BY <1>1, <1>2, <1>3, <1>4 DEF read

\* save_config writes what a FilePort is, and parse_ports reads it back, but
\* for an ipc port.
LEMMA SavePortFacts ==
    ASSUME NEW p \in PortDef
    PROVE  /\ SavePort(p) \in FilePort
           /\ p.type # "ipc_server" => /\ ParsePort(SavePort(p)).type = p.type
                                       /\ ParsePort(SavePort(p)).conf = p.conf
<1>1. p.type \in PortTypes /\ p.conf \in Confs \cup {Blank}
  BY DEF PortDef
<1>2. SavePort(p) \in FilePort
  <2>1. /\ SavePort(p).type \in FileTypes /\ SavePort(p).sub \in Confs \cup {Blank, Missing}
        /\ SavePort(p).use_frame \in BOOLEAN
    BY <1>1 DEF SavePort, FileTypes
  <2>2. SavePort(p) = [type |-> SavePort(p).type, sub |-> SavePort(p).sub,
                       use_frame |-> SavePort(p).use_frame]
    BY DEF SavePort
  <2> QED BY <2>1, <2>2 DEF FilePort
<1>3. ASSUME p.type # "ipc_server"
      PROVE  ParsePort(SavePort(p)).type = p.type /\ ParsePort(SavePort(p)).conf = p.conf
  <2>1. p.conf # Missing
    BY <1>1, FileAssumption
  <2>2. p.type \in KnownTypes /\ p.type # "ipc"
    BY <1>1, <1>3 DEF PortTypes
  <2>3. SavePort(p).type = p.type /\ SavePort(p).sub = p.conf
    BY <1>3 DEF SavePort
  <2> QED BY <2>1, <2>2, <2>3 DEF ParsePort
<1> QED BY <1>2, <1>3

\* g_handlers after the constructor of a library: what it held, and as many of
\* the library's handlers as there is room for.
LEMMA RegisteredFacts ==
    ASSUME handlers \in Seq([name : STRING, from : DOMAIN Provides]),
           Len(handlers) <= MAX_HANDLERS, NEW path \in DOMAIN Provides
    PROVE  LET reg == Registered(path)
               sum == Len(handlers) + Len(Provides[path])
           IN  /\ reg \in Seq([name : STRING, from : DOMAIN Provides])
               /\ Len(reg) <= MAX_HANDLERS /\ Len(handlers) <= Len(reg) /\ Len(reg) <= sum
               /\ Len(reg) < MAX_HANDLERS => Len(reg) = sum
               /\ sum <= MAX_HANDLERS => Len(reg) = sum
               /\ \A k \in 1 .. Len(reg) :
                     IF k <= Len(handlers) THEN reg[k] = handlers[k]
                     ELSE /\ k - Len(handlers) \in 1 .. Len(Provides[path])
                          /\ reg[k].name = Provides[path][k - Len(handlers)]
                          /\ reg[k].from = path
<1> DEFINE H == [name : STRING, from : DOMAIN Provides]
           L == Len(Provides[path])
           new == [k \in DOMAIN Provides[path] |-> [name |-> Provides[path][k], from |-> path]]
<1>1. Provides[path] \in Seq(STRING) /\ DOMAIN Provides[path] = 1 .. L /\ L \in Nat
  BY StartupAssumption
<1>2. new \in Seq(H) /\ Len(new) = L
  <2>1. \A k \in 1 .. L : [name |-> Provides[path][k], from |-> path] \in H
    BY <1>1
  <2> HIDE DEF H
  <2> QED BY <1>1, <2>1
<1>3. \A k \in 1 .. L : new[k].name = Provides[path][k] /\ new[k].from = path
  BY <1>1
<1> HIDE DEF H, L, new
<1> DEFINE all == handlers \o new
<1>4. handlers \in Seq(H) /\ Len(handlers) \in Nat
  BY DEF H
<1>5. /\ all \in Seq(H) /\ Len(all) = Len(handlers) + L
      /\ \A k \in 1 .. Len(all) :
            all[k] = IF k <= Len(handlers) THEN handlers[k] ELSE new[k - Len(handlers)]
  BY <1>1, <1>2, <1>4
<1>6. MAX_HANDLERS \in Nat
  BY Consts
<1>7. Registered(path) = SubSeq(all, 1, Min({Len(all), MAX_HANDLERS}))
  BY DEF Registered, new
<1> HIDE DEF all
<1> DEFINE reg == SubSeq(all, 1, Min({Len(all), MAX_HANDLERS}))
<1>8. /\ reg \in Seq(H) /\ Len(reg) <= MAX_HANDLERS /\ Len(reg) <= Len(all)
      /\ Len(all) <= MAX_HANDLERS => reg = all
      /\ MAX_HANDLERS <= Len(all) => Len(reg) = MAX_HANDLERS
      /\ \A k \in 1 .. Len(reg) : reg[k] = all[k]
  BY <1>5, <1>6, PrefixFacts
<1> HIDE DEF reg
<1>9. ASSUME NEW k \in 1 .. Len(reg)
      PROVE  IF k <= Len(handlers) THEN reg[k] = handlers[k]
             ELSE /\ k - Len(handlers) \in 1 .. L
                  /\ reg[k].name = Provides[path][k - Len(handlers)]
                  /\ reg[k].from = path
  <2>1. Len(reg) \in Nat /\ k \in 1 .. Len(all)
    BY <1>1, <1>4, <1>5, <1>8
  <2>2. reg[k] = IF k <= Len(handlers) THEN handlers[k] ELSE new[k - Len(handlers)]
    BY <1>5, <1>8, <2>1
  <2>3. ~(k <= Len(handlers)) => k - Len(handlers) \in 1 .. L
    BY <1>1, <1>4, <1>5, <2>1
  <2> QED BY <1>3, <2>2, <2>3
<1>10. Registered(path) = reg
  BY <1>7 DEF reg
<1>11. /\ reg \in Seq(H) /\ Len(reg) <= MAX_HANDLERS /\ Len(reg) <= Len(handlers) + L
       /\ Len(handlers) <= Len(reg)
       /\ Len(reg) < MAX_HANDLERS => Len(reg) = Len(handlers) + L
       /\ Len(handlers) + L <= MAX_HANDLERS => Len(reg) = Len(handlers) + L
  <2>1. Len(all) <= MAX_HANDLERS \/ Len(reg) = MAX_HANDLERS
    BY <1>1, <1>4, <1>5, <1>6, <1>8
  <2> QED BY <1>1, <1>4, <1>5, <1>6, <1>8, <2>1
<1> QED BY <1>9, <1>10, <1>11 DEF H, L

(****************************************************************************)
(* Types.                                                                   *)
(****************************************************************************)
Limit == Max({MAX_PORTS, MAX_PLUGINS})

LEMMA LimitFacts == Limit \in Nat /\ MAX_PORTS <= Limit /\ MAX_PLUGINS <= Limit
  BY Consts, PairFacts DEF Limit

LEMMA FreshType ==
    /\ Fresh.fdt \in [Fds -> -1 .. MAX_PORTS] /\ Fresh.epoll \in [Fds -> 0 .. MAX_PORTS]
    /\ Fresh.fdt = [fd \in Fds |-> IF fd = Stdin THEN Daemon ELSE Nobody]
    /\ Fresh.epoll = [fd \in Fds |-> 0]
    /\ Fresh.ports = <<>> /\ Fresh.plugins = <<>> /\ Fresh.routes = <<>>
    /\ Fresh.handlers = <<>> /\ Fresh.table = <<>>
  BY Consts DEF Fresh, Daemon, Nobody

LEMMA InitType == Init => TypeOK
<1> SUFFICES ASSUME Init PROVE TypeOK
  OBVIOUS
<1>1. file \in File \cup {NoConfig}
  BY FileAssumption DEF Init
<1>2. i \in 1 .. Limit + 1
  BY LimitFacts DEF Init
<1> QED BY <1>1, <1>2, FreshType, Consts DEF Init, TypeOK, Limit

LEMMA LoadConfigType == ASSUME TypeOK, LoadConfig PROVE TypeOK'
<1>1. i' \in 1 .. Limit + 1
  BY LimitFacts DEF LoadConfig
<1>2. /\ ports' \in Seq(PortDef) /\ Len(ports') <= MAX_PORTS
      /\ plugins' \in Seq(STRING) /\ Len(plugins') <= MAX_PLUGINS
      /\ routes' \in Seq(FileRoute) /\ Len(routes') <= MAX_ROUTES
  <2>1. CASE file = NoConfig
    <3>1. ports' = <<>> /\ plugins' = <<>> /\ routes' = <<>>
      BY <2>1 DEF LoadConfig
    <3> QED BY <3>1, Consts
  <2>2. CASE file # NoConfig
    <3>1. /\ file.ports \in Seq(FilePort) \cup {Missing}
          /\ file.plugins \in Seq(STRING) \cup {Missing}
          /\ file.routes \in Seq(FileRoute) \cup {Missing}
      BY <2>2 DEF TypeOK, File
    <3>2. Missing \notin Seq(STRING) /\ Missing \notin Seq(FileRoute)
      BY FileAssumption
    <3>3. /\ ports' = ParsePorts(file.ports)
          /\ plugins' = Parsed(file.plugins, MAX_PLUGINS)
          /\ routes' = Parsed(file.routes, MAX_ROUTES)
      BY <2>2 DEF LoadConfig
    <3>4. plugins' \in Seq(STRING) /\ Len(plugins') <= MAX_PLUGINS
      BY <3>1, <3>2, <3>3, ParsedFacts, Consts
    <3>5. routes' \in Seq(FileRoute) /\ Len(routes') <= MAX_ROUTES
      BY <3>1, <3>2, <3>3, ParsedFacts, Consts
    <3> QED BY <3>1, <3>3, <3>4, <3>5, ParsePortsFacts
  <2> QED BY <2>1, <2>2
<1>3. pc' \in {"run", "plugins"} /\ UNCHANGED <<file, handlers, served, saved>>
  BY DEF LoadConfig
<1> QED BY <1>1, <1>2, <1>3 DEF TypeOK, Limit, served

LEMMA LoadPluginType == ASSUME TypeOK, LoadPlugin PROVE TypeOK'
<1>1. i \in Nat /\ i >= 1 /\ Len(plugins) <= MAX_PLUGINS /\ Len(plugins) \in Nat
  BY DEF TypeOK
<1>2. i' \in 1 .. Limit + 1
  BY <1>1, LimitFacts, Consts DEF LoadPlugin
<1>3. /\ handlers' \in Seq([name : STRING, from : DOMAIN Provides])
      /\ Len(handlers') <= MAX_HANDLERS
  <2>1. CASE handlers' = handlers
    BY <2>1 DEF TypeOK
  <2>2. CASE plugins[i] \in DOMAIN Provides /\ handlers' = Registered(plugins[i])
    BY <2>2, RegisteredFacts DEF TypeOK
  <2> QED BY <2>1, <2>2 DEF LoadPlugin
<1>4. pc' \in {pc, "open"} /\ UNCHANGED <<file, config, served, saved>>
  BY DEF LoadPlugin
<1> QED BY <1>2, <1>3, <1>4 DEF TypeOK, Limit, config, served

\* Every effect of ports_open_all on one port.
LEMMA OpenSucceedsFacts ==
    ASSUME TypeOK, i \in 1 .. Len(ports), OpenSucceeds
    PROVE  \E fd \in Fds :
               /\ fdt[fd] = Nobody
               /\ fdt' = [fdt EXCEPT ![fd] = i]
               /\ ports' \in Seq(PortDef) /\ Len(ports') = Len(ports)
               /\ \A k \in 1 .. Len(ports) : ports'[k].fd = IF k = i THEN fd ELSE ports[k].fd
<1> DEFINE fd == Min(FreeFds)
<1>1. fd \in Fds /\ fdt[fd] = Nobody
  BY FreeFdFacts DEF OpenSucceeds, MayOpen
<1>2. fdt' = [fdt EXCEPT ![fd] = i] /\ ports' = [ports EXCEPT ![i].fd = fd]
  BY DEF OpenSucceeds
<1> HIDE DEF fd
<1>3. ports \in Seq(PortDef) /\ ports[i] \in PortDef
  BY DEF TypeOK
<1> DEFINE r == [ports[i] EXCEPT !.fd = fd]
<1>4. r \in PortDef /\ r.fd = fd
  BY <1>1, <1>3 DEF PortDef
<1>5. ports' = [ports EXCEPT ![i] = r]
  BY <1>2
<1> HIDE DEF r
<1>6. ports' \in Seq(PortDef) /\ Len(ports') = Len(ports)
  BY <1>3, <1>4, <1>5
<1>7. \A k \in 1 .. Len(ports) : ports'[k].fd = IF k = i THEN fd ELSE ports[k].fd
  BY <1>3, <1>4, <1>5
<1> QED BY <1>1, <1>2, <1>6, <1>7

LEMMA OpenPortType == ASSUME TypeOK, OpenPort PROVE TypeOK'
<1>1. i \in Nat /\ i >= 1 /\ Len(ports) <= MAX_PORTS /\ Len(ports) \in Nat
  BY DEF TypeOK
<1>2. i' \in 1 .. Limit + 1
  BY <1>1, LimitFacts, Consts DEF OpenPort
<1>3. /\ ports' \in Seq(PortDef) /\ Len(ports') <= MAX_PORTS
      /\ fdt' \in [Fds -> -1 .. MAX_PORTS]
  <2>1. CASE UNCHANGED <<fdt, ports>>
    BY <2>1 DEF TypeOK
  <2>2. CASE i <= Len(ports) /\ OpenSucceeds
    <3>1. i \in 1 .. Len(ports) /\ i \in -1 .. MAX_PORTS
      BY <1>1, <2>2, Consts
    <3>2. PICK fd \in Fds :
               /\ fdt' = [fdt EXCEPT ![fd] = i]
               /\ ports' \in Seq(PortDef) /\ Len(ports') = Len(ports)
      BY <2>2, <3>1, OpenSucceedsFacts
    <3> QED BY <1>1, <3>1, <3>2 DEF TypeOK
  <2> QED BY <2>1, <2>2 DEF OpenPort, OpenFails
<1>4. pc' \in {pc, "add"} /\ UNCHANGED <<file, plugins, routes, handlers, table, epoll, saved>>
  BY DEF OpenPort
<1> QED BY <1>2, <1>3, <1>4 DEF TypeOK, Limit

LEMMA AddPortType == ASSUME TypeOK, AddPort PROVE TypeOK'
<1>1. i \in Nat /\ i >= 1 /\ Len(ports) <= MAX_PORTS /\ Len(ports) \in Nat
  BY DEF TypeOK
<1>2. i' \in 1 .. Limit + 1
  BY <1>1, LimitFacts, Consts DEF AddPort
<1> DEFINE Entry == [fd : Fds, port : 1 .. MAX_PORTS]
<1>3. table' \in Seq(Entry) /\ epoll' \in [Fds -> 0 .. MAX_PORTS]
  <2>1. CASE UNCHANGED <<table, epoll>>
    BY <2>1 DEF TypeOK
  <2>2. CASE i <= Len(ports) /\ ports[i].fd >= 0
    <3>1. i \in 1 .. MAX_PORTS /\ i \in 0 .. MAX_PORTS /\ i \in 1 .. Len(ports)
      BY <1>1, <2>2, Consts
    <3>2. ports[i] \in PortDef
      BY <3>1 DEF TypeOK
    <3>3. ports[i].fd \in Fds
      BY <2>2, <3>2 DEF PortDef
    <3>4. [fd |-> ports[i].fd, port |-> i] \in Entry
      BY <3>1, <3>3
    <3>5. table' \in {table, Append(table, [fd |-> ports[i].fd, port |-> i])}
      BY <1>1, <2>2, <3>2 DEF AddPort
    <3>6. table \in Seq(Entry)
      BY DEF TypeOK
    <3> HIDE DEF Entry
    <3>7. table' \in Seq(Entry)
      BY <3>4, <3>5, <3>6
    <3>8. epoll' = epoll \/ epoll' = [epoll EXCEPT ![ports[i].fd] = i]
      BY <2>2, <1>1, <3>3 DEF AddPort, Register, Fds
    <3> QED BY <3>1, <3>3, <3>7, <3>8 DEF TypeOK
  <2> QED BY <2>1, <2>2, <1>1 DEF AddPort
<1>4. pc' \in {pc, "run"} /\ UNCHANGED <<file, config, handlers, fdt, saved>>
  BY DEF AddPort
<1> QED BY <1>2, <1>3, <1>4 DEF TypeOK, Limit, config

\* What save_config writes can be loaded.
LEMMA SavedFile ==
    ASSUME TypeOK, SaveConfig
    PROVE  /\ file' \in File
           /\ file'.ports = [k \in 1 .. Len(ports) |-> SavePort(ports[k])]
           /\ file'.plugins = plugins /\ file'.routes = routes
<1> DEFINE p == [k \in 1 .. Len(ports) |-> SavePort(ports[k])]
<1>1. \A k \in 1 .. Len(ports) : SavePort(ports[k]) \in FilePort
  BY SavePortFacts DEF TypeOK
<1>2. p \in Seq(FilePort)
  BY <1>1 DEF TypeOK
<1>3. file' = [ports |-> p, plugins |-> plugins, routes |-> routes]
  <2>1. DOMAIN ports = 1 .. Len(ports)
    BY DEF TypeOK
  <2> QED BY <2>1 DEF SaveConfig
<1> HIDE DEF p
<1>4. file' \in File
  BY <1>2, <1>3 DEF TypeOK, File
<1> QED BY <1>3, <1>4 DEF p

LEMMA SaveConfigType == ASSUME TypeOK, SaveConfig PROVE TypeOK'
<1>1. saved' \in [ports : Seq(PortDef), plugins : Seq(STRING), routes : Seq(FileRoute)]
  BY DEF TypeOK, SaveConfig
<1> QED BY <1>1, SavedFile DEF TypeOK, SaveConfig, config, served

LEMMA SaveFailsType == ASSUME TypeOK, SaveFails PROVE TypeOK'
  BY DEF TypeOK, SaveFails, config, served

LEMMA RestartType == ASSUME TypeOK, Restart PROVE TypeOK'
<1>1. i' \in 1 .. Limit + 1
  BY LimitFacts DEF Restart
<1> QED BY <1>1, FreshType, Consts DEF TypeOK, Restart, Limit

LEMMA TypeStep == ASSUME TypeOK, [Next]_vars PROVE TypeOK'
<1>1. CASE UNCHANGED vars
  BY <1>1 DEF vars, config, served, TypeOK
<1> QED BY <1>1, LoadConfigType, LoadPluginType, OpenPortType, AddPortType, SaveConfigType,
           SaveFailsType, RestartType DEF Next

(****************************************************************************)
(* The ports, the descriptors and the tables.                               *)
(****************************************************************************)
LEMMA PortFacts ==
    ASSUME TypeOK, NEW k \in 1 .. Len(ports)
    PROVE  ports[k].fd \in Fds \cup {-1} /\ ports[k].fd \in Int
<1>1. ports[k] \in PortDef
  BY DEF TypeOK
<1>2. ports[k].fd \in Fds \cup {-1}
  BY <1>1 DEF PortDef
<1>3. \A x \in Fds \cup {-1} : x \in Int
  BY Consts
<1> QED BY <1>2, <1>3

LEMMA EntryFacts ==
    ASSUME TypeOK, NEW k \in 1 .. Len(table)
    PROVE  /\ table[k].fd \in Fds /\ table[k].port \in Nat
           /\ table[k] = [fd |-> table[k].fd, port |-> table[k].port]
<1> DEFINE Entry == [fd : Fds, port : 1 .. MAX_PORTS]
<1>1. table \in Seq(Entry)
  BY DEF TypeOK
<1> HIDE DEF Entry
<1>2. table[k] \in Entry
  BY <1>1
<1> QED BY <1>2, Consts DEF Entry

\* Without an entry there is nothing to serve.
LEMMA NothingServed ==
    ASSUME table = <<>>, fdt = Fresh.fdt PROVE OpenedPortsServed
<1>1. DOMAIN table = {} /\ \A fd \in Fds : ~(fdt[fd] > 0)
  BY FreshType, Consts DEF Daemon, Nobody
<1> QED BY <1>1 DEF OpenedPortsServed

LEMMA InitTables == Init => Tables
<1> SUFFICES ASSUME Init PROVE Tables
  OBVIOUS
<1>1. ports = <<>> /\ table = <<>> /\ fdt = Fresh.fdt /\ epoll = Fresh.epoll /\ pc = "load"
  BY FreshType DEF Init
<1>2. Loading /\ Opening /\ Adding
  BY <1>1 DEF Loading, Opening, Adding
<1> QED BY <1>1, <1>2, NothingServed DEF Tables

LEMMA LoadConfigTables == ASSUME TypeOK, Tables, LoadConfig PROVE Tables'
<1>1. /\ fdt' = Fresh.fdt /\ table' = <<>> /\ epoll' = Fresh.epoll
      /\ pc' \in {"run", "plugins"}
  BY DEF Tables, Loading, LoadConfig, served
<1>2. ASSUME NEW k \in 1 .. Len(ports') PROVE ports'[k].fd <= 0
  <2>1. CASE file = NoConfig
    BY <2>1, <1>2 DEF LoadConfig
  <2>2. CASE file # NoConfig
    BY <2>2, <1>2, ParsePortsFacts DEF LoadConfig, TypeOK, File
  <2> QED BY <2>1, <2>2
<1>3. Loading' /\ Opening' /\ Adding'
  BY <1>1, <1>2 DEF Loading, Opening, Adding, Fresh
<1>4. OpenedPortsServed'
  <2>1. DOMAIN table' = {} /\ \A fd \in Fds : ~(fdt'[fd] > 0)
    BY <1>1, FreshType, Consts DEF Daemon, Nobody
  <2> QED BY <2>1 DEF OpenedPortsServed
<1> QED BY <1>3, <1>4 DEF Tables

LEMMA LoadPluginTables == ASSUME TypeOK, Tables, LoadPlugin PROVE Tables'
<1>1. /\ pc = "plugins" /\ UNCHANGED <<ports, fdt, table, epoll>>
      /\ pc' \in {"plugins", "open"}
  BY DEF LoadPlugin, config, served
<1>2. /\ fdt = Fresh.fdt /\ table = <<>> /\ epoll = Fresh.epoll
      /\ \A k \in 1 .. Len(ports) : ports[k].fd <= 0
  BY <1>1 DEF Tables, Loading
<1>3. Loading'
  BY <1>1, <1>2 DEF Loading, Fresh
<1>4. Owned
  <2>1. \A k \in 1 .. Len(ports) : ~(ports[k].fd > 0)
    BY <1>2, PortFacts
  <2>2. fdt[Stdin] = Daemon /\ \A fd \in Fds : ~(fdt[fd] > 0)
    BY <1>2, FreshType, Consts DEF Daemon, Nobody
  <2> QED BY <2>1, <2>2 DEF Owned
<1>5. Opening'
  BY <1>1, <1>2, <1>4 DEF Opening, Owned, Fresh
<1> QED BY <1>1, <1>3, <1>5 DEF Tables, Adding, OpenedPortsServed

LEMMA OpenTables == ASSUME TypeOK, Tables, OpenPort PROVE Tables'
<1>1. /\ pc = "open" /\ UNCHANGED <<table, epoll>> /\ pc' \in {"open", "add"}
  BY DEF OpenPort
<1>2. /\ Owned /\ table = <<>> /\ epoll = Fresh.epoll
      /\ \A k \in 1 .. Len(ports) : k >= i => ports[k].fd <= 0
  BY <1>1 DEF Tables, Opening
<1>3. i \in Nat /\ i >= 1 /\ Len(ports) \in Nat
  BY DEF TypeOK
<1>4. CASE i <= Len(ports) /\ OpenSucceeds
  <2>1. i \in 1 .. Len(ports)
    BY <1>3, <1>4
  <2>2. PICK fd \in Fds :
             /\ fdt[fd] = Nobody
             /\ fdt' = [fdt EXCEPT ![fd] = i]
             /\ Len(ports') = Len(ports)
             /\ \A k \in 1 .. Len(ports) : ports'[k].fd = IF k = i THEN fd ELSE ports[k].fd
    BY <1>4, <2>1, OpenSucceedsFacts
  <2>3. /\ fdt \in [Fds -> -1 .. MAX_PORTS] /\ fdt[Stdin] = Daemon
        /\ \A k \in 1 .. Len(ports) : ports[k].fd > 0 => fdt[ports[k].fd] = k
        /\ \A d \in Fds : fdt[d] > 0 => fdt[d] \in 1 .. Len(ports) /\ ports[fdt[d]].fd = d
    BY <1>2 DEF TypeOK, Owned
  <2>4. fd # Stdin /\ fd > 0
    BY <2>2, <2>3, Consts DEF Daemon, Nobody, Stdin, Fds
  <2>5. fdt'[Stdin] = Daemon
    BY <2>2, <2>3, <2>4, Consts
  <2>6. ASSUME NEW k \in 1 .. Len(ports'), ports'[k].fd > 0
        PROVE  fdt'[ports'[k].fd] = k
    <3>1. CASE k = i
      BY <2>1, <2>2, <2>3, <2>6, <3>1
    <3>2. CASE k # i
      <4>1. ports'[k].fd = ports[k].fd /\ fdt[ports[k].fd] = k /\ ports[k].fd \in Fds \cup {-1}
        BY <2>2, <2>3, <2>6, <3>2, PortFacts
      <4>2. ports[k].fd # fd /\ ports[k].fd \in Fds
        BY <2>2, <2>6, <4>1, Consts DEF Nobody
      <4> QED BY <2>2, <2>3, <4>1, <4>2
    <3> QED BY <3>1, <3>2
  <2>7. ASSUME NEW d \in Fds, fdt'[d] > 0
        PROVE  fdt'[d] \in 1 .. Len(ports') /\ ports'[fdt'[d]].fd = d
    <3>1. CASE d = fd
      BY <2>1, <2>2, <2>3, <3>1
    <3>2. CASE d # fd
      <4>1. fdt'[d] = fdt[d]
        BY <2>2, <2>3, <3>2
      <4>2. fdt[d] \in 1 .. Len(ports) /\ ports[fdt[d]].fd = d
        BY <2>3, <2>7, <4>1
      <4>3. d # 0 /\ d \in Nat
        BY <2>3, <2>7, <4>1, Consts DEF Daemon, Stdin
      <4>4. fdt[d] # i
        BY <1>2, <1>3, <2>1, <4>2, <4>3
      <4> QED BY <2>2, <4>1, <4>2, <4>4
    <3> QED BY <3>1, <3>2
  <2>8. Owned'
    BY <2>5, <2>6, <2>7 DEF Owned
  <2>9. i' = i + 1 /\ pc' = "open"
    BY <1>3, <1>4 DEF OpenPort
  <2>10. \A k \in 1 .. Len(ports') : k >= i' => ports'[k].fd <= 0
    BY <1>2, <1>3, <2>2, <2>9
  <2>11. Opening'
    BY <1>1, <1>2, <2>8, <2>10 DEF Opening, Fresh
  <2> QED BY <2>9, <2>11 DEF Tables, Loading, Adding, OpenedPortsServed
<1>5. CASE i <= Len(ports) /\ OpenFails
  <2>1. /\ UNCHANGED <<fdt, ports>> /\ i' = i + 1 /\ pc' = "open"
    BY <1>1, <1>3, <1>5 DEF OpenPort, OpenFails
  <2>2. Opening'
    BY <1>1, <1>2, <1>3, <2>1 DEF Opening, Owned, Fresh
  <2> QED BY <2>1, <2>2 DEF Tables, Loading, Adding, OpenedPortsServed
<1>6. CASE i > Len(ports) /\ UNCHANGED <<fdt, ports>> /\ i' = 1 /\ pc' = "add"
  <2>1. Len(table') = 0 /\ \A fd \in Fds : epoll'[fd] = 0
    BY <1>1, <1>2, FreshType
  <2>2. \A p \in 1 .. Len(ports') : ~(p < i')
    BY <1>6
  <2>3. Added'
    BY <1>6, <2>1, <2>2 DEF Added
  <2>4. Adding'
    BY <1>2, <1>6, <2>3 DEF Adding, Owned
  <2> QED BY <1>6, <2>4 DEF Tables, Loading, Opening, OpenedPortsServed
<1> QED BY <1>3, <1>4, <1>5, <1>6 DEF OpenPort

LEMMA AddTables == ASSUME TypeOK, Tables, AddPort PROVE Tables'
<1>1. /\ pc = "add" /\ UNCHANGED <<ports, fdt>> /\ pc' \in {"add", "run"}
  BY DEF AddPort, config
<1>2. Owned /\ Added
  BY <1>1 DEF Tables, Adding
<1>3. /\ i \in Nat /\ i >= 1 /\ Len(ports) \in Nat /\ Len(ports) <= MAX_PORTS
      /\ epoll \in [Fds -> 0 .. MAX_PORTS] /\ Len(table) \in Nat
  BY DEF TypeOK
\* What Owned and Added say.
<1>4. /\ fdt[Stdin] = Daemon
      /\ \A k \in 1 .. Len(ports) : ports[k].fd > 0 => fdt[ports[k].fd] = k
      /\ \A fd \in Fds : fdt[fd] > 0 => fdt[fd] \in 1 .. Len(ports) /\ ports[fdt[fd]].fd = fd
  BY <1>2 DEF Owned
<1>5. /\ Len(table) < i
      /\ \A k \in 1 .. Len(table) :
            /\ table[k].port < i /\ table[k].port \in 1 .. Len(ports)
            /\ table[k].fd = ports[table[k].port].fd
            /\ table[k].fd # Stdin => epoll[table[k].fd] = table[k].port
      /\ \A j, k \in 1 .. Len(table) : j < k => table[j].port < table[k].port
      /\ \A p \in 1 .. Len(ports) : p < i /\ ports[p].fd >= 0 =>
            \E k \in 1 .. Len(table) : table[k].port = p
      /\ \A fd \in Fds : fd # Stdin /\ epoll[fd] # 0 => epoll[fd] < i /\ epoll[fd] = fdt[fd]
  BY <1>2 DEF Added
<1>6. Owned'
  BY <1>1, <1>2 DEF Owned
<1>7. CASE i <= Len(ports) /\ ports[i].fd < 0
  <2>1. /\ UNCHANGED <<table, epoll>> /\ i' = i + 1 /\ pc' = "add"
    BY <1>1, <1>3, <1>7, PortFacts DEF AddPort
  <2>2. \A p \in 1 .. Len(ports) : p < i + 1 /\ ports[p].fd >= 0 => p < i
    BY <1>3, <1>7, PortFacts
  <2>3. Added'
    <3>1. \A k \in 1 .. Len(table) : table[k].port < i + 1
      BY <1>3, <1>5, EntryFacts
    <3>2. \A fd \in Fds : fd # Stdin /\ epoll[fd] # 0 => epoll[fd] < i + 1
      BY <1>3, <1>5
    <3> QED BY <1>1, <1>3, <1>5, <2>1, <2>2, <3>1, <3>2 DEF Added
  <2> QED BY <1>6, <2>1, <2>3 DEF Tables, Loading, Opening, Adding, OpenedPortsServed
<1>8. CASE i <= Len(ports) /\ ports[i].fd >= 0
  <2> DEFINE fd == ports[i].fd
             e  == [fd |-> ports[i].fd, port |-> i]
  <2>1. i \in 1 .. Len(ports) /\ fd \in Fds /\ fd \in Nat
    BY <1>3, <1>8, PortFacts
  <2>2. /\ table' = Append(table, e) /\ Register(fd) /\ i' = i + 1 /\ pc' = "add"
    <3>1. Len(table) < MAX_PORTS /\ MAX_PORTS \in Nat
      BY <1>3, <1>5, <2>1, Consts
    <3>2. ~(ports[i].fd < 0) /\ ~(i > Len(ports))
      BY <1>3, <1>8, <2>1
    <3> QED BY <3>1, <3>2, <1>1 DEF AddPort
  <2>3. fd # Stdin => fdt[fd] = i /\ epoll[fd] = 0
    BY <1>3, <1>4, <1>5, <2>1 DEF Stdin
  <2>4. \A d \in Fds : d # Stdin => epoll'[d] = IF d = fd THEN i ELSE epoll[d]
    BY <1>3, <2>1, <2>2, <2>3 DEF Register
  <2>5. /\ Len(table') = Len(table) + 1 /\ table'[Len(table) + 1] = e
        /\ \A k \in 1 .. Len(table) : table'[k] = table[k]
    <3>1. table \in Seq([fd : Fds, port : 1 .. MAX_PORTS])
      BY DEF TypeOK
    <3> HIDE DEF e
    <3> QED BY <2>2, <3>1
  <2>6. e.fd = fd /\ e.port = i
    OBVIOUS
  <2> HIDE DEF fd, e
  <2>7. ASSUME NEW k \in 1 .. Len(table')
        PROVE  /\ table'[k].port < i' /\ table'[k].port \in 1 .. Len(ports')
               /\ table'[k].fd = ports'[table'[k].port].fd
               /\ table'[k].fd # Stdin => epoll'[table'[k].fd] = table'[k].port
    <3>1. CASE k = Len(table) + 1
      BY <1>1, <1>3, <2>1, <2>2, <2>4, <2>5, <2>6, <3>1 DEF fd
    <3>2. CASE k \in 1 .. Len(table)
      <4>1. table'[k] = table[k] /\ table[k].fd \in Fds /\ table[k].port \in Nat
        BY <2>5, <3>2, EntryFacts
      <4>2. /\ table[k].port < i /\ table[k].port \in 1 .. Len(ports)
            /\ table[k].fd = ports[table[k].port].fd
            /\ table[k].fd # Stdin => epoll[table[k].fd] = table[k].port
        BY <1>5, <3>2
      <4>3. table[k].fd # Stdin => table[k].fd # fd
        BY <1>4, <2>1, <2>3, <4>1, <4>2, Consts DEF Stdin, Fds
      <4>4. table[k].fd # Stdin => epoll'[table[k].fd] = table[k].port
        BY <2>4, <4>1, <4>2, <4>3
      <4> QED BY <1>1, <1>3, <2>2, <4>1, <4>2, <4>4
    <3> QED BY <1>3, <2>5, <2>7, <3>1, <3>2
  <2>8. ASSUME NEW j \in 1 .. Len(table'), NEW k \in 1 .. Len(table'), j < k
        PROVE  table'[j].port < table'[k].port
    <3>1. CASE k = Len(table) + 1
      BY <1>3, <1>5, <2>5, <2>6, <2>8, <3>1
    <3>2. CASE k \in 1 .. Len(table)
      BY <1>3, <1>5, <2>5, <2>8, <3>2
    <3> QED BY <1>3, <2>5, <2>8, <3>1, <3>2
  <2>9. ASSUME NEW p \in 1 .. Len(ports'), p < i', ports'[p].fd >= 0
        PROVE  \E k \in 1 .. Len(table') : table'[k].port = p
    <3>1. CASE p = i
      <4>1. Len(table) + 1 \in 1 .. Len(table')
        BY <1>3, <2>5
      <4> QED BY <2>5, <2>6, <3>1, <4>1
    <3>2. CASE p < i
      <4>1. PICK k \in 1 .. Len(table) : table[k].port = p
        BY <1>1, <1>5, <2>9, <3>2
      <4> QED BY <1>3, <2>5, <4>1
    <3> QED BY <1>1, <1>3, <2>2, <2>9, <3>1, <3>2
  <2>10. ASSUME NEW d \in Fds, d # Stdin, epoll'[d] # 0
         PROVE  epoll'[d] < i' /\ epoll'[d] = fdt'[d]
    BY <1>1, <1>3, <1>5, <2>2, <2>3, <2>4, <2>10
  <2>11. Len(table') < i'
    BY <1>3, <1>5, <2>2, <2>5
  <2>12. Added'
    BY <2>7, <2>8, <2>9, <2>10, <2>11 DEF Added
  <2> QED BY <1>6, <2>2, <2>12 DEF Tables, Loading, Opening, Adding, OpenedPortsServed
<1>9. CASE i > Len(ports)
  <2>1. UNCHANGED <<table, epoll>> /\ pc' = "run"
    BY <1>1, <1>3, <1>9 DEF AddPort
  <2>2. DOMAIN table = 1 .. Len(table)
    BY DEF TypeOK
  <2>3. ASSUME NEW k \in 1 .. Len(table), table[k].fd # Stdin
        PROVE  fdt[table[k].fd] = table[k].port /\ epoll[table[k].fd] = table[k].port
    <3>1. /\ table[k].fd \in Nat /\ table[k].fd # 0
          /\ table[k].port \in 1 .. Len(ports) /\ table[k].fd = ports[table[k].port].fd
          /\ epoll[table[k].fd] = table[k].port
      BY <1>5, <2>3, EntryFacts, Consts DEF Stdin
    <3> QED BY <1>4, <3>1
  <2>4. ASSUME NEW fd \in Fds, fdt[fd] > 0
        PROVE  \E k \in 1 .. Len(table) : table[k] = [fd |-> fd, port |-> fdt[fd]]
    <3>1. fdt[fd] \in 1 .. Len(ports) /\ ports[fdt[fd]].fd = fd /\ fd >= 0
      BY <1>4, <2>4, Consts DEF Fds
    <3>2. PICK k \in 1 .. Len(table) : table[k].port = fdt[fd]
      BY <1>3, <1>5, <1>9, <3>1
    <3>3. table[k].fd = fd
      BY <1>5, <3>1, <3>2
    <3> QED BY <3>2, <3>3, EntryFacts
  <2>5. OpenedPortsServed'
    BY <1>1, <1>5, <2>1, <2>2, <2>3, <2>4 DEF OpenedPortsServed
  <2> QED BY <2>1, <2>5 DEF Tables, Loading, Opening, Adding
<1> QED BY <1>3, <1>7, <1>8, <1>9, PortFacts

LEMMA SaveConfigTables == ASSUME TypeOK, Tables, SaveConfig \/ SaveFails PROVE Tables'
<1>1. UNCHANGED <<ports, fdt, table, epoll, pc, i>>
  BY DEF SaveConfig, SaveFails, config, served
<1> QED BY <1>1 DEF Tables, Loading, Opening, Adding, OpenedPortsServed, Owned, Added, Fresh

LEMMA RestartTables == ASSUME TypeOK, Tables, Restart PROVE Tables'
<1>1. /\ ports' = <<>> /\ table' = <<>> /\ fdt' = Fresh.fdt /\ epoll' = Fresh.epoll
      /\ pc' = "load"
  BY FreshType DEF Restart
<1>2. Loading'
  BY <1>1 DEF Loading, Fresh
<1> QED BY <1>1, <1>2 DEF Tables, Opening, Adding, OpenedPortsServed

LEMMA TablesStep == ASSUME TypeOK, Tables, [Next]_vars PROVE Tables'
<1>1. CASE UNCHANGED vars
  <2>1. UNCHANGED <<ports, fdt, table, epoll, pc, i>>
    BY <1>1 DEF vars, config, served
  <2> QED BY <2>1 DEF Tables, Loading, Opening, Adding, OpenedPortsServed, Owned, Added, Fresh
<1> QED BY <1>1, LoadConfigTables, LoadPluginTables, OpenTables, AddTables, SaveConfigTables,
           RestartTables DEF Next

(****************************************************************************)
(* config.json and what was saved.                                          *)
(****************************************************************************)
LEMMA FileStep == ASSUME TypeOK, FileIsSaved, [Next]_vars PROVE FileIsSaved'
<1>1. CASE UNCHANGED <<file, saved>>
  BY <1>1 DEF FileIsSaved
<1>2. CASE SaveConfig
  <2>1. saved' = [ports |-> ports, plugins |-> plugins, routes |-> routes]
    BY <1>2 DEF SaveConfig
  <2>2. saved'.ports = ports /\ saved'.plugins = plugins /\ saved'.routes = routes
    BY <2>1
  <2>3. /\ file' \in File
        /\ file'.ports = [k \in 1 .. Len(ports) |-> SavePort(ports[k])]
        /\ file'.plugins = plugins /\ file'.routes = routes
    BY <1>2, SavedFile
  <2>4. Len(ports) <= MAX_PORTS /\ Len(plugins) <= MAX_PLUGINS /\ Len(routes) <= MAX_ROUTES
    BY DEF TypeOK
  <2> QED BY <2>2, <2>3, <2>4 DEF FileIsSaved
<1>3. CASE SaveFails
  BY <1>3 DEF SaveFails, FileIsSaved
<1> QED BY <1>1, <1>2, <1>3 DEF Next, LoadConfig, LoadPlugin, OpenPort, AddPort, Restart, vars

\* The next load_config.
LEMMA LoadReloads ==
    ASSUME TypeOK, FileIsSaved, LoadConfig, saved # NoConfig
    PROVE  /\ plugins' = saved.plugins /\ routes' = saved.routes
           /\ Len(ports') = Len(saved.ports)
           /\ \A k \in 1 .. Len(ports') : saved.ports[k].type # "ipc_server" =>
                 /\ ports'[k].type = saved.ports[k].type
                 /\ ports'[k].conf = saved.ports[k].conf
<1>1. /\ file \in File
      /\ Len(saved.ports) <= MAX_PORTS
      /\ Len(saved.plugins) <= MAX_PLUGINS /\ Len(saved.routes) <= MAX_ROUTES
      /\ file.ports = [k \in 1 .. Len(saved.ports) |-> SavePort(saved.ports[k])]
      /\ file.plugins = saved.plugins /\ file.routes = saved.routes
  BY DEF FileIsSaved
<1>2. /\ saved.ports \in Seq(PortDef)
      /\ saved.plugins \in Seq(STRING) /\ saved.routes \in Seq(FileRoute)
  BY DEF TypeOK
<1>3. /\ Missing \notin Seq(FilePort) /\ Missing \notin Seq(STRING)
      /\ Missing \notin Seq(FileRoute)
  BY FileAssumption
<1>4. /\ ports' = ParsePorts(file.ports)
      /\ plugins' = Parsed(file.plugins, MAX_PLUGINS)
      /\ routes' = Parsed(file.routes, MAX_ROUTES)
  BY <1>1, Consts DEF LoadConfig
<1>5. plugins' = saved.plugins
  <2>1. saved.plugins # Missing
    BY <1>2, <1>3
  <2> QED BY <1>1, <1>2, <1>3, <1>4, <2>1, Consts, ParsedFacts
<1>6. routes' = saved.routes
  <2>1. saved.routes # Missing
    BY <1>2, <1>3
  <2> QED BY <1>1, <1>2, <1>3, <1>4, <2>1, Consts, ParsedFacts
<1>7. \A k \in 1 .. Len(saved.ports) : saved.ports[k] \in PortDef
  BY <1>2
<1>8. /\ file.ports \in Seq(FilePort) /\ Len(file.ports) = Len(saved.ports)
      /\ \A k \in 1 .. Len(saved.ports) : file.ports[k] = SavePort(saved.ports[k])
  <2>1. \A k \in 1 .. Len(saved.ports) : SavePort(saved.ports[k]) \in FilePort
    BY <1>7, SavePortFacts
  <2> QED BY <1>1, <1>2, <2>1
<1>9. Parsed(file.ports, MAX_PORTS) = file.ports
  <2>1. file.ports # Missing
    BY <1>3, <1>8
  <2> QED BY <1>1, <1>3, <1>8, <2>1, Consts, ParsedFacts
<1>10. /\ Len(ports') = Len(saved.ports)
       /\ \A k \in 1 .. Len(ports') : ports'[k] = ParsePort(SavePort(saved.ports[k]))
  BY <1>4, <1>8, <1>9, ParsePortsFacts
<1>11. \A k \in 1 .. Len(ports') : saved.ports[k].type # "ipc_server" =>
                 /\ ports'[k].type = saved.ports[k].type
                 /\ ports'[k].conf = saved.ports[k].conf
  BY <1>7, <1>10, SavePortFacts
<1> QED BY <1>5, <1>6, <1>10, <1>11

LEMMA ReloadStep ==
    ASSUME TypeOK, FileIsSaved, SavedConfigReloads, [Next]_vars
    PROVE  SavedConfigReloads'
<1>1. CASE UNCHANGED <<config, saved>> /\ (pc' = "plugins" => pc = "plugins")
  BY <1>1 DEF SavedConfigReloads, config
<1>2. CASE LoadConfig
  <2> SUFFICES ASSUME saved # NoConfig
               PROVE  /\ plugins' = saved.plugins /\ routes' = saved.routes
                      /\ Len(ports') = Len(saved.ports)
                      /\ \A k \in DOMAIN ports' : saved.ports[k].type # "ipc_server" =>
                            /\ ports'[k].type = saved.ports[k].type
                            /\ ports'[k].conf = saved.ports[k].conf
    BY <1>2 DEF LoadConfig, SavedConfigReloads
  <2>1. DOMAIN ports' = 1 .. Len(ports')
    BY <1>2, LoadConfigType DEF TypeOK
  <2> QED BY <1>2, <2>1, LoadReloads
<1>3. CASE pc' # "plugins"
  BY <1>3 DEF SavedConfigReloads
<1>4. CASE LoadPlugin
  BY <1>1, <1>4 DEF LoadPlugin
<1>5. CASE OpenPort \/ AddPort \/ Restart \/ SaveConfig \/ SaveFails
  BY <1>3, <1>5 DEF OpenPort, AddPort, Restart, SaveConfig, SaveFails
<1>6. CASE UNCHANGED vars
  BY <1>1, <1>6 DEF vars
<1> QED BY <1>2, <1>4, <1>5, <1>6 DEF Next

(****************************************************************************)
(* The plugins and their handlers.                                          *)
(****************************************************************************)
LEMMA NoneLoaded == 0 .. 0 = {0} /\ 1 .. 0 = {} /\ Available(0) = {} /\ Present(0)
  BY DEF Available, Present

\* Of more plugins, more is present.
LEMMA PresentBefore ==
    ASSUME NEW n \in Nat, NEW m \in Nat, n <= m, Present(m) PROVE Present(n)
<1>1. Available(n) \subseteq Available(m)
  BY DEF Available
<1> QED BY <1>1 DEF Present

LEMMA InitPlugged == Init => Plugged
<1> SUFFICES ASSUME Init PROVE Plugged
  OBVIOUS
<1>1. plugins = <<>> /\ handlers = <<>> /\ pc = "load"
  BY FreshType DEF Init
<1>2. Done = 0
  BY <1>1 DEF Done
<1>3. Available(Done) = {} /\ Supply(Done) = {}
  BY <1>2 DEF Available, Supply
<1>4. IsFiniteSet(Supply(Done)) /\ Cardinality(Supply(Done)) = 0
  BY <1>3, FS_EmptySet
<1> QED BY <1>1, <1>2, <1>3, <1>4, NoneLoaded DEF Plugged, Origins, Complete

\* Nothing else touches the plugins.
LEMMA PluggedKept ==
    ASSUME Plugged, UNCHANGED <<plugins, handlers>>, Done' = Done, pc' # "load"
    PROVE  Plugged'
<1>1. Available(Done)' = Available(Done) /\ Supply(Done)' = Supply(Done)
  BY DEF Available, Supply
<1>2. Origins'
  <2>1. /\ \A k \in 1 .. Len(handlers) :
              handlers[k].from \in Available(Done) /\ Provided(handlers[k].from, handlers[k].name)
        /\ \A j, k \in 1 .. Len(handlers), b \in 1 .. Done :
              j <= k /\ plugins[b] = handlers[k].from =>
                  \E a \in 1 .. b : plugins[a] = handlers[j].from
    BY DEF Plugged, Origins
  <2>2. \A k \in 1 .. Len(handlers') :
           handlers'[k].from \in Available(Done)' /\ Provided(handlers[k].from, handlers[k].name)'
    BY <1>1, <2>1 DEF Provided
  <2>3. \A j, k \in 1 .. Len(handlers'), b \in 1 .. Done' :
           j <= k /\ plugins'[b] = handlers'[k].from =>
               \E a \in 1 .. b : plugins'[a] = handlers'[j].from
    BY <2>1
  <2> QED BY <2>2, <2>3 DEF Origins
<1>3. Complete'
  <2>1. /\ Len(handlers) <= Cardinality(Supply(Done))
        /\ Len(handlers) < MAX_HANDLERS => Present(Done)
        /\ \A n \in 0 .. Done : Cardinality(Supply(n)) <= MAX_HANDLERS => Present(n)
        /\ \A n \in 1 .. Done, k \in 1 .. Len(handlers) :
              (\A a \in 1 .. n : plugins[a] # handlers[k].from) => Present(n)
    BY DEF Plugged, Complete
  <2>2. \A n : (Present(n)' <=> Present(n)) /\ Supply(n)' = Supply(n)
    BY DEF Present, Available, Supply
  <2>3. Present(Done)' <=> Present(Done)
    BY <1>1 DEF Present
  <2>4. \A n \in 1 .. Done', k \in 1 .. Len(handlers') :
           (\A a \in 1 .. n : plugins'[a] # handlers'[k].from) => Present(n)'
    BY <2>1, <2>2
  <2>5. \A n \in 0 .. Done' : Cardinality(Supply(n)') <= MAX_HANDLERS => Present(n)'
    BY <2>1, <2>2
  <2> QED BY <1>1, <2>1, <2>3, <2>4, <2>5 DEF Complete
<1> QED BY <1>1, <1>2, <1>3 DEF Plugged

LEMMA LoadConfigPlugged == ASSUME TypeOK, Plugged, LoadConfig PROVE Plugged'
<1>1. handlers' = <<>>
  BY DEF Plugged, LoadConfig
<1>2. plugins' \in Seq(STRING)
  BY LoadConfigType DEF TypeOK
<1>3. Done' = 0
  BY DEF LoadConfig, Done
<1>4. Available(Done)' = {} /\ Supply(Done)' = {}
  BY <1>3 DEF Available, Supply
<1>5. IsFiniteSet(Supply(Done)') /\ Cardinality(Supply(Done)') = 0
  BY <1>4, FS_EmptySet
<1>6. Origins'
  BY <1>1, <1>3 DEF Origins
<1>7. Complete'
  <2>1. \A n \in 0 .. 0 : Present(n)'
    BY DEF Present, Available
  <2>2. Present(Done)'
    BY <1>4 DEF Present
  <2> QED BY <1>1, <1>3, <1>5, <2>1, <2>2, NoneLoaded DEF Complete
<1> QED BY <1>2, <1>3, <1>5, <1>6, <1>7 DEF Plugged, LoadConfig

LEMMA RowFacts ==
    ASSUME NEW x, NEW n \in Nat
    PROVE  IsFiniteSet({x} \X (1 .. n)) /\ Cardinality({x} \X (1 .. n)) = n
<1>1. IsFiniteSet({x}) /\ Cardinality({x}) = 1
  BY FS_Singleton
<1>2. IsFiniteSet(1 .. n) /\ Cardinality(1 .. n) = IF 1 > n THEN 0 ELSE n - 1 + 1
  <2>1. 1 \in Int /\ n \in Int
    OBVIOUS
  <2> QED BY <2>1, FS_Interval
<1>3. Cardinality(1 .. n) = n
  BY <1>2
<1>4. /\ IsFiniteSet({x} \X (1 .. n))
      /\ Cardinality({x} \X (1 .. n)) = Cardinality({x}) * Cardinality(1 .. n)
  BY <1>1, <1>2, FS_Product
<1> QED BY <1>1, <1>3, <1>4

\* One more plugin adds what it provides, unless it was there before.
LEMMA SupplyStep ==
    ASSUME TypeOK, NEW n \in 1 .. Len(plugins), IsFiniteSet(Supply(n - 1))
    PROVE  /\ plugins[n] \in DOMAIN Provides \ {plugins[k] : k \in 1 .. n - 1} =>
                 /\ Available(n) = Available(n - 1) \cup {plugins[n]}
                 /\ IsFiniteSet(Supply(n))
                 /\ Cardinality(Supply(n)) = Cardinality(Supply(n - 1)) + Len(Provides[plugins[n]])
           /\ plugins[n] \notin DOMAIN Provides \ {plugins[k] : k \in 1 .. n - 1} =>
                 Available(n) = Available(n - 1) /\ Supply(n) = Supply(n - 1)
<1> DEFINE path == plugins[n]
<1>0. n \in Nat /\ 1 .. n = (1 .. n - 1) \cup {n}
  BY DEF TypeOK
<1>1. {plugins[k] : k \in 1 .. n} = {plugins[k] : k \in 1 .. n - 1} \cup {path}
  BY <1>0
<1>2. CASE path \in DOMAIN Provides \ {plugins[k] : k \in 1 .. n - 1}
  <2>1. Available(n) = Available(n - 1) \cup {path} /\ path \notin Available(n - 1)
    BY <1>1, <1>2 DEF Available
  <2> DEFINE L == Len(Provides[path])
             T == {path} \X (1 .. L)
  <2>2. DOMAIN Provides[path] = 1 .. L /\ L \in Nat
    BY <1>2, StartupAssumption
  <2>3. Supply(n) = Supply(n - 1) \cup T
    BY <2>1, <2>2 DEF Supply
  <2>4. Supply(n - 1) \cap T = {}
    BY <2>1 DEF Supply
  <2>5. IsFiniteSet(T) /\ Cardinality(T) = L
    BY <2>2, RowFacts
  <2> HIDE DEF T, L
  <2>6. /\ IsFiniteSet(Supply(n - 1) \cup T)
        /\ Cardinality(Supply(n - 1) \cup T) =
              Cardinality(Supply(n - 1)) + Cardinality(T) - Cardinality(Supply(n - 1) \cap T)
    BY <2>5, FS_Union
  <2>7. Cardinality(Supply(n - 1) \cap T) = 0 /\ Cardinality(Supply(n - 1)) \in Nat
    BY <2>4, FS_EmptySet, FS_CardinalityType
  <2> QED BY <1>2, <2>1, <2>2, <2>3, <2>5, <2>6, <2>7 DEF L
<1>3. CASE path \notin DOMAIN Provides \ {plugins[k] : k \in 1 .. n - 1}
  <2>1. Available(n) = Available(n - 1)
    BY <1>1, <1>3 DEF Available
  <2> QED BY <1>3, <2>1 DEF Supply
<1> QED BY <1>2, <1>3

LEMMA LoadPluginPlugged == ASSUME TypeOK, Plugged, LoadPlugin PROVE Plugged'
<1>1. /\ pc = "plugins" /\ UNCHANGED plugins
      /\ i \in Nat /\ i >= 1 /\ Len(plugins) \in Nat
  BY DEF LoadPlugin, config, TypeOK
<1>2. Done = i - 1 /\ i - 1 <= Len(plugins)
  BY <1>1 DEF Plugged, Done
<1>3. CASE i > Len(plugins)
  <2>1. UNCHANGED handlers /\ pc' = "open"
    BY <1>1, <1>3 DEF LoadPlugin
  <2>2. Done' = Done
    BY <1>1, <1>2, <1>3, <2>1 DEF Done
  <2> QED BY <1>1, <2>1, <2>2, PluggedKept
<1>4. CASE i <= Len(plugins)
  <2>1. i' = i + 1 /\ pc' = "plugins" /\ i \in 1 .. Len(plugins)
    BY <1>1, <1>4 DEF LoadPlugin
  <2>2. Done' = i /\ Done' \in 0 .. Len(plugins')
    BY <1>1, <2>1 DEF Done
  <2>3. Available(Done)' = Available(i) /\ Supply(Done)' = Supply(i)
    BY <1>1, <2>2 DEF Available, Supply
  <2>4. IsFiniteSet(Supply(i - 1))
    BY <1>2 DEF Plugged
  \* What g_handlers held before.
  <2>5. \A k \in 1 .. Len(handlers) :
           handlers[k].from \in Available(i - 1) /\ Provided(handlers[k].from, handlers[k].name)
    BY <1>2 DEF Plugged, Origins
  <2>6. \A j, k \in 1 .. Len(handlers), b \in 1 .. i - 1 :
           j <= k /\ plugins[b] = handlers[k].from =>
               \E a \in 1 .. b : plugins[a] = handlers[j].from
    BY <1>2 DEF Plugged, Origins
  <2>7. /\ Len(handlers) <= Cardinality(Supply(i - 1))
        /\ Len(handlers) < MAX_HANDLERS => Present(i - 1)
        /\ \A n \in 0 .. i - 1 : Cardinality(Supply(n)) <= MAX_HANDLERS => Present(n)
        /\ \A n \in 1 .. i - 1, k \in 1 .. Len(handlers) :
              (\A a \in 1 .. n : plugins[a] # handlers[k].from) => Present(n)
    BY <1>2 DEF Plugged, Complete
  <2>8. Len(handlers) \in Nat
    BY DEF TypeOK
  <2>9. \A x \in Available(i - 1) : \E a \in 1 .. i - 1 : plugins[a] = x
    BY DEF Available
  \* Sorting survives when the old entries stay where they are.
  <2>10. ASSUME NEW j \in 1 .. Len(handlers), NEW k \in 1 .. Len(handlers), NEW b \in 1 .. i,
                j <= k, plugins[b] = handlers[k].from
         PROVE  \E a \in 1 .. b : plugins[a] = handlers[j].from
    <3>1. PICK c \in 1 .. b : c <= i - 1 /\ plugins[c] = handlers[k].from
      <4>1. CASE b = i
        <5>1. PICK c \in 1 .. i - 1 : plugins[c] = handlers[k].from
          BY <2>5, <2>9
        <5> QED BY <1>1, <2>10, <4>1, <5>1
      <4>2. CASE b # i
        BY <1>1, <2>10, <4>2
      <4> QED BY <4>1, <4>2
    <3>2. c \in 1 .. i - 1
      BY <1>1, <3>1
    <3>3. PICK a \in 1 .. c : plugins[a] = handlers[j].from
      BY <2>6, <2>10, <3>1, <3>2
    <3> QED BY <3>1, <3>3
  <2>11. CASE plugins[i] \notin DOMAIN Provides \ {plugins[k] : k \in 1 .. i - 1}
    <3>1. handlers' = handlers
      BY <1>1, <1>4, <2>11 DEF LoadPlugin, Loaded
    <3>2. Available(i) = Available(i - 1) /\ Supply(i) = Supply(i - 1)
      BY <2>1, <2>4, <2>11, SupplyStep
    <3>3. Origins'
      <4>1. \A k \in 1 .. Len(handlers') :
               handlers'[k].from \in Available(Done)' /\ Provided(handlers[k].from, handlers[k].name)'
        BY <2>3, <2>5, <3>1, <3>2 DEF Provided
      <4>2. \A j, k \in 1 .. Len(handlers'), b \in 1 .. Done' :
               j <= k /\ plugins'[b] = handlers'[k].from =>
                   \E a \in 1 .. b : plugins'[a] = handlers'[j].from
        <5>1. \A j, k \in 1 .. Len(handlers), b \in 1 .. i :
                 j <= k /\ plugins[b] = handlers[k].from =>
                     \E a \in 1 .. b : plugins[a] = handlers[j].from
          BY <2>10
        <5>2. plugins' = plugins /\ handlers' = handlers /\ Done' = i
          BY <1>1, <2>2, <3>1
        <5> QED BY <5>1, <5>2
      <4> QED BY <4>1, <4>2 DEF Origins
    <3>4. Complete'
      <4>1. \A n : (Present(n)' <=> Present(n)) /\ Supply(n)' = Supply(n)
        BY <1>1, <3>1 DEF Present, Available, Supply
      <4>2. Present(i) <=> Present(i - 1)
        BY <3>2 DEF Present
      <4>3. \A n \in 0 .. i : Cardinality(Supply(n)) <= MAX_HANDLERS => Present(n)
        <5> SUFFICES ASSUME NEW n \in 0 .. i, Cardinality(Supply(n)) <= MAX_HANDLERS
                     PROVE  Present(n)
          OBVIOUS
        <5>1. CASE n = i
          <6>1. i - 1 \in 0 .. i - 1
            BY <1>1
          <6> QED BY <2>7, <3>2, <4>2, <5>1, <6>1
        <5>2. CASE n # i
          <6>1. n \in 0 .. i - 1
            BY <1>1, <5>2
          <6> QED BY <2>7, <6>1
        <5> QED BY <5>1, <5>2
      <4>4. ASSUME NEW n \in 1 .. i, NEW k \in 1 .. Len(handlers),
                   \A a \in 1 .. n : plugins[a] # handlers[k].from
            PROVE  Present(n)
        <5>1. n # i
          BY <1>1, <2>5, <2>9, <4>4
        <5>2. n \in 1 .. i - 1
          BY <1>1, <5>1
        <5> QED BY <2>7, <4>4, <5>2
      <4>5. Present(Done)' <=> Present(i)
        BY <1>1, <2>3, <3>1 DEF Present
      <4>6. \A n \in 0 .. Done' : Cardinality(Supply(n)') <= MAX_HANDLERS => Present(n)'
        BY <2>2, <4>1, <4>3
      <4>7. \A n \in 1 .. Done', k \in 1 .. Len(handlers') :
               (\A a \in 1 .. n : plugins'[a] # handlers'[k].from) => Present(n)'
        <5>1. plugins' = plugins /\ handlers' = handlers /\ Done' = i
          BY <1>1, <2>2, <3>1
        <5> QED BY <4>1, <4>4, <5>1
      <4>8. /\ Len(handlers') <= Cardinality(Supply(Done)')
            /\ Len(handlers') < MAX_HANDLERS => Present(Done)'
        BY <2>3, <2>7, <3>1, <3>2, <4>2, <4>5
      <4> QED BY <4>6, <4>7, <4>8 DEF Complete
    <3> QED BY <2>1, <2>2, <2>3, <2>4, <3>2, <3>3, <3>4 DEF Plugged
  <2>12. CASE plugins[i] \in DOMAIN Provides \ {plugins[k] : k \in 1 .. i - 1}
    <3> DEFINE path == plugins[i]
               L == Len(Provides[path])
    <3>1. path \in DOMAIN Provides /\ L \in Nat
      BY <2>12, StartupAssumption
    <3>2. handlers' = Registered(path)
      BY <1>1, <1>4, <2>12 DEF LoadPlugin, Loaded
    <3>3. /\ Available(i) = Available(i - 1) \cup {path}
          /\ IsFiniteSet(Supply(i))
          /\ Cardinality(Supply(i)) = Cardinality(Supply(i - 1)) + L
      BY <2>1, <2>4, <2>12, SupplyStep
    <3>4. /\ handlers \in Seq([name : STRING, from : DOMAIN Provides])
          /\ Len(handlers) <= MAX_HANDLERS /\ MAX_HANDLERS \in Nat
      BY Consts DEF TypeOK
    <3>5. /\ Len(handlers') <= Len(handlers) + L /\ Len(handlers') \in Nat
          /\ Len(handlers) <= Len(handlers') /\ Len(handlers') <= MAX_HANDLERS
          /\ Len(handlers') < MAX_HANDLERS => Len(handlers') = Len(handlers) + L
          /\ Len(handlers) + L <= MAX_HANDLERS => Len(handlers') = Len(handlers) + L
          /\ \A k \in 1 .. Len(handlers') :
                IF k <= Len(handlers) THEN handlers'[k] = handlers[k]
                ELSE /\ k - Len(handlers) \in 1 .. L
                     /\ handlers'[k].name = Provides[path][k - Len(handlers)]
                     /\ handlers'[k].from = path
      <4>1. Len(handlers') \in Nat
        BY <3>1, <3>2, <3>4, RegisteredFacts
      <4>2. /\ Len(Registered(path)) <= Len(handlers) + L
            /\ Len(handlers) <= Len(Registered(path)) /\ Len(Registered(path)) <= MAX_HANDLERS
            /\ Len(Registered(path)) < MAX_HANDLERS => Len(Registered(path)) = Len(handlers) + L
            /\ Len(handlers) + L <= MAX_HANDLERS => Len(Registered(path)) = Len(handlers) + L
        BY <3>1, <3>4, RegisteredFacts
      <4>3. \A k \in 1 .. Len(Registered(path)) :
                IF k <= Len(handlers) THEN Registered(path)[k] = handlers[k]
                ELSE /\ k - Len(handlers) \in 1 .. L
                     /\ Registered(path)[k].name = Provides[path][k - Len(handlers)]
                     /\ Registered(path)[k].from = path
        BY <3>1, <3>4, RegisteredFacts
      <4> HIDE DEF L, path
      <4> QED BY <3>2, <4>1, <4>2, <4>3
    <3>6. path \notin Available(i - 1) /\ \A c \in 1 .. i - 1 : plugins[c] # path
      BY <2>12 DEF Available
    <3> HIDE DEF path, L
    <3>7. \A k \in 1 .. Len(handlers') :
             /\ handlers'[k].from \in Available(i)
             /\ \E m \in 1 .. Len(Provides[handlers'[k].from]) :
                   Provides[handlers'[k].from][m] = handlers'[k].name
      <4> SUFFICES ASSUME NEW k \in 1 .. Len(handlers')
                   PROVE  /\ handlers'[k].from \in Available(i)
                          /\ \E m \in 1 .. Len(Provides[handlers'[k].from]) :
                                Provides[handlers'[k].from][m] = handlers'[k].name
        OBVIOUS
      <4>1. CASE k <= Len(handlers)
        <5>1. k \in 1 .. Len(handlers) /\ handlers'[k] = handlers[k]
          BY <2>8, <3>5, <4>1
        <5> QED BY <2>5, <3>3, <5>1 DEF Provided
      <4>2. CASE ~(k <= Len(handlers))
        BY <3>3, <3>5, <4>2 DEF L
      <4> QED BY <4>1, <4>2
    <3>8. ASSUME NEW j \in 1 .. Len(handlers'), NEW k \in 1 .. Len(handlers'), NEW b \in 1 .. i,
                 j <= k, plugins[b] = handlers'[k].from
          PROVE  \E a \in 1 .. b : plugins[a] = handlers'[j].from
      <4>1. CASE k <= Len(handlers)
        <5>1. /\ k \in 1 .. Len(handlers) /\ j \in 1 .. Len(handlers)
              /\ handlers'[k] = handlers[k] /\ handlers'[j] = handlers[j]
          BY <2>8, <3>5, <3>8, <4>1
        <5> QED BY <2>10, <3>8, <5>1
      <4>2. CASE ~(k <= Len(handlers))
        <5>1. plugins[b] = path
          BY <3>5, <3>8, <4>2
        <5>2. b = i
          BY <1>1, <3>6, <5>1
        <5>3. CASE j <= Len(handlers)
          <6>1. handlers'[j].from \in Available(i - 1)
            BY <2>5, <2>8, <3>5, <5>3
          <6>2. PICK a \in 1 .. i - 1 : plugins[a] = handlers'[j].from
            BY <2>9, <6>1
          <6> QED BY <1>1, <5>2, <6>2
        <5>4. CASE ~(j <= Len(handlers))
          BY <1>1, <3>5, <5>1, <5>2, <5>4
        <5> QED BY <5>3, <5>4
      <4> QED BY <4>1, <4>2
    <3>9. Origins'
      <4>1. \A k \in 1 .. Len(handlers') :
               handlers'[k].from \in Available(Done)' /\ Provided(handlers[k].from, handlers[k].name)'
        BY <2>3, <3>7 DEF Provided
      <4>2. \A j, k \in 1 .. Len(handlers'), b \in 1 .. Done' :
               j <= k /\ plugins'[b] = handlers'[k].from =>
                   \E a \in 1 .. b : plugins'[a] = handlers'[j].from
        BY <1>1, <2>2, <3>8
      <4> QED BY <4>1, <4>2 DEF Origins
    <3>10. plugins' = plugins /\ \A n : Available(n)' = Available(n) /\ Supply(n)' = Supply(n)
      BY <1>1 DEF Available, Supply
    \* No entry is lost, and the new library's are added if there is room.
    <3>11. ASSUME NEW n, Present(n) PROVE Present(n)'
      <4>1. ASSUME NEW p \in Available(n), NEW m \in 1 .. Len(Provides[p])
            PROVE  \E k \in 1 .. Len(handlers') :
                       handlers'[k].name = Provides[p][m] /\ handlers'[k].from = p
        <5>1. PICK k \in 1 .. Len(handlers) :
                       handlers[k].name = Provides[p][m] /\ handlers[k].from = p
          BY <3>11 DEF Present
        <5>2. k \in 1 .. Len(handlers') /\ k <= Len(handlers)
          BY <2>8, <3>5
        <5> QED BY <3>5, <5>1, <5>2
      <4> QED BY <3>10, <4>1 DEF Present
    <3>a. PICK c \in Nat, d \in Nat : c = i /\ d = i - 1
      BY <1>1
    <3>12. ASSUME Present(i - 1), Len(handlers') = Len(handlers) + L
           PROVE  Present(c)'
      <4>1. ASSUME NEW p \in Available(i - 1), NEW m \in 1 .. Len(Provides[p])
            PROVE  \E k \in 1 .. Len(handlers') :
                       handlers'[k].name = Provides[p][m] /\ handlers'[k].from = p
        <5>1. Present(d)'
          BY <3>a, <3>11, <3>12
        <5> QED BY <3>a, <3>10, <4>1, <5>1 DEF Present
      <4>2. ASSUME NEW m \in 1 .. L
            PROVE  \E k \in 1 .. Len(handlers') :
                       handlers'[k].name = Provides[path][m] /\ handlers'[k].from = path
        <5> DEFINE k == Len(handlers) + m
        <5>1. k \in 1 .. Len(handlers') /\ ~(k <= Len(handlers)) /\ k - Len(handlers) = m
          BY <2>8, <3>1, <3>12 DEF L
        <5> HIDE DEF k
        <5> QED BY <3>5, <5>1
      <4>3. ASSUME NEW p \in Available(i), NEW m \in 1 .. Len(Provides[p])
            PROVE  \E k \in 1 .. Len(handlers') :
                       handlers'[k].name = Provides[p][m] /\ handlers'[k].from = p
        <5>1. CASE p \in Available(i - 1)
          BY <4>1, <5>1
        <5>2. CASE p = path
          BY <4>2, <5>2 DEF L
        <5> QED BY <3>3, <5>1, <5>2
      <4> QED BY <3>a, <3>10, <4>3 DEF Present
    <3>13. Cardinality(Supply(i - 1)) \in Nat /\ L \in Nat /\ i - 1 \in 0 .. i - 1
      BY <1>1, <2>4, <3>1, FS_CardinalityType DEF L
    <3>14. Len(handlers') <= Cardinality(Supply(i))
      BY <2>7, <2>8, <3>3, <3>5, <3>13
    <3>15. Len(handlers') < MAX_HANDLERS => Present(c)'
      BY <2>7, <2>8, <3>4, <3>5, <3>12
    <3>16. ASSUME NEW n \in 0 .. i, Cardinality(Supply(n)) <= MAX_HANDLERS
           PROVE  Present(n)'
      <4>1. CASE n = i
        <5>1. Cardinality(Supply(i - 1)) <= MAX_HANDLERS /\ Len(handlers) + L <= MAX_HANDLERS
          BY <2>7, <2>8, <3>3, <3>4, <3>13, <3>16, <4>1
        <5> QED BY <2>7, <3>a, <3>5, <3>12, <3>13, <4>1, <5>1
      <4>2. CASE n # i
        <5>1. n \in 0 .. i - 1
          BY <1>1, <4>2
        <5> QED BY <2>7, <3>11, <3>16, <5>1
      <4> QED BY <4>1, <4>2
    <3>17. ASSUME NEW n \in 1 .. i, NEW k \in 1 .. Len(handlers'),
                  \A a \in 1 .. n : plugins[a] # handlers'[k].from
           PROVE  Present(n)'
      <4>1. n \in 1 .. i - 1
        <5>1. handlers'[k].from \in Available(i)
          BY <3>7
        <5>2. \E a \in 1 .. i : plugins[a] = handlers'[k].from
          BY <5>1 DEF Available
        <5> QED BY <1>1, <3>17, <5>2
      <4>2. CASE k <= Len(handlers)
        <5>1. k \in 1 .. Len(handlers) /\ handlers'[k] = handlers[k]
          BY <2>8, <3>5, <4>2
        <5>2. Present(n)
          BY <2>7, <3>17, <4>1, <5>1
        <5> QED BY <3>11, <5>2
      <4>3. CASE ~(k <= Len(handlers))
        <5>1. Len(handlers) < MAX_HANDLERS
          BY <2>8, <3>4, <3>5, <4>3
        <5>2. Present(n)
          <6>1. n \in Nat /\ i - 1 \in Nat /\ n <= i - 1
            BY <1>1, <4>1
          <6> QED BY <2>7, <5>1, <6>1, PresentBefore
        <5> QED BY <3>11, <5>2
      <4> QED BY <4>2, <4>3
    <3>18. Complete'
      <4>1. Present(Done)' <=> Present(c)'
        BY <2>3, <3>a, <3>10 DEF Present
      <4>2. \A n \in 0 .. Done' : Cardinality(Supply(n)') <= MAX_HANDLERS => Present(n)'
        BY <2>2, <3>10, <3>16
      <4>3. \A n \in 1 .. Done', k \in 1 .. Len(handlers') :
               (\A a \in 1 .. n : plugins'[a] # handlers'[k].from) => Present(n)'
        BY <2>2, <3>10, <3>17
      <4> QED BY <2>3, <3>14, <3>15, <4>1, <4>2, <4>3 DEF Complete
    <3> QED BY <2>1, <2>2, <2>3, <3>3, <3>9, <3>18 DEF Plugged
  <2> QED BY <2>11, <2>12
<1> QED BY <1>1, <1>3, <1>4

LEMMA RestartPlugged == ASSUME Restart PROVE Plugged'
<1>1. plugins' = <<>> /\ handlers' = <<>> /\ pc' = "load"
  BY FreshType DEF Restart
<1>2. Done' = 0
  BY <1>1 DEF Done
<1>3. Available(Done)' = {} /\ Supply(Done)' = {}
  BY <1>2 DEF Available, Supply
<1>4. IsFiniteSet(Supply(Done)') /\ Cardinality(Supply(Done)') = 0
  BY <1>3, FS_EmptySet
<1>5. Complete'
  <2>1. (\A n \in 0 .. 0 : Present(n)') /\ Present(Done)'
    BY <1>3 DEF Present, Available
  <2> QED BY <1>1, <1>2, <1>4, <2>1, NoneLoaded DEF Complete
<1> QED BY <1>1, <1>2, <1>3, <1>4, <1>5 DEF Plugged, Origins

LEMMA PluggedStep == ASSUME TypeOK, Plugged, [Next]_vars PROVE Plugged'
<1>1. CASE UNCHANGED vars
  <2>1. UNCHANGED <<plugins, handlers, pc>> /\ Done' = Done
    BY <1>1 DEF vars, config, Done
  <2>2. CASE pc = "load"
    <3>1. Available(Done)' = Available(Done) /\ Supply(Done)' = Supply(Done)
      BY <2>1 DEF Available, Supply
    <3>2. \A n : (Present(n)' <=> Present(n)) /\ Supply(n)' = Supply(n)
      BY <2>1 DEF Present, Available, Supply
    <3>3. Present(Done)' <=> Present(Done)
      BY <2>1, <3>1 DEF Present
    <3> QED BY <2>1, <3>1, <3>2, <3>3 DEF Plugged, Origins, Complete
  <2> QED BY <2>1, <2>2, PluggedKept
<1>2. CASE OpenPort \/ AddPort \/ SaveConfig \/ SaveFails
  <2>1. UNCHANGED <<plugins, handlers>> /\ pc' # "load" /\ Done' = Done
    BY <1>2 DEF OpenPort, AddPort, SaveConfig, SaveFails, config, Done
  <2> QED BY <2>1, PluggedKept
<1> QED BY <1>1, <1>2, LoadConfigPlugged, LoadPluginPlugged, RestartPlugged DEF Next

(****************************************************************************)
(* The theorems.                                                            *)
(****************************************************************************)

\* IInv is an inductive invariant.
THEOREM Inductive == Spec => []IInv
<1>1. Init => IInv
  <2> SUFFICES ASSUME Init PROVE IInv
    OBVIOUS
  <2>1. saved = NoConfig
    BY DEF Init
  <2> QED BY <2>1, InitType, InitTables, InitPlugged DEF IInv, FileIsSaved, SavedConfigReloads
<1>2. IInv /\ [Next]_vars => IInv'
  BY TypeStep, TablesStep, PluggedStep, FileStep, ReloadStep DEF IInv
<1> QED BY <1>1, <1>2, PTL DEF Spec

\* Every variable keeps its type: no table outgrows its array.
THEOREM TypeCorrect == Spec => []TypeOK
<1>1. IInv => TypeOK
  BY DEF IInv
<1> QED BY Inductive, <1>1, PTL

\* When the threads start, exactly the ports that were opened are in
\* g_port_table, in the order of the file, registered with epoll, and no
\* descriptor that ports_open_all opened is lost, whichever opens fail.
THEOREM PortsServed == Spec => []OpenedPortsServed
<1>1. IInv => OpenedPortsServed
  BY DEF IInv, Tables
<1> QED BY Inductive, <1>1, PTL

\* What save_config writes, load_config reads back: the same plugins, routes
\* and ports, but for ipc ports, after any number of restarts.
THEOREM Reloads == Spec => []SavedConfigReloads
<1>1. IInv => SavedConfigReloads
  BY DEF IInv
<1> QED BY Inductive, <1>1, PTL

\* Once the plugins are loaded, a route's handler comes from the first plugin of
\* config.json that provides it, whatever plugins cannot be loaded, come twice
\* or share handler names, as long as g_handlers has room for the plugins up to
\* that one; if it has not, no later plugin takes the handler's place.  No
\* handler is found that no plugin provides.
THEOREM FirstProvides == Spec => []HandlersResolve
<1>1. IInv => HandlersResolve
  <2> SUFFICES ASSUME IInv, pc \in {"open", "add", "run"}, NEW name
               PROVE  LET S == {k \in DOMAIN plugins :
                                  plugins[k] \in DOMAIN Provides /\ name \in ToSet(Provides[plugins[k]])}
                      IN  IF S = {} THEN GetHandler(name) = Missing
                          ELSE \/ GetHandler(name) = plugins[Min(S)]
                               \/ /\ GetHandler(name) = Missing
                                  /\ ~(Cardinality(Supply(Min(S))) <= MAX_HANDLERS)
    BY DEF HandlersResolve
  <2> DEFINE S == {k \in DOMAIN plugins :
                     plugins[k] \in DOMAIN Provides /\ name \in ToSet(Provides[plugins[k]])}
             found == {k \in DOMAIN handlers : handlers[k].name = name}
  <2>1. /\ TypeOK /\ Origins /\ Complete /\ Done = Len(plugins)
        /\ DOMAIN plugins = 1 .. Len(plugins) /\ DOMAIN handlers = 1 .. Len(handlers)
    BY DEF IInv, Plugged, Done, TypeOK
  \* The plugins that provide name.
  <2>2. \A k \in 1 .. Len(plugins) :
           k \in S <=> plugins[k] \in DOMAIN Provides /\ Provided(plugins[k], name)
    <3>1. \A path \in DOMAIN Provides : name \in ToSet(Provides[path]) <=> Provided(path, name)
      BY StartupAssumption DEF ToSet, Provided
    <3> QED BY <2>1, <3>1
  <2>3. \A f \in found : \E b \in S : plugins[b] = handlers[f].from
    <3> SUFFICES ASSUME NEW f \in found PROVE \E b \in S : plugins[b] = handlers[f].from
      OBVIOUS
    <3>1. /\ f \in 1 .. Len(handlers) /\ handlers[f].name = name
          /\ handlers[f].from \in Available(Len(plugins)) /\ Provided(handlers[f].from, name)
      BY <2>1 DEF Origins
    <3>2. PICK b \in 1 .. Len(plugins) : plugins[b] = handlers[f].from /\ plugins[b] \in DOMAIN Provides
      BY <3>1 DEF Available
    <3> QED BY <2>2, <3>1, <3>2
  <2>4. GetHandler(name) = IF found = {} THEN Missing ELSE handlers[Min(found)].from
    BY DEF GetHandler
  <2>5. /\ S \subseteq 1 .. Len(plugins) /\ found \subseteq 1 .. Len(handlers)
        /\ \A k \in 1 .. Len(handlers) : k \in found <=> handlers[k].name = name
    BY <2>1
  <2> HIDE DEF S, found
  <2>6. ASSUME S = {} PROVE GetHandler(name) = Missing
    BY <2>3, <2>4, <2>6
  <2>7. ASSUME S # {}
        PROVE  \/ GetHandler(name) = plugins[Min(S)]
               \/ /\ GetHandler(name) = Missing
                  /\ ~(Cardinality(Supply(Min(S))) <= MAX_HANDLERS)
    <3>1. S \in SUBSET Nat /\ found \in SUBSET Nat
      BY <2>5
    <3>2. Min(S) \in S /\ \A b \in S : Min(S) <= b
      BY <2>7, <3>1, LeastNat DEF Min
    <3>3. PICK a \in S : a = Min(S)
      BY <3>2
    <3>4. /\ a \in 1 .. Len(plugins) /\ a \in Nat
          /\ plugins[a] \in DOMAIN Provides /\ Provided(plugins[a], name)
      BY <2>2, <2>5
    \* When the first provider is complete, it has an entry for the handler.
    <3>5. ASSUME Present(a)
          PROVE  \E k \in found : handlers[k].from = plugins[a]
      <4>1. plugins[a] \in Available(a)
        BY <3>4 DEF Available
      <4>2. PICK k \in 1 .. Len(handlers) : handlers[k].name = name /\ handlers[k].from = plugins[a]
        BY <3>4, <3>5, <4>1 DEF Present, Provided
      <4> QED BY <2>5, <4>2
    \* An entry of a plugin no later than the first provider is the latter's own.
    <3>6. ASSUME NEW f \in found, NEW c \in 1 .. a, plugins[c] = handlers[f].from
          PROVE  plugins[a] = handlers[f].from
      <4>1. PICK b \in S : plugins[b] = handlers[f].from
        BY <2>3
      <4>2. c \in 1 .. Len(plugins) /\ c \in S
        BY <2>2, <2>5, <3>4, <3>6, <4>1
      <4>3. c = a
        BY <3>1, <3>2, <3>3, <3>6, <4>2
      <4> QED BY <3>6, <4>3
    <3>7. CASE found = {}
      <4>1. ~Present(a)
        BY <3>5, <3>7
      <4>2. a \in 0 .. Done
        BY <2>1, <3>4
      <4>3. ~(Cardinality(Supply(a)) <= MAX_HANDLERS)
        BY <2>1, <4>1, <4>2 DEF Complete
      <4> QED BY <2>4, <3>3, <3>7, <4>3
    <3>8. CASE found # {}
      <4>1. Min(found) \in found /\ \A k \in found : Min(found) <= k
        BY <3>1, <3>8, LeastNat DEF Min
      <4>2. PICK f \in found : f = Min(found)
        BY <4>1
      <4>3. f \in 1 .. Len(handlers)
        BY <2>5
      <4>4. PICK c \in 1 .. a : plugins[c] = handlers[f].from
        <5>1. CASE Present(a)
          <6>1. PICK k \in found : handlers[k].from = plugins[a]
            BY <3>5, <5>1
          <6>2. k \in 1 .. Len(handlers) /\ f <= k /\ a \in 1 .. Done
            BY <2>1, <2>5, <3>4, <4>1, <4>2
          <6> QED BY <2>1, <4>3, <6>1, <6>2 DEF Origins
        <5>2. CASE ~Present(a)
          <6>1. a \in 1 .. Done
            BY <2>1, <3>4
          <6> QED BY <2>1, <4>3, <5>2, <6>1 DEF Complete
        <5> QED BY <5>1, <5>2
      <4>5. plugins[a] = handlers[f].from
        BY <3>6, <4>4
      <4> QED BY <2>4, <3>3, <3>8, <4>2, <4>5
    <3> QED BY <3>7, <3>8
  <2> QED BY <2>6, <2>7 DEF S
<1> QED BY Inductive, <1>1, PTL
=============================================================================
