------------------------------- MODULE Plugins -------------------------------
(***************************************************************************)
(* One service with its plugin, in detail: what the plugin looks at, the   *)
(* notification loop, and the worker that reads the plugin's data whenever *)
(* it is notified.  ServiceWorker has the same goroutines with a source    *)
(* that is only counted; here are the data, the file watcher library with  *)
(* files that go away and come back, and the weights.                      *)
(***************************************************************************)
EXTENDS ProxyFromFile, DockerFrontProxy, SocketFrontProxy, SequencesExt

CONSTANTS
  Service,    \* services: type and spec (and, for sockets, settings)
  Contents,   \* for each type what its source may hold
  Said,       \* the backends that a line of a text can name; a weight of -1 is none
  Less(_, _), \* the order of two addresses as strings; strict, and total up to ties
  MaxVersion  \* bound: changes of the source

ASSUME PluginsAssumption ==
  /\ MaxVersion \in Nat \ {0}
  /\ \A s \in Service : s.type \in {"proxyFromFile", "dockerFrontProxy", "socketFrontProxy"}

\* The model, the API of docker and a parsed file have slices.
ASSUME ListsAssumption ==
  /\ \A s \in Service : s.type = "dockerFrontProxy" =>
       s.spec.dynamicWeights \in Seq(ToSet(s.spec.dynamicWeights))
  /\ \A list \in Contents["dockerFrontProxy"] :
       /\ list \in Seq(ToSet(list))
       /\ \A k \in DOMAIN list : list[k].ports \in Seq(ToSet(list[k].ports))
  /\ \A file \in Contents["proxyFromFile"] \ {NoFile} :
       /\ file.json.kind = "list" => file.json.list \in Seq(ToSet(file.json.list))
       /\ file.lines \in Seq(ToSet(file.lines))
       /\ \A line \in ToSet(file.lines) :
            line \in Seq(ToSet(line)) /\ \A field \in ToSet(line) : field \in Seq(ToSet(field))

VARIABLES
  service,    \* the service
  source,     \* a file, the list of containers, or the sockets of the host
  version,    \* counts the changes of the source; a file's modification time
  watched,    \* file: the version the library has found; 0: it does not watch
  events,     \* file: its goroutines blocked on w.Event
  told,       \* docker: the version of the last event the loop has received
  pings,      \* docker: goroutines blocked on notChan
  listeners,  \* sockets: lastListeners
  loopPc, found, last,  \* the loop: where it is; mt and lastModTime of a file, for
                        \* docker the version it subscribed at
  workerPc, data        \* the worker, and what it has got from the plugin

sourceVars == <<service, source, version>>
loopVars == <<watched, events, told, pings, listeners, loopPc, found, last>>
workerVars == <<workerPc, data>>
pluginVars == <<sourceVars, loopVars, workerVars>>

\* ReadPluginSpecByTypeString
IsFile == service.type = "proxyFromFile"
IsDocker == service.type = "dockerFrontProxy"
IsSocket == service.type = "socketFrontProxy"

PluginsInit ==
  /\ service \in Service
  /\ source \in Contents[service.type]
  /\ version = 1
  /\ watched = 0 /\ events = {}
  /\ told = 0 /\ pings = 0
  /\ listeners = <<>>
  /\ loopPc = "none" /\ found = 0 /\ last = 0
  /\ workerPc = "query" /\ data = <<>>

-----------------------------------------------------------------------------
(***************************************************************************)
(* What the plugin looks at                                                *)
(***************************************************************************)
Hex(byte) == <<byte \div 16, byte % 16>>

\* The kernel prints each word of four bytes as a number of the host, which has the
\* low byte first, and the port as a number.
Printed(s) ==
  LET byte(i) == (4 * ((i - 1) \div 4) + 4) - ((i - 1) % 4)  \* the i-th byte printed
      digit(i) == Hex(s.ip[byte((i + 1) \div 2)])[2 - (i % 2)]
  IN  [ip |-> [i \in 1 .. 2 * Len(s.ip) |-> digit(i)],
       port |-> Hex(s.port \div 256) \o Hex(s.port % 256),
       state |-> s.state]

\* Addresses have bytes, 4 of them in /proc/net/tcp, and no line looks like the title.
ASSUME SocketsAssumption ==
  \A list \in Contents["socketFrontProxy"] :
    /\ list \in Seq(ToSet(list))
    /\ \A k \in DOMAIN list :
         /\ list[k].ip \in Seq(0 .. 255) /\ list[k].port \in Nat
         /\ list[k].file = "/proc/net/tcp" => Len(list[k].ip) = 4
         /\ Printed(list[k]) # Title

\* There is a file for each protocol and address family.
ProcNet ==
  LET path == ProcNetFile(service.spec, service.settings)
      there == Filter(source, {i \in DOMAIN source : source[i].file = path})
  IN  <<Title>> \o [i \in DOMAIN there |-> Printed(there[i])]

\* A change, or for a file also its removal: docker reports it to subscribers.
Change ==
  /\ version < MaxVersion
  /\ version' = version + 1
  /\ source' \in Contents[service.type] \ {source}
  /\ UNCHANGED <<service, loopVars, workerVars>>

-----------------------------------------------------------------------------
(***************************************************************************)
(* The worker                                                              *)
(***************************************************************************)
GetDownwardData ==
  CASE IsFile -> {FileData(source, service.spec)}
    [] IsDocker -> ContainerData(source, service.spec)
    [] IsSocket -> {ListenerData(listeners, service.spec)}

\* type byAddress
Address(b) == [host |-> b.host, port |-> b.port]
ByAddress(list) ==
  \A i, j \in DOMAIN list : i < j => ~ Less(Address(list[j]), Address(list[i]))

\* sort.Sort(byAddress(data)), which need not keep the order of equal addresses
SortsOf(list) ==
  {sorted \in {[i \in DOMAIN list |-> list[to[i]]] : to \in Bijection(DOMAIN list, DOMAIN list)} :
     ByAddress(sorted)}

\* What the worker makes of the plugin's data
SortedData == UNION {SortsOf(list) : list \in GetDownwardData}

\* queryAndProcessDownwardData
Query ==
  /\ workerPc = "query"
  /\ data' \in SortedData
  /\ workerPc' = IF loopPc = "none" THEN "start" ELSE "select"
  /\ UNCHANGED <<sourceVars, loopVars>>

\* Mutant: lastModTime starts with the modification time that the file has.
StartLoop_AsRead ==
  /\ workerPc = "start"
  /\ workerPc' = "select"
  /\ loopPc' = "select"
  /\ watched' = IF IsFile /\ source # NoFile THEN version ELSE 0
  /\ events' = IF IsFile THEN {"start"} ELSE {}
  /\ told' = version
  /\ last' = version
  /\ UNCHANGED <<sourceVars, pings, listeners, found, data>>

\* go p.RunNotificationLoop.  The library watches a file that is there; docker
\* reports what happens from now on.
StartLoop ==
  /\ workerPc = "start"
  /\ workerPc' = "select"
  /\ loopPc' = "select"
  /\ watched' = IF IsFile /\ source # NoFile THEN version ELSE 0
  /\ events' = IF IsFile THEN {"start"} ELSE {}
  /\ told' = version
  /\ last' = IF IsDocker THEN version ELSE 0
  /\ UNCHANGED <<sourceVars, pings, listeners, found, data>>

\* The worker takes a notification; the file loop goes on to store mt.
Notified ==
  /\ workerPc = "select"
  /\ workerPc' = "query"
  /\ \/ loopPc = "notify" /\ loopPc' = "select" /\ UNCHANGED pings
     \/ pings > 0 /\ pings' = pings - 1 /\ UNCHANGED loopPc
  /\ last' = IF IsFile THEN found ELSE last
  /\ UNCHANGED <<sourceVars, watched, events, told, listeners, found, data>>

-----------------------------------------------------------------------------
(***************************************************************************)
(* The notification loops                                                  *)
(***************************************************************************)
\* The library polls: it reports another modification time, and forgets a file that
\* is gone.
Poll ==
  /\ watched # 0
  /\ "poll" \notin events
  /\ IF source = NoFile
     THEN watched' = 0 /\ UNCHANGED events
     ELSE watched # version /\ watched' = version /\ events' = events \cup {"poll"}
  /\ UNCHANGED <<sourceVars, told, pings, listeners, loopPc, found, last, workerVars>>

\* case event := <-w.Event: os.Stat, and a notification if the file has changed.
FileEvent ==
  /\ loopPc = "select"
  /\ \E e \in events : events' = events \ {e}
  /\ IF source # NoFile /\ version > last
     THEN loopPc' = "notify" /\ found' = version
     ELSE UNCHANGED <<loopPc, found>>
  /\ UNCHANGED <<sourceVars, watched, told, pings, listeners, last, workerVars>>

\* case msg := <-msgs: a goroutine pings 50 ms later.
ContainerEvent ==
  /\ IsDocker
  /\ loopPc = "select"
  /\ told < version
  /\ told' = told + 1
  /\ pings' = pings + 1
  /\ UNCHANGED <<sourceVars, watched, events, listeners, loopPc, found, last, workerVars>>

\* case <-time.After(1000 * time.Millisecond)
Tick ==
  /\ IsSocket
  /\ loopPc = "select"
  /\ \E lines \in {ProcNet} : listeners' = ParseProcNetTcpUdp(lines)
  /\ listeners' # listeners
  /\ loopPc' = "notify"
  /\ UNCHANGED <<sourceVars, watched, events, told, pings, found, last, workerVars>>

LoopRuns == Poll \/ FileEvent \/ ContainerEvent \/ Tick
WorkerRuns == Query \/ StartLoop \/ Notified

PluginsNext == Change \/ LoopRuns \/ WorkerRuns

\* The goroutines of the loop, of the library and of the worker run.
PluginsSpec ==
  /\ PluginsInit /\ [][PluginsNext]_pluginVars
  /\ WF_pluginVars(Poll)
  /\ WF_pluginVars(FileEvent \/ ContainerEvent \/ Tick)
  /\ WF_pluginVars(WorkerRuns)

-----------------------------------------------------------------------------
(***************************************************************************)
(* Properties                                                              *)
(***************************************************************************)
PluginsTypeOK ==
  /\ service \in Service
  /\ source \in Contents[service.type]
  /\ {version, watched, told, found, last} \subseteq 0 .. MaxVersion
  /\ events \subseteq {"start", "poll"}
  /\ pings \in 0 .. MaxVersion
  /\ loopPc \in {"none", "select", "notify"}
  /\ workerPc \in {"query", "start", "select"}
  /\ loopPc = "none" <=> workerPc = "start" \/ (workerPc = "query" /\ told = 0)
  /\ watched # 0 => IsFile
  /\ last <= found \/ IsDocker

\* What a line says: (IP|Host)[:PORT] [WEIGHT] (proxy-from-file.go:125)
Written(b) ==
  LET number(n) == CHOOSE t \in DOMAIN ParseInt : ParseInt[t] = n
  IN  << IF b.port = 0 THEN <<b.host>> ELSE <<b.host, number(b.port)>> >>
        \o IF b.weight < 0 THEN <<>> ELSE << << number(b.weight) >> >>

\* Each line that says something is in the list once; no weight is the default weight.
TextDescribes(list) ==
  LET entries(line) == {b \in Said : Written(b) = line}
      good == {k \in DOMAIN source.lines : entries(source.lines[k]) # {}}
      weight(b) == IF b.weight < 0 THEN service.spec.defaultWeight ELSE b.weight
  IN  \E at \in Bijection(DOMAIN list, good) : \A i \in DOMAIN list :
        \E b \in entries(source.lines[at[i]]) : list[i] = [b EXCEPT !.weight = weight(b)]

\* Each map with an ip and a weight
JSONDescribes(list) ==
  LET maps == source.json.list
      good == {k \in DOMAIN maps : NoValue \notin {maps[k].ip, maps[k].weight}}
  IN  \E at \in Bijection(DOMAIN list, good) : \A i \in DOMAIN list :
        LET m == maps[at[i]] IN
        list[i] = [host |-> m.ip.host, port |-> m.ip.port, weight |-> m.weight]

\* Each running container once, with one of its addresses and one of its ports.  "all
\* containers with label version=v5 will get a weight of 100"
\* (examples/dynamic-weights.yaml:18); where the entries that match disagree, the weight
\* of one of them.
ContainersDescribe(list) ==
  LET running == {k \in DOMAIN source : source[k].state = "running"}
      weights == service.spec.dynamicWeights
      asked(c) == {weights[k].weight :
                     k \in {k \in DOMAIN weights : Matches(weights[k].matchLabels, c)}}
  IN  \E at \in Bijection(DOMAIN list, running) : \A i \in DOMAIN list :
        LET c == source[at[i]] IN
        /\ list[i].host \in c.networks \/ c.networks = {}
        /\ list[i].port \in ToSet(c.ports) \/ c.ports = <<>>
        /\ IF weights = <<>> THEN list[i].weight < 0
           ELSE IF asked(c) = {} THEN list[i].weight = 0
           ELSE list[i].weight \in asked(c)

\* The k-th bit of an address
Bit(ip, k) == (ip[((k - 1) \div 8) + 1] \div Block[((k - 1) % 8) + 2]) % 2

\* Each listening socket of the protocol, in the range and in the network, once
\* (socket-front-proxy.go:81-82)
SocketsDescribe(list) ==
  LET spec == service.spec
      path == IF "procnet" \in DOMAIN service.settings THEN service.settings.procnet
              ELSE [tcp |-> "/proc/net/tcp", udp |-> "/proc/net/udp"][spec.protocol]
      wanted(s) ==
        /\ s.file = path
        /\ s.state = IF spec.protocol = "udp" THEN "07" ELSE "0A"
        /\ s.port \in spec.from .. spec.to
        /\ \A k \in 1 .. spec.address.bits : Bit(s.ip, k) = Bit(spec.address.ip, k)
  IN  \E at \in Bijection(DOMAIN list, {k \in DOMAIN source : wanted(source[k])}) :
        \A i \in DOMAIN list :
          list[i].host = source[at[i]].ip /\ list[i].port = source[at[i]].port

FileDescribes(list) ==
  CASE source = NoFile -> list = <<>>
    [] source # NoFile /\ service.spec.type = "text" -> TextDescribes(list)
    [] OTHER -> IF source.json.kind = "list" THEN JSONDescribes(list) ELSE list = <<>>

SourceDescribes(list) ==
  CASE IsFile -> FileDescribes(list)
    [] IsDocker -> ContainersDescribe(list)
    [] IsSocket -> SocketsDescribe(list)

\* A file that the library still watches, containers that have changed since the
\* subscription.
Heard ==
  /\ IsFile => watched # 0
  /\ IsDocker => last < version

AtRest ==
  /\ workerPc = "select" /\ loopPc = "select"
  /\ events = {} /\ pings = 0
  /\ IsFile => watched = version
  /\ IsDocker => told = version
  /\ IsSocket => listeners = ParseProcNetTcpUdp(ProcNet)
  /\ Heard

\* When nothing is under way, the worker has what it would get and sort now: no
\* change is lost between the query, the event, os.Stat or the subscription, and the
\* notification it waits for (serviceworker.go:112-115, proxy-from-file.go:207-253,
\* docker-front-proxy.go:168-204, socket-front-proxy.go:119-146).
FreshAtRest == AtRest => data \in SortedData

\* When nothing is under way and the library watches the file, the worker has exactly
\* what it says, wherever between reading, noticing and notifying its last change came:
\* each good line or map once, whatever stands next to it, sorted by address
\* (proxy-from-file.go:65-199, 207-253, serviceworker.go:63-93).
FileAsDescribed == AtRest /\ IsFile => FileDescribes(data) /\ ByAddress(data)

\* The same for containers that have changed since the subscription: those that run,
\* with their address and weight (docker-front-proxy.go:90-156, 168-204,
\* serviceworker.go:63-93).
ContainersAsDescribed == AtRest /\ IsDocker => ContainersDescribe(data) /\ ByAddress(data)

\* The same for the sockets: those that listen in the range and the network, as
\* the kernel has them (socket-front-proxy.go:83-111, procnet.go:27-98,
\* serviceworker.go:63-93).
SocketsAsDescribed == AtRest /\ IsSocket => SocketsDescribe(data) /\ ByAddress(data)

\* And that becomes so once the changes have come to an end, for what is still heard of
\* (serviceworker.go:112-115).
FollowsSource == <>[](Heard => SourceDescribes(data) /\ ByAddress(data))

\* Also for a file that was away for a while, and for containers that have changed
\* only before the subscription.
FollowsAll == <>[]SourceDescribes(data)

\* A backend whose source names no weight gets that of the service: "ipvsctl-style
\* initial weight, default: 1000" (model.go:17), "Dynamic weight if assigned"
\* (model.go:137).
NoWeightIsNone == IsSocket => \A i \in DOMAIN data : data[i].weight < 0

=============================================================================
