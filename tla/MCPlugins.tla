------------------------------ MODULE MCPlugins ------------------------------
(***************************************************************************)
(* Small instances of Plugins: services of all three types, each with the  *)
(* sources that its parser tells apart.                                    *)
(***************************************************************************)
EXTENDS Plugins, TLC

MCParseInt == ("0" :> 0) @@ ("7" :> 7) @@ ("80" :> 80)
MCBlanks == {"", "\t"}

\* Lines: fields split at spaces, parts split at colons
Good1 == << <<"h", "80">>, <<"7">> >>
Good2 == << <<"i">> >>
Good3 == << <<"i", "80">> >>
MCLines ==
  { Good1, Good2, Good3,
    << <<"">>, <<"\t">> >>,              \* blank
    << <<"h">>, <<"7">>, <<"7">> >>,     \* a field too many
    << <<"h", "80", "80">> >>,           \* a part too many
    << <<"h", "80">>, <<"80">> >>,       \* the same address with another weight
    << <<"h", "x">> >> }                 \* no number
MCZeroLines == { Good1, << <<"h">>, <<"0">> >> }

MCSaid == [host : {"h", "i"}, port : {0, 80}, weight : {-1, 0, 7, 80}]

Text(lines) == [lines |-> lines, json |-> [kind |-> "invalid", list |-> <<>>]]
\* A file in JSON, on one line with spaces
Json(kind, list) == [lines |-> << << <<"[">>, <<"{">>, <<"]">> >> >>, json |-> [kind |-> kind, list |-> list]]

Entry(ip, w) == [ip |-> ip, weight |-> w]
Map1 == Entry([host |-> "h", port |-> 80], 7)
MCMaps == { Map1, Entry([host |-> "i", port |-> 0], 0),
            Entry(NoValue, 7), Entry([host |-> "h", port |-> 0], NoValue) }

\* Nothing, or anything before one that is good
Before(good, all) == {<<>>} \cup {<<x, good>> : x \in all}

MCTexts == {Text(l) : l \in Before(Good1, MCLines)}
MCJsons == {Json("list", l) : l \in Before(Map1, MCMaps)} \cup {Json("other", <<>>)}

Container(state, labels, ports, networks) ==
  [state |-> state, labels |-> labels, ports |-> ports, networks |-> networks]
V5 == ("version" :> "v5")
V6 == ("version" :> "v6")
Container1 == Container("running", V5, <<80>>, {"n1"})
MCContainers ==
  { Container1,
    Container("running", V6 @@ ("tier" :> "web"), <<80, 81>>, {"n1", "n2"}),
    Container("running", <<>>, <<>>, {}),
    Container("paused", V5, <<80>>, {"n1"}) }

Dynamic(labels, w) == [matchLabels |-> labels, weight |-> w]
MCDynamic ==
  { <<>>, << Dynamic(V5, 100), Dynamic(V6, 0) >>, << Dynamic("tier" :> "web", 9), Dynamic(V6, 5) >> }

Socket(f, ip, port, state) == [file |-> f, ip |-> ip, port |-> port, state |-> state]
Loopback6 == [i \in 1 .. 16 |-> IF i = 16 THEN 1 ELSE 0]
Socket1 == Socket("/proc/net/tcp", <<10, 1, 2, 3>>, 8001, "0A")
MCSockets ==
  { Socket1, Socket("/proc/net/tcp", <<127, 0, 0, 1>>, 8000, "0A"),
    Socket("/proc/net/tcp", <<10, 1, 2, 200>>, 8090, "0A"),
    Socket("/proc/net/tcp", <<10, 1, 2, 3>>, 8002, "01"),
    Socket("/proc/net/tcp", <<10, 1, 4, 3>>, 8001, "0A"),  \* just outside of 10.1.0.0/22
    Socket("/proc/net/tcp", <<10, 1, 9, 3>>, 65535, "0A"),
    Socket("/proc/net/udp", <<10, 1, 2, 3>>, 8001, "07"),
    Socket("/proc/net/tcp6", Loopback6, 8000, "0A") }

\* Addresses as Go orders their strings: ":0", "h", "h:80" and so on, and "10.1.2.200:8090"
\* to "127.0.0.1:8000".  A host of the first list is shorter than the four bytes of the other.
A(host, port) == [host |-> host, port |-> port]
MCNamed ==
  << A("", 0), A("h", 0), A("h", 80), A("i", 0), A("i", 80), A("n1", 80), A("n1", 81), A("n2", 81) >>
MCNumbered ==
  << A(<<10, 1, 2, 200>>, 8090), A(<<10, 1, 2, 3>>, 8001), A(<<10, 1, 4, 3>>, 8001),
     A(<<10, 1, 9, 3>>, 65535), A(<<127, 0, 0, 1>>, 8000) >>
MCLess(a, b) ==
  LET list == IF Len(a.host) < 4 THEN MCNamed ELSE MCNumbered IN
  \E i, j \in DOMAIN list : i < j /\ list[i] = a /\ list[j] = b

FileService(type) == [type |-> "proxyFromFile", spec |-> [type |-> type, defaultWeight |-> 10]]
DockerService(weights) == [type |-> "dockerFrontProxy", spec |-> [dynamicWeights |-> weights]]
SocketService(proto, ip, bits, from, to, settings) ==
  [type |-> "socketFrontProxy", settings |-> settings,
   spec |-> [protocol |-> proto, from |-> from, to |-> to, address |-> [ip |-> ip, bits |-> bits]]]

MCTextService == {FileService("text")}
MCOneDocker == {DockerService(<<>>)}
MCDocker == {DockerService(weights) : weights \in MCDynamic}
MCTcp ==
  { SocketService("tcp", <<10, 1, 0, 0>>, 22, 8000, 8090, <<>>),
    SocketService("tcp", <<0, 0, 0, 0>>, 0, 8001, 65535, <<>>) }
MCService == MCTextService \cup {FileService("json")} \cup MCDocker \cup MCTcp

MCUdp == SocketService("udp", <<0, 0, 0, 0>>, 0, 8000, 8090, <<>>)
MCTcp6 == SocketService("tcp", Loopback6, 128, 8000, 8090, [procnet |-> "/proc/net/tcp6"])
MCOtherSockets == { MCUdp, MCTcp6 }

ContentsOf(files, sockets) ==
  [proxyFromFile |-> files \cup {NoFile}, dockerFrontProxy |-> Before(Container1, MCContainers),
   socketFrontProxy |-> Before(Socket1, sockets)]
MCContents == ContentsOf(MCTexts \cup MCJsons, MCSockets)
MCZeroContents == ContentsOf({Text(<<l>>) : l \in MCZeroLines}, {})
MCGoodContents == ContentsOf({Text(<<Good1>>), Text(<<Good2>>)}, {})

=============================================================================
