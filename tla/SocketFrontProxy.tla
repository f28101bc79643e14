--------------------------- MODULE SocketFrontProxy ---------------------------
(***************************************************************************)
(* plugins/socket-front-proxy: how /proc/net becomes a list of backends.   *)
(*                                                                         *)
(* A line of /proc/net has the local address, as the hexadecimal digits of *)
(* an ip and a port, and the state of the socket; the first line is a      *)
(* title.  An ip is a sequence of 4 or 16 bytes; one of 16 bytes is not an *)
(* address of IPv4 written in IPv6.                                        *)
(***************************************************************************)
EXTENDS Filtering

CONSTANTS
  Title,   \* the first line
  NoCIDR   \* an address that is not in CIDR form

db(s) == 16 * s[1] + s[2]
dw(s) == 256 * db(SubSeq(s, 1, 2)) + db(SubSeq(s, 3, 4))

dip4(s) == [i \in 1 .. 4 |-> db(SubSeq(s, 9 - 2 * i, 10 - 2 * i))]
dip6(s) == [i \in 1 .. 16 |-> db(SubSeq(s, 33 - 2 * i, 34 - 2 * i))]

\* Sockets in another state than 0A (listening) are skipped.
ParseProcNetTcpUdp(lines) ==
  LET listens(l) == l # Title /\ l.state = "0A" /\ Len(l.ip) \in {8, 32}
      listening == Filter(lines, {i \in DOMAIN lines : listens(lines[i])})
  IN  [i \in DOMAIN listening |->
        [ip   |-> IF Len(listening[i].ip) = 8 THEN dip4(listening[i].ip) ELSE dip6(listening[i].ip),
         port |-> dw(listening[i].port)]]

\* Initialize: "udp" is overwritten at once.
ProcNetFile(spec, settings) ==
  IF "procnet" \in DOMAIN settings THEN settings.procnet ELSE "/proc/net/tcp"

\* Block[n + 1] bytes share their first n bits.
Block == <<256, 128, 64, 32, 16, 8, 4, 2, 1>>
Masked(byte, n) == byte - (byte % Block[n + 1])

\* The bits of the mask in the i-th byte, for a prefix of that many bits
MaskBits(bits, i) ==
  IF 8 * i <= bits THEN 8 ELSE IF bits <= 8 * (i - 1) THEN 0 ELSE bits - 8 * (i - 1)

\* net.ParseCIDR and Contains, which compares byte by byte under the mask
InNetwork(cidr, ip) ==
  /\ Len(cidr.ip) = Len(ip)
  /\ \A i \in DOMAIN ip :
       LET n == MaskBits(cidr.bits, i) IN Masked(cidr.ip[i], n) = Masked(ip[i], n)

\* Mutant: the upper end of the range is left out.
ListenerData_HalfOpen(listeners, spec) ==
  LET matching(l) ==
        /\ spec.from <= l.port /\ l.port < spec.to
        /\ spec.address # NoCIDR /\ InNetwork(spec.address, l.ip)
      found == Filter(listeners, {i \in DOMAIN listeners : matching(listeners[i])})
  IN  [i \in DOMAIN found |-> [host |-> found[i].ip, port |-> found[i].port, weight |-> 0]]

\* GetDownwardData.  The weight is not set, which is a weight of 0.
ListenerData(listeners, spec) ==
  LET matching(l) ==
        /\ spec.from <= l.port /\ l.port <= spec.to
        /\ spec.address # NoCIDR /\ InNetwork(spec.address, l.ip)
      found == Filter(listeners, {i \in DOMAIN listeners : matching(listeners[i])})
  IN  [i \in DOMAIN found |-> [host |-> found[i].ip, port |-> found[i].port, weight |-> 0]]

=============================================================================
