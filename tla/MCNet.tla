------------------------------- MODULE MCNet -------------------------------
(* Instances of the parts of the network for TLC.  The parts share no state:
   each behaviour is one of a single part, the others staying as they start. *)
EXTENDS Ne2000, Arp, Udp, IpStack, Dhcp, Dns, TLC

VARIABLE netPart

netVars == <<neVars, arpVars, udpVars, ipVars, dhcpVars, dnsVars, netPart>>

NetInit ==
    /\ netPart \in {"card", "arp", "udp", "ip", "dhcp", "dns"}
    /\ NeInit /\ ArpInit /\ UdpInit /\ IpInit /\ DhcpInit /\ DnsInit

NetNext ==
    /\ UNCHANGED netPart
    /\ \/ netPart = "card" /\ NeNext /\ UNCHANGED <<arpVars, udpVars, ipVars, dhcpVars, dnsVars>>
       \/ netPart = "arp" /\ ArpNext /\ UNCHANGED <<neVars, udpVars, ipVars, dhcpVars, dnsVars>>
       \/ netPart = "udp" /\ UdpNext /\ UNCHANGED <<neVars, arpVars, ipVars, dhcpVars, dnsVars>>
       \/ netPart = "ip" /\ IpNext /\ UNCHANGED <<neVars, arpVars, udpVars, dhcpVars, dnsVars>>
       \/ netPart = "dhcp" /\ DhcpNext /\ UNCHANGED <<neVars, arpVars, udpVars, ipVars, dnsVars>>
       \/ netPart = "dns" /\ DnsNext /\ UNCHANGED <<neVars, arpVars, udpVars, ipVars, dhcpVars>>

NetSpec == NetInit /\ [][NetNext]_netVars

(* Of a task that was killed only its socket matters.                       *)
UdpView ==
    LET ended == {o \in Owners : sockPc[o] = "killed"}
    IN <<stab, locPort, remAddr, bufs, sockPc, [o \in Owners |-> IF o \in ended THEN NoPort ELSE newPort[o]],
         usedPorts, netTaskVars, freed, udpRaced, udpMissed \ ended, udpAwaken \ ended, sockRaced>>

NetView ==
    <<netPart, CASE netPart = "card" -> neVars [] netPart = "arp" -> arpVars [] netPart = "udp" -> UdpView
                 [] netPart = "ip" -> ipVars [] netPart = "dhcp" -> dhcpVars [] netPart = "dns" -> dnsVars>>

(* Sockets are interchangeable, and so are peers, and tasks that send.      *)
NetSymmetry == Permutations(Owners) \cup Permutations(Peers) \cup Permutations(Senders)

(* Frames of one page and of two, one of which ends in its last cells; headers
   that are refused.                                                        *)
MCArrivals == ({2, 5} \X {"PRX"}) \cup ({2} \X {"FO", "other"})

MCMacs == {<<"mac", ip>> : ip \in Ips}
MCHostMac == [ip \in Ips |-> <<"mac", ip>>]

(* A default route, a second one, and two networks, one inside the other.   *)
Route(base, mask, gateway) == [base |-> base, mask |-> mask, gateway |-> gateway]
MCRoutes == {Route(1, 0, 5), Route(5, 4, 0), Route(5, 6, 0)}

(* Echo requests with every pair of checksums, with and without options; packets
   with every checksum of the header and an odd value of one field each.    *)
PacketsOf(version, ihl, ttl, proto, dst, type, icsum, opts, after) ==
    [kind : {"in"}, version : {version}, ihl : {ihl}, ttl : {ttl}, proto : {proto}, src : {5},
     dst : {dst}, csum : Word, opts : {opts}, type : {type}, icsum : icsum, data : {<<7, 6>>},
     after : {after}]
EchoWith(opts, after) == PacketsOf(4, 5 + Len(opts), 3, 1, 6, 1, Word, opts, after)
OddPackets(version, ihl, ttl, proto, dst, type) ==
    PacketsOf(version, ihl, ttl, proto, dst, type, {2}, <<>>, <<>>)
MCPackets ==
    UNION {EchoWith(<<>>, <<>>), EchoWith(<<2>>, <<0>>), EchoWith(<<2, 4>>, <<0, 3>>),
           EchoWith(<<1, 1, 1>>, <<0, 0, 0>>), EchoWith(<<1, 2, 3, 4, 5, 7>>, <<0, 0, 0, 0, 0, 1>>),
           OddPackets(4, 5, 3, 1, 7, 1), OddPackets(4, 5, 3, 1, 1, 1), OddPackets(4, 5, 3, 1, 6, 0),
           OddPackets(4, 5, 3, 2, 6, 1), OddPackets(4, 5, 0, 1, 6, 1), OddPackets(4, 4, 3, 1, 6, 1),
           OddPackets(6, 5, 3, 1, 6, 1)}
MCBodies == {<<0, 0, 0>>, <<3, 0, 2>>, <<7, 3, 5>>, <<7, 7, 1>>, <<7, 7, 7>>}

(* One server with five name servers, one without a mask, with two routers, and
   with its name servers in two parts.                                      *)
Opt(code, vals) == [code |-> code, vals |-> vals]
MCAddrOf == [s \in Servers |-> s + 10]
MCOptsOf == [s \in Servers |->
    IF s = 101 THEN <<Opt(1, <<24>>), Opt(3, <<21>>), Opt(6, <<31, 32, 33, 34, 35>>)>>
               ELSE <<Opt(6, <<41, 42>>), Opt(3, <<51, 52>>), Opt(6, <<43>>)>>]

(* Names of one to three labels, of one to six characters.                  *)
ch == [a |-> 97, b |-> 98]
MCHosts == {<<ch.a>>, <<ch.a, DOT, ch.b>>, <<ch.a, ch.b, DOT, ch.b, ch.b, ch.a>>,
            <<ch.a, ch.b, ch.b, DOT, ch.a, ch.b, ch.b, ch.a>>,
            <<ch.a, DOT, ch.b, DOT, ch.a, ch.b>>, <<ch.a, ch.b, ch.a, ch.b, ch.a, ch.a>>}
MCAnswers == UNION {[1..n -> [type : {1}, ip : {7, 8}, alias : {<<>>}] \cup
    [type : {5}, ip : {9}, alias : {<<ch.b>>, <<ch.b, ch.a, ch.b, DOT, ch.a, ch.a, ch.a>>}]] : n \in 0..3}
=============================================================================
