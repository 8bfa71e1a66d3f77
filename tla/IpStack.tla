------------------------------ MODULE IpStack ------------------------------
(***************************************************************************)
(* IP: the routing table (route.c), the packets that come in (ip.c,        *)
(* icmp.c) and the UDP packets that go out (udp_write of udp.c).           *)
(*                                                                         *)
(* Words, addresses and masks have Bits bits instead of 16 or 32; a mask   *)
(* is contiguous, so that 2^Bits - mask is the size of its network.        *)
(* Headers are the words that a checksum covers: of those with constant    *)
(* values (type of service, id, fragment) there is none, and the length of *)
(* the header stands for all of the first 4 bytes.  Options have one word  *)
(* for each 4 bytes.                                                       *)
(***************************************************************************)
EXTENDS Naturals, Integers, Sequences, SequencesExt, FiniteSetsExt

CONSTANTS
    Bits,           \* width of a word and of an address
    Adders,         \* tasks that add routes
    RouteArgs,      \* arguments of route_add: [base, mask, gateway]
    IpPackets,      \* what arrives
    OurIps,         \* addresses of the card
    UdpBodies       \* what is sent: sequences of words

VARIABLES
    rtab,           \* rtab->routes
    routeNew,       \* the route a task has found to be new; NoRoute if none
    ipIn,           \* the packet that was processed last
    ipOut           \* the frame that was sent for it, or by udp_write

ipVars == <<rtab, routeNew, ipIn, ipOut>>

Word == 0..(2^Bits - 1)
BroadcastIp == 2^Bits - 1
NoRoute == [mask |-> 2^Bits]
Nothing == [kind |-> "none"]
ECHO_REPLY == 0
ECHO_REQUEST == 1

Routes == [base : Word, mask : Word, gateway : Word]
(* after: what lies behind the packet in the buffer, as long as the options. *)
Packets == [kind : {"in"}, version : Nat, ihl : 0..15, ttl : Word, proto : Word, src : Word, dst : Word,
            csum : Word, opts : Seq(Word), type : Word, icsum : Word, data : Seq(Word), after : Seq(Word)]

(* How many addresses a network has.                                        *)
NetSize(mask) == 2^Bits - mask

(* Of two masks of ones and zeros one's networks divide the other's.  What is sent
   is shorter than there are words (2^16 of them, in 1500 bytes).           *)
ASSUME IpAssumption ==
    /\ Bits \in Nat /\ 2^Bits \in Nat /\ 2^Bits > 6
    /\ RouteArgs \subseteq Routes
    /\ \A a, b \in RouteArgs : NetSize(a.mask) % NetSize(b.mask) = 0 \/ NetSize(b.mask) % NetSize(a.mask) = 0
    /\ IpPackets \subseteq Packets
    /\ \A p \in IpPackets : /\ Len(p.opts) = (IF p.ihl > 5 THEN p.ihl - 5 ELSE 0)
                            /\ Len(p.after) = Len(p.opts)
    /\ OurIps \subseteq Word
    /\ \A b \in UdpBodies : b \in Seq(Word) /\ Len(b) < 2^Bits - 1

IpTypeOK ==
    /\ rtab \in Seq(Routes) /\ \A i \in DOMAIN rtab : rtab[i].base % NetSize(rtab[i].mask) = 0
    /\ routeNew \in [Adders -> {NoRoute} \cup Routes]
    /\ ipIn \in IpPackets \cup {Nothing}
    /\ ipOut.kind \in {"none", "echo", "udp"}

IpInit ==
    /\ rtab = <<>>
    /\ routeNew = [a \in Adders |-> NoRoute]
    /\ ipIn = Nothing /\ ipOut = Nothing

(* A packet is looked at before anything else happens.                      *)
IpIdle == ipIn = Nothing /\ ipOut = Nothing

-----------------------------------------------------------------------------
(* route.c                                                                  *)

Masked(ip, mask) == ip - (ip % NetSize(mask))

RouteExists(base, mask) == \E i \in DOMAIN rtab : rtab[i].base = base /\ rtab[i].mask = mask

(* route_add looks for the route, allocates, and inserts under a lock that it
   has released in between; the list is in descending order.                *)
RouteAddTest(a, arg) ==
    /\ IpIdle /\ routeNew[a] = NoRoute
    /\ LET base == Masked(arg.base, arg.mask) IN
       /\ ~RouteExists(base, arg.mask)
       /\ routeNew' = [routeNew EXCEPT ![a] = [arg EXCEPT !.base = base]]
    /\ UNCHANGED <<rtab, ipIn, ipOut>>

(* Faulty variant: the order of the masks is left out.                      *)
GoesBeforeBase(r, s) == r.base > s.base

GoesBefore(r, s) == r.base > s.base \/ (r.base = s.base /\ r.mask > s.mask)

RouteInsert(a) ==
    /\ IpIdle /\ routeNew[a] # NoRoute
    /\ LET r == routeNew[a]
           later == {i \in 1..Len(rtab) : GoesBefore(r, rtab[i])}
           at == IF later = {} THEN Len(rtab) + 1 ELSE Min(later)
       IN rtab' = InsertAt(rtab, at, r)
    /\ routeNew' = [routeNew EXCEPT ![a] = NoRoute]
    /\ UNCHANGED <<ipIn, ipOut>>

(* The first route that matches.                                            *)
RouteMatches(ip) == {i \in 1..Len(rtab) : Masked(ip, rtab[i].mask) = rtab[i].base}
RouteFind(ip) == IF RouteMatches(ip) = {} THEN NoRoute ELSE rtab[Min(RouteMatches(ip))]

-----------------------------------------------------------------------------
(* Checksums.                                                               *)

WordSum(words) ==
    LET sum[n \in 0..Len(words)] == IF n = 0 THEN 0 ELSE sum[n - 1] + words[n]
    IN sum[Len(words)]
FoldOnce(sum) == (sum % 2^Bits) + (sum \div 2^Bits)
Complement(sum) == 2^Bits - 1 - (sum % 2^Bits)

(* ip_csum folds until there is no carry, udp_csum once.                    *)
IpCsum(words) ==
    LET fold[n \in 0..Len(words)] ==
            IF n = 0 THEN WordSum(words) ELSE FoldOnce(fold[n - 1])
    IN Complement(fold[Len(words)])
UdpCsum(words) == Complement(FoldOnce(WordSum(words)))

-----------------------------------------------------------------------------
(* ip_process and icmpv4_process.                                           *)

HdrWords(p) == <<p.ihl % 2^Bits, p.ttl, p.proto, p.csum, p.src, p.dst>> \o p.opts
IcmpWords(p) == <<p.type, p.icsum>> \o p.data

ForUs(p) == p.dst = BroadcastIp \/ p.dst \in OurIps

(* iphlen takes three of the four bits of the header length: of a header of 8 times
   4 bytes nothing is summed, and of a longer one only the first part.      *)
UnitWords == <<1, 1, 4, 5, 6, 7, 8>>    \* words in the first 4, 8, 12... bytes
HdrSummed(p) == SubSeq(HdrWords(p), 1, IF p.ihl % 8 = 0 THEN 0 ELSE UnitWords[p.ihl % 8])

(* The length of the ICMP message is taken as that of the packet without the 20
   bytes of a header that has no options: with options, as many bytes behind the
   packet are summed.                                                       *)
IcmpSummed(p) == <<p.type, p.icsum>> \o (p.data \o p.after)

Accepted(p) ==
    /\ p.version = 4 /\ p.ihl >= 5 /\ p.ttl # 0
    /\ IpCsum(HdrSummed(p)) = 0
    /\ ForUs(p)

(* icmpv4_echo_reply, in the buffer of the request.                         *)
EchoReply(p) ==
    LET q == [p EXCEPT !.kind = "echo", !.type = ECHO_REPLY, !.icsum = 0, !.ttl = 6,
                       !.src = p.dst, !.dst = p.src, !.csum = 0]
        r == [q EXCEPT !.icsum = IpCsum(IcmpSummed(q))]
    IN [r EXCEPT !.csum = IpCsum(HdrSummed(r))]

IpProcess(p) ==
    /\ IpIdle
    /\ ipIn' = p
    /\ ipOut' = IF Accepted(p) /\ p.proto = 1 /\ IpCsum(IcmpSummed(p)) = 0
                   /\ p.type = ECHO_REQUEST
                THEN EchoReply(p) ELSE Nothing
    /\ UNCHANGED <<rtab, routeNew>>

-----------------------------------------------------------------------------
(* udp_write.                                                               *)

(* eth_set_dmac: whose hardware address the frame gets.                     *)
NextHop(ip) ==
    IF ip = BroadcastIp THEN ip
    ELSE LET r == RouteFind(ip) IN IF r.base = 0 THEN r.gateway ELSE ip

(* The words of the pseudo header and the header are part of the body.      *)
UdpWrite(ip, body) ==
    /\ IpIdle
    /\ ip = BroadcastIp \/ RouteFind(ip) # NoRoute
    /\ ipOut' = [kind |-> "udp", dst |-> ip, hop |-> NextHop(ip),
                 words |-> Append(body, UdpCsum(body))]
    /\ UNCHANGED <<rtab, routeNew, ipIn>>

(* The frame is gone.                                                       *)
IpSent ==
    /\ ~IpIdle
    /\ ipIn' = Nothing /\ ipOut' = Nothing
    /\ UNCHANGED <<rtab, routeNew>>

IpNext ==
    \/ \E a \in Adders : RouteInsert(a) \/ \E arg \in RouteArgs : RouteAddTest(a, arg)
    \/ \E p \in IpPackets : IpProcess(p)
    \/ \E ip \in Word, body \in UdpBodies : UdpWrite(ip, body)
    \/ IpSent

IpSpec == IpInit /\ [][IpNext]_ipVars

-----------------------------------------------------------------------------
(* What a correct receiver takes (RFC 1071): the sum, carries added back until
   there are none, has all bits set.                                        *)
Valid(words) == WordSum(words) # 0 /\ WordSum(words) % (2^Bits - 1) = 0

(* route_find returns the most specific of the routes to an address, in
   whatever order, and however interleaved, they were added.                *)
RouteLongest ==
    \A ip \in Word : \A i \in RouteMatches(ip) : RouteFind(ip).mask >= rtab[i].mask

(* Frames to an address on a network of ours go to that host itself, others to
   a gateway.                                                               *)
UdpNextHopRight ==
    ipOut.kind = "udp" /\ ipOut.dst # BroadcastIp =>
        IF \E i \in RouteMatches(ipOut.dst) : rtab[i].base # 0
        THEN ipOut.hop = ipOut.dst
        ELSE \E i \in RouteMatches(ipOut.dst) : rtab[i].base = 0 /\ ipOut.hop = rtab[i].gateway

(* An echo is answered exactly when the request was valid and for us, and the
   answer is valid itself, goes to the sender and carries the same data; but for
   requests with options.  Their ICMP part is summed with what lies behind them;
   and of headers of more than 28 bytes only a part is looked at, or nothing
   (iphlen), so that a valid one may be refused and a damaged one answered. *)
IpEchoRight ==
    ipIn # Nothing =>
        IF ipOut = Nothing
        THEN \/ ipIn.type # ECHO_REQUEST \/ ipIn.proto # 1 \/ ipIn.ihl \notin 5..7 \/ ipIn.ttl = 0
             \/ ipIn.version # 4 \/ ipIn.dst \notin OurIps \cup {BroadcastIp}
             \/ ~Valid(HdrWords(ipIn)) \/ ~Valid(IcmpSummed(ipIn))
             \/ (ipIn.ihl = 5 /\ ~Valid(IcmpWords(ipIn)))
        ELSE /\ ipIn.ihl \in 5..7 => Valid(HdrWords(ipIn)) /\ Valid(HdrWords(ipOut))
             /\ ipIn.ihl = 5 => Valid(IcmpWords(ipIn)) /\ Valid(IcmpWords(ipOut))
             /\ Valid(HdrSummed(ipIn)) /\ Valid(IcmpSummed(ipIn)) /\ Valid(IcmpSummed(ipOut))
             /\ ipIn.dst \in OurIps \cup {BroadcastIp}
             /\ ipOut.dst = ipIn.src /\ ipOut.data = ipIn.data

(* The checksum of a UDP packet that is sent is valid, except where the one
   fold of udp_csum carries; and a valid one is always taken.               *)
UdpCsumRight ==
    ipOut.kind = "udp" =>
        /\ Valid(ipOut.words) \/ FoldOnce(WordSum(Front(ipOut.words))) >= 2^Bits
        /\ Valid(ipOut.words) => UdpCsum(ipOut.words) = 0

(* The most specific route is found whatever the order of insertions, and packets
   are answered and summed as the protocols say. *)
IpSafety ==
    /\ IpTypeOK
    /\ RouteLongest
    /\ UdpNextHopRight
    /\ IpEchoRight
    /\ UdpCsumRight
=============================================================================
