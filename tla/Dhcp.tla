-------------------------------- MODULE Dhcp --------------------------------
(***************************************************************************)
(* The DHCP client (dhcp.c), which configures the network card once at     *)
(* kernel start, among several servers (external).  Messages are           *)
(* broadcast; they may be lost, repeated and reordered, and messages meant *)
(* for other clients are heard too.  Among these there may be another      *)
(* cOSiris machine: its transactions have the same number, as this is made *)
(* of the task's pid (dhcp.c:269) and the kernel starts alike everywhere.  *)
(*                                                                         *)
(* Options are sequences of cells <<code, length, value, ...>>, a 32 bit   *)
(* value being one cell.                                                   *)
(***************************************************************************)
EXTENDS Naturals, Sequences, SequencesExt

CONSTANTS
    Servers,        \* DHCP servers
    AddrOf,         \* the address a server has for us
    OptsOf,         \* its other options, as the option lists below
    OtherAddr,      \* an address that is given to another client
    TwinAddr,       \* the address that another cOSiris machine gets
    MAX_DNS_SERVERS,
    MaxOffers       \* bound of the offers that the client reads

OPT_SUBNET_MASK == 1
OPT_ROUTER == 3
OPT_DNS == 6
OPT_LEASE_TIME == 51
OPT_MESSAGE_TYPE == 53
OPT_SERVER_ID == 54
OPT_END == 255
OFFER == 2
ACK == 5
NACK == 6

ASSUME DhcpAssumption ==
    /\ Servers \subseteq Nat \ {0}
    /\ \A s \in Servers : AddrOf[s] \in Nat \ {0} /\ AddrOf[s] \notin {OtherAddr, TwinAddr}
    /\ \A s, t \in Servers : AddrOf[s] = AddrOf[t] => s = t
    /\ MaxOffers \in Nat

VARIABLES
    dhcpPc,     \* "off", "recv": waiting in dhcp_recv, "done"
    dhcpDepth,  \* how often dhcp_recv called itself
    dhcpRet,    \* what dhcp_init returned
    netConf,    \* [ip, gateway, mask, dns] of the interface, the routes and dns_servers
    dhcpWire,   \* messages sent so far
    lease       \* what each server knows of our address

dhcpVars == <<dhcpPc, dhcpDepth, dhcpRet, netConf, dhcpWire, lease>>

NoConf == [ip |-> 0, gateway |-> 0, mask |-> 0, dns |-> <<>>]

DhcpTypeOK ==
    /\ dhcpPc \in {"off", "recv", "done"}
    /\ dhcpDepth \in 0..MaxOffers
    /\ dhcpRet \in {0, 1}
    /\ netConf.ip \in Nat /\ Len(netConf.dns) <= MAX_DNS_SERVERS
    /\ lease \in [Servers -> {"free", "offered", "bound"}]

(* Options as a server writes them (external), an unknown one among them.   *)
EncodeOpt(o) == <<o.code, Len(o.vals)>> \o o.vals
Encoded(s, type) ==
    <<OPT_MESSAGE_TYPE, 1, type, 77, 2, 3, 255, OPT_SERVER_ID, 1, s>>
        \o FlattenSeq([i \in 1..Len(OptsOf[s]) |-> EncodeOpt(OptsOf[s][i])]) \o <<OPT_END>>

Answer(s, type, xid, ip) == [to |-> "client", xid |-> xid, ip |-> ip, opts |-> Encoded(s, type)]

DhcpInit ==
    /\ dhcpPc = "off" /\ dhcpDepth = 0 /\ dhcpRet = 0
    /\ netConf = NoConf
    /\ dhcpWire = {Answer(s, t, "theirs", OtherAddr) : s \in Servers, t \in {OFFER, ACK}}
               \cup {Answer(s, t, "ours", TwinAddr) : s \in Servers, t \in {OFFER, ACK}}
    /\ lease = [s \in Servers |-> "free"]

-----------------------------------------------------------------------------
(* dhcp_parse_opts.                                                         *)

NoOpts == [type |-> 0, mask |-> 0, routers |-> <<0, 0, 0, 0>>, numRouters |-> 0, dns |-> <<0, 0, 0, 0>>,
           numDns |-> 0, leaseTime |-> 0, server |-> 0]

(* A list of addresses goes to the array from its beginning, as far as its four
   places go, and adds to the number of them.                               *)
FirstOf(v) == IF Len(v) > 4 THEN 4 ELSE Len(v)
PutList(list, v) == [i \in 1..4 |-> IF i <= FirstOf(v) THEN v[i] ELSE list[i]]

TakeOpt(o, code, v) ==
    CASE code = OPT_MESSAGE_TYPE -> [o EXCEPT !.type = v[1]]
      [] code = OPT_SUBNET_MASK -> [o EXCEPT !.mask = v[1]]
      [] code = OPT_ROUTER -> [o EXCEPT !.routers = PutList(@, v), !.numRouters = @ + FirstOf(v)]
      [] code = OPT_DNS -> [o EXCEPT !.dns = PutList(@, v), !.numDns = @ + FirstOf(v)]
      [] code = OPT_LEASE_TIME -> [o EXCEPT !.leaseTime = v[1]]
      [] code = OPT_SERVER_ID -> [o EXCEPT !.server = v[1]]
      [] OTHER -> o

(* One turn of the loop, from position at, unless it has ended.             *)
ReadOpt(b, r) ==
    IF r.at >= Len(b) \/ b[r.at] = OPT_END THEN r
    ELSE LET len == b[r.at + 1] IN
         [at |-> r.at + 2 + len, o |-> TakeOpt(r.o, b[r.at], SubSeq(b, r.at + 2, r.at + 1 + len))]

(* As many turns as there are cells are enough.                             *)
ParseOpts(b) ==
    LET turn[k \in 0..Len(b)] ==
            IF k = 0 THEN [at |-> 1, o |-> NoOpts] ELSE ReadOpt(b, turn[k - 1])
    IN turn[Len(b)].o

-----------------------------------------------------------------------------
(* The client.                                                              *)

DhcpSend(m) == dhcpWire' = dhcpWire \cup {m}

(* dhcp_init until it waits.                                                *)
DhcpDiscover ==
    /\ dhcpPc = "off" /\ dhcpPc' = "recv"
    /\ DhcpSend([to |-> "servers", type |-> "DISCOVER"])
    /\ UNCHANGED <<dhcpDepth, dhcpRet, netConf, lease>>

(* An error deep in the recursion is success for dhcp_init: the call after an
   offer ignores what it returns.                                           *)
DhcpFails ==
    /\ dhcpPc' = "done" /\ dhcpRet' = (IF dhcpDepth = 0 THEN 1 ELSE 0)
    /\ UNCHANGED <<dhcpDepth, netConf, dhcpWire>>

(* dhcp_set_netif, route_add and dns_add, which leaves out zeros.  With more name
   servers than the array has places, what follows it in dhcp_opts is added. *)
DhcpSetNetif(m, o) ==
    LET words == o.dns \o <<o.numDns, o.leaseTime, o.server>>
        added == SelectSeq(SubSeq(words, 1, IF o.numDns > Len(words) THEN Len(words) ELSE o.numDns),
                           LAMBDA w : w # 0)
    IN netConf' = [ip |-> m.ip,
                   gateway |-> IF o.numRouters = 0 THEN 0 ELSE o.routers[1],
                   mask |-> o.mask,
                   dns |-> SubSeq(added, 1, IF Len(added) > MAX_DNS_SERVERS THEN MAX_DNS_SERVERS
                                            ELSE Len(added))]

(* Faulty variant: whose transaction it is does not matter.                 *)
AnyXid(m) == TRUE

OurXid(m) == m.xid = "ours"

(* dhcp_recv reads one message.                                             *)
DhcpRecv(m) ==
    /\ dhcpPc = "recv" /\ m.to = "client"
    /\ LET o == ParseOpts(m.opts) IN
       IF ~OurXid(m) \/ o.type \notin {OFFER, ACK} THEN DhcpFails
       ELSE IF o.type = ACK
       THEN /\ dhcpPc' = "done" /\ dhcpRet' = 0
            /\ DhcpSetNetif(m, o)
            /\ UNCHANGED <<dhcpDepth, dhcpWire>>
       ELSE /\ dhcpDepth < MaxOffers
            /\ dhcpDepth' = dhcpDepth + 1
            /\ DhcpSend([to |-> "servers", type |-> "REQUEST", server |-> o.server, ip |-> m.ip])
            /\ UNCHANGED <<dhcpPc, dhcpRet, netConf>>
    /\ UNCHANGED lease

-----------------------------------------------------------------------------
(* The servers (external).                                                  *)

ServerOffers(s) ==
    /\ [to |-> "servers", type |-> "DISCOVER"] \in dhcpWire
    /\ lease[s] = "free"
    /\ lease' = [lease EXCEPT ![s] = "offered"]
    /\ DhcpSend(Answer(s, OFFER, "ours", AddrOf[s]))
    /\ UNCHANGED <<dhcpPc, dhcpDepth, dhcpRet, netConf>>

(* A request to this server is granted or refused; one to another server frees
   the address again, unless it was granted.  A request for the other machine's
   address has its hardware address too, copied from the offer: for a server it is
   that machine's, and the answer to it is on the wire from the beginning.  *)
ServerHears(s, m) ==
    /\ m.to = "servers" /\ m.type = "REQUEST" /\ m.ip # TwinAddr
    /\ IF m.server # s
       THEN /\ lease[s] = "offered" /\ lease' = [lease EXCEPT ![s] = "free"]
            /\ UNCHANGED dhcpWire
       ELSE \/ /\ lease[s] # "free"
               /\ lease' = [lease EXCEPT ![s] = "bound"]
               /\ DhcpSend(Answer(s, ACK, "ours", AddrOf[s]))
            \/ /\ lease[s] # "bound"
               /\ DhcpSend(Answer(s, NACK, "ours", AddrOf[s]))
               /\ lease' = [lease EXCEPT ![s] = "free"]
    /\ UNCHANGED <<dhcpPc, dhcpDepth, dhcpRet, netConf>>

DhcpNext ==
    \/ DhcpDiscover
    \/ \E m \in dhcpWire : DhcpRecv(m)
    \/ \E s \in Servers : ServerOffers(s) \/ \E m \in dhcpWire : ServerHears(s, m)

DhcpSpec == DhcpInit /\ [][DhcpNext]_dhcpVars

-----------------------------------------------------------------------------
(* What the list of options of a server says, for comparison.               *)
OptVals(s, code) ==
    LET S == SelectSeq(OptsOf[s], LAMBDA o : o.code = code) IN IF S = <<>> THEN <<0>> ELSE S[1].vals
InParts(s, code) == \E i, j \in 1..Len(OptsOf[s]) : i # j /\ OptsOf[s][i].code = code /\ OptsOf[s][j].code = code

(* The address that the interface gets is one that a server has bound to us,
   and gateway, mask and name servers are those of the same server: also with
   several servers whose messages come late, twice, or in any order, and with
   answers to other clients on the wire; but for two things.  An answer to another
   cOSiris machine is taken for ours, as the xid is the same and cli_mac is not
   looked at; and of an option that a server gives in parts, the last part replaces
   the beginning of the others, and zeros or other words may follow.        *)
DhcpAddressLeased ==
    netConf.ip # 0 =>
        \E s \in Servers :
            /\ (netConf.ip = AddrOf[s] /\ lease[s] = "bound") \/ netConf.ip = TwinAddr
            /\ InParts(s, OPT_ROUTER) \/ netConf.gateway = OptVals(s, OPT_ROUTER)[1]
            /\ InParts(s, OPT_SUBNET_MASK) \/ netConf.mask = OptVals(s, OPT_SUBNET_MASK)[1]
            /\ InParts(s, OPT_DNS) \/ IsPrefix(netConf.dns, OptVals(s, OPT_DNS))

(* The client asks a server only for the address that this server offers, to us
   or to another cOSiris machine.                                           *)
DhcpAsksOffered ==
    \A m \in dhcpWire : m.to = "servers" /\ m.type = "REQUEST" =>
        m.server \in Servers /\ m.ip \in {AddrOf[m.server], TwinAddr}

(* The interface has an address only when its server leased it, and only what was
   offered is asked for, whatever answers come late or twice; the exceptions are
   the answers to another cOSiris machine, and options given in parts.      *)
DhcpSafety ==
    /\ DhcpTypeOK
    /\ DhcpAddressLeased
    /\ DhcpAsksOffered
=============================================================================
