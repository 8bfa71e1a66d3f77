-------------------------------- MODULE Udp --------------------------------
(***************************************************************************)
(* Sockets and UDP (sock.c, udp.c, bmap.c) and the end of net_task's loop  *)
(* (net.c): tasks open, bind, connect, read, write and close their own     *)
(* sockets while net_task hands out datagrams.  Sections under stab->lock  *)
(* or sock->lock are single steps, but for udp_process, which holds both   *)
(* while sock_free asserts that sock->lock is free.                        *)
(*                                                                         *)
(* The local address of a socket is a port (programs bind ANY), its remote *)
(* address a peer, which stands for an ip address and a port.              *)
(***************************************************************************)
EXTENDS Naturals, Sequences, FiniteSets, SequencesExt

CONSTANTS
    Owners,             \* tasks, each with at most one socket
    Peers,              \* remote addresses
    AnyPeer, Broadcast, \* rem_addr.ip 0 and 0xFFFFFFFF
    BoundPorts,         \* ports that programs bind
    MinPort, MaxPorts,  \* ports that port_alloc gives out, from MinPort + 1
    MAX_SOCKS, SOCK_MAX_BUFS,
    MaxDatagrams        \* bound of the datagrams that arrive

NoOwner == "none"
NoPort == 0

ASSUME UdpAssumption ==
    /\ {AnyPeer, Broadcast} \cap Peers = {} /\ NoOwner \notin Owners
    /\ MinPort \in Nat /\ MaxPorts \in Nat /\ MAX_SOCKS \in Nat /\ SOCK_MAX_BUFS \in Nat \ {0}
    /\ BoundPorts \subseteq Nat \ {0} /\ MaxDatagrams \in Nat

VARIABLES
    stab,       \* owners of the sockets in stab->socks, in list order
    locPort, remAddr,   \* fields of the sockets
    bufs,       \* sock->bufs
    sockPc,     \* where the owner is
    newPort,    \* its local loc_addr.port in udp_connect
    usedPorts,  \* bits of udp_ports
    udpIn,      \* number of the datagrams that came
    udpCur,     \* the buffer in net_task's hands
    udpPc,      \* where net_task is
    udpMatch,   \* the socket that udp_process has locked; NoOwner if none
    freed,      \* how often each buffer was freed
    udpRaced,   \* buffers that a reader freed before net_task looked at captured
    udpMissed,  \* owners that were about to sleep when a datagram came
    udpAwaken,  \* owners that a signal kept from sleeping for a datagram
    sockRaced   \* a task tested the limit of sockets while another was adding one

udpVars == <<stab, locPort, remAddr, bufs, sockPc, newPort, usedPorts, udpIn, udpCur,
             udpPc, udpMatch, freed, udpRaced, udpMissed, udpAwaken, sockRaced>>
sockFields == <<locPort, remAddr>>
netTaskVars == <<udpIn, udpCur, udpPc, udpMatch>>
udpHistory == <<udpRaced, udpMissed, udpAwaken, sockRaced>>

PortMinus1 == MinPort + MaxPorts + 1    \* (uint16_t) -1
AllPorts == (MinPort + 1)..(MinPort + MaxPorts)
Datagram == [id : 1..MaxDatagrams, from : Peers, to : AllPorts \cup BoundPorts]
NoDatagram == [id |-> 0]

UdpTypeOK ==
    /\ Range(stab) \subseteq Owners /\ IsInjective(stab)
    /\ locPort \in [Owners -> {NoPort, PortMinus1} \cup AllPorts \cup BoundPorts]
    /\ remAddr \in [Owners -> Peers \cup {AnyPeer, Broadcast}]
    /\ \A s \in Owners : Len(bufs[s]) <= SOCK_MAX_BUFS /\ Range(bufs[s]) \subseteq Datagram
    /\ sockPc \in [Owners -> {"none", "alloc", "open", "connect", "bound", "sleep", "asleep", "take",
                              "close", "drain", "panic", "null", "killed"}]
    /\ newPort \in [Owners -> {NoPort, PortMinus1} \cup AllPorts]
    /\ usedPorts \subseteq AllPorts
    /\ udpIn \in 0..MaxDatagrams
    /\ udpCur \in Datagram \cup {NoDatagram}
    /\ udpPc \in {"idle", "match", "locked", "drop"}
    /\ udpMatch \in Owners \cup {NoOwner}
    /\ freed \in [1..MaxDatagrams -> 0..2]
    /\ udpAwaken \subseteq Owners /\ sockRaced \in BOOLEAN

(* sock_init.                                                               *)
UdpInit ==
    /\ stab = <<>>
    /\ locPort = [s \in Owners |-> NoPort]
    /\ remAddr = [s \in Owners |-> AnyPeer]
    /\ bufs = [s \in Owners |-> <<>>]
    /\ sockPc = [s \in Owners |-> "none"]
    /\ newPort = [s \in Owners |-> NoPort]
    /\ usedPorts = {}
    /\ udpIn = 0 /\ udpCur = NoDatagram /\ udpPc = "idle" /\ udpMatch = NoOwner
    /\ freed = [b \in 1..MaxDatagrams |-> 0]
    /\ udpRaced = {} /\ udpMissed = {} /\ udpAwaken = {} /\ sockRaced = FALSE

SockGoes(s, from, to) == sockPc[s] = from /\ sockPc' = [sockPc EXCEPT ![s] = to]

(* stab->lock, which net_task holds in udp_process.                         *)
StabFree == udpPc # "locked"

-----------------------------------------------------------------------------
(* sock.c                                                                   *)

(* The limit is tested without the lock, and the socket added later.        *)
SockAlloc(s) ==
    /\ SockGoes(s, "none", "alloc")
    /\ Len(stab) # MAX_SOCKS
    /\ sockRaced' = (sockRaced \/ \E t \in Owners : sockPc[t] = "alloc")
    /\ UNCHANGED <<stab, sockFields, bufs, newPort, usedPorts, netTaskVars, freed, udpRaced, udpMissed,
                   udpAwaken>>

SockAdd(s) ==
    /\ SockGoes(s, "alloc", "open") /\ StabFree
    /\ stab' = Append(stab, s)
    /\ UNCHANGED <<sockFields, bufs, newPort, usedPorts, netTaskVars, freed, udpHistory>>

AddressInUse(port) == \E s \in Range(stab) : locPort[s] = port

(* sock_bind with a port; an address in use is an error.                    *)
SockBind(s, port) ==
    /\ sockPc[s] = "open" /\ StabFree
    /\ locPort[s] = NoPort
    /\ ~AddressInUse(port)
    /\ locPort' = [locPort EXCEPT ![s] = port]
    /\ UNCHANGED <<stab, remAddr, bufs, sockPc, newPort, usedPorts, netTaskVars, freed,
                   udpHistory>>

(* port_alloc: the next free port, none when all were given out; ports are not
   given back.                                                              *)
PortAlloc ==
    IF usedPorts = AllPorts THEN PortMinus1
    ELSE CHOOSE p \in AllPorts \ usedPorts : \A q \in AllPorts \ usedPorts : p <= q

(* udp_connect of a socket without a local port.                            *)
UdpConnectPort(s) ==
    /\ SockGoes(s, "open", "connect")
    /\ locPort[s] = NoPort
    /\ newPort' = [newPort EXCEPT ![s] = PortAlloc]
    /\ usedPorts' = usedPorts \cup ({PortAlloc} \cap AllPorts)
    /\ UNCHANGED <<stab, sockFields, bufs, netTaskVars, freed, udpHistory>>

UdpSetLocal(s) ==
    /\ sockPc[s] = "connect" /\ StabFree
    /\ IF AddressInUse(newPort[s])
       THEN SockGoes(s, "connect", "open") /\ UNCHANGED locPort
       ELSE SockGoes(s, "connect", "bound") /\ locPort' = [locPort EXCEPT ![s] = newPort[s]]
    /\ newPort' = [newPort EXCEPT ![s] = NoPort]
    /\ UNCHANGED <<stab, remAddr, bufs, usedPorts, netTaskVars, freed, udpHistory>>

(* sock_set_rem_addr, whose failure (no route) udp_connect ignores.         *)
UdpSetRemote(s, peer, route) ==
    /\ \/ SockGoes(s, "bound", "open")
       \/ locPort[s] # NoPort /\ remAddr[s] = AnyPeer /\ SockGoes(s, "open", "open")
    /\ udpMatch # s
    /\ remAddr' = [remAddr EXCEPT ![s] = IF route THEN peer ELSE @]
    /\ UNCHANGED <<stab, locPort, bufs, newPort, usedPorts, netTaskVars, freed, udpHistory>>

-----------------------------------------------------------------------------
(* udp_read: one datagram; the task sleeps when there is none, unless a signal
   has made it AWAKEN, in this sleep or an earlier one; it then goes on.  One that
   exits returns -1: no step.                                               *)

UdpReadTest(s, awaken) ==
    /\ SockGoes(s, "open", IF bufs[s] = <<>> /\ ~awaken THEN "sleep" ELSE "take")
    /\ udpAwaken' = IF awaken THEN udpAwaken \cup {s} ELSE udpAwaken
    /\ UNCHANGED <<stab, sockFields, bufs, newPort, usedPorts, netTaskVars, freed, udpRaced, udpMissed,
                   sockRaced>>

UdpReadSleep(s) ==
    /\ SockGoes(s, "sleep", "asleep")
    /\ UNCHANGED <<stab, sockFields, bufs, newPort, usedPorts, netTaskVars, freed, udpHistory>>

UdpSignalled(s) ==
    /\ SockGoes(s, "asleep", "take")
    /\ udpAwaken' = udpAwaken \cup {s}
    /\ UNCHANGED <<stab, sockFields, bufs, newPort, usedPorts, netTaskVars, freed, udpRaced, udpMissed,
                   sockRaced>>

(* The first datagram is copied and its buffer freed; with none, NULL is read: a
   fault, which ends the task with the lock of its socket held.             *)
UdpReadTake(s) ==
    /\ udpMatch # s
    /\ udpMissed' = udpMissed \ {s}
    /\ IF bufs[s] = <<>>
       THEN SockGoes(s, "take", "null") /\ UNCHANGED <<bufs, freed, udpRaced, udpAwaken>>
       ELSE LET d == Head(bufs[s]) IN
            /\ SockGoes(s, "take", "open")
            /\ bufs' = [bufs EXCEPT ![s] = Tail(@)]
            /\ freed' = [freed EXCEPT ![d.id] = @ + 1]
            /\ udpRaced' = IF udpCur.id = d.id THEN udpRaced \cup {d.id} ELSE udpRaced
            /\ udpAwaken' = udpAwaken \ {s}
    /\ UNCHANGED <<stab, sockFields, newPort, usedPorts, netTaskVars, sockRaced>>

(* A signal ends the task outside of its critical sections: nobody frees its
   socket, which is no file.                                                *)
SockKilled(s) ==
    /\ \E from \in {"open", "connect", "bound", "sleep", "asleep", "take", "close"} : SockGoes(s, from, "killed")
    /\ UNCHANGED <<stab, sockFields, bufs, newPort, usedPorts, netTaskVars, freed, udpHistory>>

(* sock_free: assert, take it out of the table, free what was not read.     *)
SockFreeAssert(s) ==
    /\ SockGoes(s, "open", IF udpMatch = s THEN "panic" ELSE "close")
    /\ UNCHANGED <<stab, sockFields, bufs, newPort, usedPorts, netTaskVars, freed, udpHistory>>

SockFreeDel(s) ==
    /\ SockGoes(s, "close", "drain") /\ StabFree
    /\ stab' = RemoveAt(stab, CHOOSE i \in DOMAIN stab : stab[i] = s)
    /\ UNCHANGED <<sockFields, bufs, newPort, usedPorts, netTaskVars, freed, udpHistory>>

SockFreeBufs(s) ==
    /\ SockGoes(s, "drain", "none")
    /\ LET ids == {d.id : d \in Range(bufs[s])} IN
       /\ freed' = [b \in DOMAIN freed |-> IF b \in ids THEN freed[b] + 1 ELSE freed[b]]
       /\ udpRaced' = udpRaced \cup (ids \cap {udpCur.id})
    /\ bufs' = [bufs EXCEPT ![s] = <<>>]
    /\ locPort' = [locPort EXCEPT ![s] = NoPort]
    /\ remAddr' = [remAddr EXCEPT ![s] = AnyPeer]
    /\ udpMissed' = udpMissed \ {s} /\ udpAwaken' = udpAwaken \ {s}
    /\ UNCHANGED <<stab, newPort, usedPorts, netTaskVars, sockRaced>>

-----------------------------------------------------------------------------
(* net_task: udp_process, and the buffer dropped if nobody captured it.     *)

UdpArrives(from, to) ==
    /\ udpPc = "idle" /\ udpIn < MaxDatagrams
    /\ udpIn' = udpIn + 1
    /\ udpCur' = [id |-> udpIn + 1, from |-> from, to |-> to]
    /\ udpPc' = "match"
    /\ UNCHANGED <<stab, sockFields, bufs, sockPc, newPort, usedPorts, udpMatch, freed,
                   udpHistory>>

Matches(s, d) ==
    /\ locPort[s] = d.to
    /\ remAddr[s] \in {AnyPeer, Broadcast, d.from}
FirstMatch(d) ==
    LET hits == {i \in DOMAIN stab : Matches(stab[i], d)} IN
    IF hits = {} THEN NoOwner ELSE stab[CHOOSE i \in hits : \A j \in hits : i <= j]

(* The first socket that matches is locked; a datagram with a bad checksum has
   none.                                                                    *)
UdpProcess(good) ==
    /\ udpPc = "match" /\ udpPc' = "locked"
    /\ udpMatch' = IF good THEN FirstMatch(udpCur) ELSE NoOwner
    /\ UNCHANGED <<stab, sockFields, bufs, sockPc, newPort, usedPorts, udpIn, udpCur, freed,
                   udpHistory>>

(* s->lock is taken for ever when the reader has ended with it.             *)
LockFree == udpMatch # NoOwner => sockPc[udpMatch] # "null"
Captured == udpMatch # NoOwner /\ Len(bufs[udpMatch]) < SOCK_MAX_BUFS

(* Faulty variant: the reader is not woken.                                 *)
UdpDeliverQuiet ==
    /\ udpPc = "locked" /\ udpPc' = "drop" /\ LockFree
    /\ bufs' = IF Captured THEN [bufs EXCEPT ![udpMatch] = Append(@, udpCur)] ELSE bufs
    /\ udpMatch' = NoOwner
    /\ UNCHANGED <<stab, sockFields, sockPc, newPort, usedPorts, udpIn, udpCur, freed, udpHistory>>

UdpDeliver ==
    /\ udpPc = "locked" /\ udpPc' = "drop" /\ LockFree
    /\ IF Captured
       THEN /\ bufs' = [bufs EXCEPT ![udpMatch] = Append(@, udpCur)]
            /\ sockPc' = [sockPc EXCEPT ![udpMatch] = IF @ = "asleep" THEN "take" ELSE @]
            /\ udpMissed' = udpMissed \cup {s \in {udpMatch} : sockPc[s] = "sleep"}
       ELSE UNCHANGED <<bufs, sockPc, udpMissed>>
    /\ udpMatch' = NoOwner
    /\ UNCHANGED <<stab, sockFields, newPort, usedPorts, udpIn, udpCur, freed, udpRaced, udpAwaken, sockRaced>>

(* if (!buf->captured) net_buf_free(buf): of a buffer that its reader has freed
   by now the field may have any value.                                     *)
InQueue(b) == \E s \in Owners : \E d \in Range(bufs[s]) : d.id = b
NetTaskDrop ==
    /\ udpPc = "drop" /\ udpPc' = "idle"
    /\ LET b == udpCur.id IN
       \/ (b \in udpRaced \/ ~InQueue(b)) /\ freed' = [freed EXCEPT ![b] = @ + 1]
       \/ (b \in udpRaced \/ InQueue(b)) /\ UNCHANGED freed
    /\ udpCur' = NoDatagram
    /\ UNCHANGED <<stab, sockFields, bufs, sockPc, newPort, usedPorts, udpIn, udpMatch, udpHistory>>

UdpNext ==
    \/ \E s \in Owners :
           \/ SockAlloc(s) \/ SockAdd(s) \/ UdpConnectPort(s) \/ UdpSetLocal(s)
           \/ UdpReadSleep(s) \/ UdpSignalled(s) \/ UdpReadTake(s) \/ SockKilled(s)
           \/ \E awaken \in BOOLEAN : UdpReadTest(s, awaken)
           \/ SockFreeAssert(s) \/ SockFreeDel(s) \/ SockFreeBufs(s)
           \/ \E port \in BoundPorts : SockBind(s, port)
           \/ \E peer \in Peers \cup {Broadcast}, route \in BOOLEAN : UdpSetRemote(s, peer, route)
    \/ \E from \in Peers, to \in AllPorts \cup BoundPorts : UdpArrives(from, to)
    \/ \E good \in BOOLEAN : UdpProcess(good)
    \/ UdpDeliver \/ NetTaskDrop

UdpSpec == UdpInit /\ [][UdpNext]_udpVars

-----------------------------------------------------------------------------
(* A reply to a connected socket finds it: no other socket, earlier in the
   table, takes what its peer sends to its port.                            *)
UdpReplyReaches ==
    \A s \in Range(stab) : remAddr[s] \in Peers /\ sockPc[s] # "bound" =>
        LET reply == [id |-> 1, from |-> remAddr[s], to |-> locPort[s]] IN FirstMatch(reply) = s

(* A datagram in a socket's queue was sent to that socket's port.           *)
UdpRightPort ==
    \A s \in Owners : \A d \in Range(bufs[s]) : d.to = locPort[s]

(* Each buffer has one owner: net_task, the queue of one socket, or the heap
   after one free; unless the reader was faster than net_task's look at
   buf->captured.                                                           *)
UdpBuffersOwned ==
    \A b \in (1..udpIn) \ udpRaced :
        LET places == {s \in Owners : \E d \in Range(bufs[s]) : d.id = b} IN
        IF freed[b] > 0 THEN freed[b] = 1 /\ places = {}
        ELSE Cardinality(places) = (IF b = udpCur.id /\ places = {} THEN 0 ELSE 1)

(* A reader sleeps beside a datagram only if that came between its test and its
   sleep; it takes from an empty queue (udp.c:167 does not test again) only if a
   signal has kept it from sleeping.                                        *)
UdpReaderRight ==
    \A s \in Owners :
        /\ sockPc[s] = "asleep" /\ bufs[s] # <<>> => s \in udpMissed
        /\ sockPc[s] = "null" => s \in udpAwaken

(* There are at most MAX_SOCKS sockets, unless two tasks were at once between the
   test of the limit and the list: the test, for that very number, then lets any
   number of further ones pass.                                             *)
UdpSocketsLimited == Len(stab) <= MAX_SOCKS \/ sockRaced

(* Datagrams between peers and sockets: the right socket gets them, its reader is
   woken, every buffer has one owner to the end, and sockets stay limited, each but
   for what it excepts. *)
UdpSafety ==
    /\ UdpTypeOK
    /\ UdpReplyReaches
    /\ UdpRightPort
    /\ UdpBuffersOwned
    /\ UdpReaderRight
    /\ UdpSocketsLimited
=============================================================================
