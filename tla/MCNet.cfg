SPECIFICATION NetSpec
CONSTANTS
    Senders = {s1, s2}
    RX_START = 2
    RX_STOP = 6
    NE_PG_SIZE = 4
    HdrSize = 2
    Arrivals <- MCArrivals
    NETQ_MAX_ITEMS = 2
    MaxReceived = 3
    Resolvers = {t1, t2}
    Ips = {ip1, ip2}
    Macs <- MCMacs
    HostMac <- MCHostMac
    AskerIp = AskerIp
    OurIp = OurIp
    OurMac = OurMac
    NoMac = NoMac
    NoIp = NoIp
    ARP_CACHE_SIZE = 2
    ARPCE_TTL = 0
    ARPCE_TTL_PENDING = 0
    MaxTime = 2
    Owners = {o1, o2}
    Peers = {p1, p2}
    AnyPeer = AnyPeer
    Broadcast = Broadcast
    BoundPorts = {1}
    MinPort = 1
    MaxPorts = 1
    MAX_SOCKS = 1
    SOCK_MAX_BUFS = 1
    MaxDatagrams = 2
    Bits = 3
    Adders = {a1, a2}
    RouteArgs <- MCRoutes
    IpPackets <- MCPackets
    OurIps = {6}
    UdpBodies <- MCBodies
    Servers = {101, 102}
    AddrOf <- MCAddrOf
    OptsOf <- MCOptsOf
    OtherAddr = 13
    TwinAddr = 14
    MAX_DNS_SERVERS = 3
    MaxOffers = 3
    Hosts <- MCHosts
    AnswerLists <- MCAnswers
    HdrLen = 12
    SignBit = 16
    FirstSize = 4
VIEW NetView
SYMMETRY NetSymmetry
INVARIANTS
    NeReceiveSafety
    NeSendSafety
    ArpSafety
    UdpSafety
    IpSafety
    DhcpSafety
    DnsSafety
CHECK_DEADLOCK FALSE
