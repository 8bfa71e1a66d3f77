SPECIFICATION LiveSpec
CONSTANTS
    MaxPid = 4
    MaxSigs = 1
    Sigs = {"KILL", "TERM"}
    Chans = {}
    KillTargets = {3}
    KillWindow = FALSE
    Ignorers = {3}
    Resolvers = {t1, t2}
    Ips = {ip1, ip2}
    Macs <- MCMacs
    HostMac <- MCHostMac
    AskerIp = AskerIp
    OurIp = OurIp
    OurMac = OurMac
    NoMac = NoMac
    NoIp = NoIp
    ARP_CACHE_SIZE = 1
    ARPCE_TTL = 0
    ARPCE_TTL_PENDING = 0
    MaxTime = 1
PROPERTIES
    RunnableScheduled
    KilledTerminates
    ResolveReturns
\* no more clock ticks
CHECK_DEADLOCK FALSE
