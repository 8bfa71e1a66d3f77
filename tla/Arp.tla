-------------------------------- MODULE Arp --------------------------------
(***************************************************************************)
(* Address resolution (arp.c): the cache of 32 entries, arp_resolve called *)
(* by tasks that send, and arp_process called by net_task for each frame   *)
(* that arrives.  Sections under arp_cache_lock are single steps.          *)
(*                                                                         *)
(* The network loses, repeats and reorders frames: the answer to a request *)
(* may be received never, or at any later time, any number of times.       *)
(* Frames that are malformed, or of no concern to us, change nothing.      *)
(***************************************************************************)
EXTENDS Naturals, FiniteSets, FiniteSetsExt

CONSTANTS
    Resolvers,          \* tasks that call arp_resolve
    Ips, Macs,          \* addresses of the other hosts
    HostMac,            \* which mac address an ip address has
    OurIp, OurMac,      \* netif->ips, netif->mac
    AskerIp,            \* a host that asks for our address
    NoMac, NoIp,        \* zeros
    ARP_CACHE_SIZE,
    ARPCE_TTL, ARPCE_TTL_PENDING,
    MaxTime             \* bound of get_time()

ASSUME ArpAssumption ==
    /\ HostMac \in [Ips -> Macs]
    /\ OurIp \notin Ips \cup {AskerIp} /\ NoIp \notin Ips /\ NoMac \notin Macs
    /\ ARP_CACHE_SIZE \in Nat \ {0}
    /\ ARPCE_TTL \in Nat /\ ARPCE_TTL_PENDING \in Nat /\ MaxTime \in Nat \ {0}

VARIABLES
    arp_cache,
    arpTime,    \* get_time()
    arpPc,      \* where a resolver is in arp_resolve
    arpIp,      \* its argument
    arpSlot,    \* its local i
    arpMac,     \* what it last returned: NoMac after a failure
    arpWake,    \* net_task is about to call wakeup(&arp_cache[arpWake - 1])
    arpWire     \* frames that we sent so far

arpVars == <<arp_cache, arpTime, arpPc, arpIp, arpSlot, arpMac, arpWake, arpWire>>

ArpSlots == 0..(ARP_CACHE_SIZE - 1)
ArpEntry == [ip : Ips \cup {NoIp}, mac : Macs \cup {NoMac},
          status : {"FREE", "PENDING", "SOLVED"}, expire_ts : Nat]
FreeArpEntry == [ip |-> NoIp, mac |-> NoMac, status |-> "FREE", expire_ts |-> 0]

(* Requests and replies for IPv4 over Ethernet.                             *)
ArpFrame == [op : {"REQ", "REP"}, sip : Ips \cup {OurIp}, smac : Macs \cup {OurMac},
             dip : Ips \cup {OurIp, AskerIp}]

(* "miss": before set_pending, "send": before netif->send, "sleep": before
   sleep_onms, "asleep": in it, "awake": before the last spin_lock.         *)
ArpTypeOK ==
    /\ arp_cache \in [ArpSlots -> ArpEntry]
    /\ arpTime \in 0..MaxTime
    /\ arpPc \in [Resolvers -> {"idle", "miss", "send", "sleep", "asleep", "awake"}]
    /\ arpIp \in [Resolvers -> Ips \cup {NoIp}]
    /\ arpSlot \in [Resolvers -> ArpSlots]
    /\ arpMac \in [Resolvers -> Macs \cup {NoMac}]
    /\ arpWake \in 0..ARP_CACHE_SIZE
    /\ arpWire \subseteq ArpFrame

(* arp_init.                                                                *)
ArpInit ==
    /\ arp_cache = [i \in ArpSlots |-> FreeArpEntry]
    /\ arpTime = 1
    /\ arpPc = [t \in Resolvers |-> "idle"]
    /\ arpIp = [t \in Resolvers |-> NoIp]
    /\ arpSlot = [t \in Resolvers |-> 0]
    /\ arpMac = [t \in Resolvers |-> NoMac]
    /\ arpWake = 0
    /\ arpWire = {}

ArpGoes(t, from, to) == arpPc[t] = from /\ arpPc' = [arpPc EXCEPT ![t] = to]

-----------------------------------------------------------------------------
(* The cache.  Each scan clears the expired entries it passes, up to and
   including the one it stops at.                                           *)

ArpExpired(i) == arp_cache[i].expire_ts < arpTime

ArpSwept(last) == [i \in ArpSlots |-> IF i <= last /\ ArpExpired(i) THEN FreeArpEntry ELSE arp_cache[i]]
LastSlot == ARP_CACHE_SIZE - 1
ArpLive(i, status) == ~ArpExpired(i) /\ arp_cache[i].status = status

(* Faulty variant: any pending entry takes the answer.                      *)
PendingForAny(ip) == {i \in ArpSlots : ArpLive(i, "PENDING")}

PendingFor(ip) == {i \in ArpSlots : ArpLive(i, "PENDING") /\ arp_cache[i].ip = ip}
SolvedFor(ip) == {i \in ArpSlots : ArpLive(i, "SOLVED") /\ arp_cache[i].ip = ip}

(* arp_cache_set_pending: the first free entry, else the first of those that
   expire soonest.                                                          *)
ArpVacant == {i \in ArpSlots : ArpExpired(i) \/ arp_cache[i].status = "FREE"}
ArpOldest == {i \in ArpSlots : \A j \in ArpSlots : arp_cache[i].expire_ts <= arp_cache[j].expire_ts}

ArpChosen == IF ArpVacant # {} THEN Min(ArpVacant) ELSE Min(ArpOldest)

-----------------------------------------------------------------------------
(* arp_resolve.                                                             *)

(* The cache is searched; a hit at index 0 does not count.                  *)
ArpResolve(t, ip) ==
    /\ arpIp' = [arpIp EXCEPT ![t] = ip]
    /\ IF SolvedFor(ip) # {}
       THEN LET i == Min(SolvedFor(ip)) IN
            /\ arp_cache' = ArpSwept(i)
            /\ ArpGoes(t, "idle", IF i > 0 THEN "idle" ELSE "miss")
            /\ arpMac' = [arpMac EXCEPT ![t] = IF i > 0 THEN arp_cache[i].mac ELSE NoMac]
       ELSE /\ arp_cache' = ArpSwept(LastSlot)
            /\ ArpGoes(t, "idle", "miss")
            /\ arpMac' = [arpMac EXCEPT ![t] = NoMac]
    /\ UNCHANGED <<arpTime, arpSlot, arpWake, arpWire>>

(* No buffer, or no network card.                                           *)
NoBuffer(t) ==
    /\ ArpGoes(t, "miss", "idle")
    /\ arpIp' = [arpIp EXCEPT ![t] = NoIp]
    /\ UNCHANGED <<arp_cache, arpTime, arpSlot, arpMac, arpWake, arpWire>>

SetPending(t) ==
    /\ ArpGoes(t, "miss", "send")
    /\ arp_cache' = [ArpSwept(IF ArpVacant # {} THEN ArpChosen ELSE LastSlot) EXCEPT ![ArpChosen] =
           [ip |-> arpIp[t], mac |-> NoMac, status |-> "PENDING",
            expire_ts |-> arpTime + ARPCE_TTL_PENDING]]
    /\ arpSlot' = [arpSlot EXCEPT ![t] = ArpChosen]
    /\ UNCHANGED <<arpTime, arpIp, arpMac, arpWake, arpWire>>

SendRequest(t) ==
    /\ ArpGoes(t, "send", "sleep")
    /\ arpWire' = arpWire \cup {[op |-> "REQ", sip |-> OurIp, smac |-> OurMac, dip |-> arpIp[t]]}
    /\ UNCHANGED <<arp_cache, arpTime, arpIp, arpSlot, arpMac, arpWake>>

ArpSleep(t) ==
    /\ ArpGoes(t, "sleep", "asleep")
    /\ UNCHANGED <<arp_cache, arpTime, arpIp, arpSlot, arpMac, arpWake, arpWire>>

(* Faulty variant: a plain sleep_on.                                        *)
ArpNoTimeout(t) == FALSE /\ UNCHANGED arpVars

(* ARP_REP_TIMEOUT has passed (sleep_end_tick in schedule()).               *)
ArpTimeout(t) ==
    /\ ArpGoes(t, "asleep", "awake")
    /\ UNCHANGED <<arp_cache, arpTime, arpIp, arpSlot, arpMac, arpWake, arpWire>>

ArpAnswered(t) == LET e == arp_cache[arpSlot[t]] IN e.ip = arpIp[t] /\ e.status = "SOLVED"

(* The entry the task waited for is read again under the lock; on a failure it
   is cleared, whoever it belongs to by now.                                *)
ArpFinish(t) ==
    /\ ArpGoes(t, "awake", "idle")
    /\ IF ArpAnswered(t)
       THEN arpMac' = [arpMac EXCEPT ![t] = arp_cache[arpSlot[t]].mac]
            /\ UNCHANGED <<arp_cache, arpIp>>
       ELSE /\ UNCHANGED arpMac
            /\ arpIp' = [arpIp EXCEPT ![t] = NoIp]
            /\ arp_cache' = [arp_cache EXCEPT ![arpSlot[t]] = FreeArpEntry]
    /\ arpSlot' = [arpSlot EXCEPT ![t] = 0]
    /\ UNCHANGED <<arpTime, arpWake, arpWire>>

-----------------------------------------------------------------------------
(* arp_process, in net_task.                                                *)

(* A request for our address is answered.                                   *)
ProcessRequest(f) ==
    /\ arpWake = 0
    /\ f.op = "REQ" /\ f.dip = OurIp
    /\ arpWire' = arpWire \cup {[op |-> "REP", sip |-> OurIp, smac |-> OurMac, dip |-> f.sip]}
    /\ UNCHANGED <<arp_cache, arpTime, arpPc, arpIp, arpSlot, arpMac, arpWake>>

(* Any reply is taken, for whomever it was: its sender's mac goes to the first
   pending entry of that ip.                                                *)
ProcessReply(f) ==
    /\ arpWake = 0
    /\ f.op = "REP"
    /\ LET S == PendingFor(f.sip) IN
       IF S = {}
       THEN arp_cache' = ArpSwept(LastSlot) /\ UNCHANGED arpWake
       ELSE LET i == Min(S) IN
            /\ arp_cache' = [ArpSwept(i) EXCEPT ![i].mac = f.smac, ![i].status = "SOLVED",
                                             ![i].expire_ts = arpTime + ARPCE_TTL]
            /\ arpWake' = i + 1
    /\ UNCHANGED <<arpTime, arpPc, arpIp, arpSlot, arpMac, arpWire>>

(* wakeup(&arp_cache[i]), after the lock was released.                      *)
WakeResolvers ==
    /\ arpWake > 0
    /\ arpPc' = [t \in Resolvers |->
           IF arpPc[t] = "asleep" /\ arpSlot[t] = arpWake - 1 THEN "awake" ELSE arpPc[t]]
    /\ arpWake' = 0
    /\ UNCHANGED <<arp_cache, arpTime, arpIp, arpSlot, arpMac, arpWire>>

-----------------------------------------------------------------------------
(* The other hosts and the clock.                                           *)

(* What may arrive: the answer of a host that was asked, a request for us.  *)
ArpArriving ==
    {[op |-> "REP", sip |-> r.dip, smac |-> HostMac[r.dip], dip |-> OurIp] :
        r \in {q \in arpWire : q.op = "REQ"}}
    \cup {[op |-> "REQ", sip |-> AskerIp, dip |-> OurIp]}

ArpClock ==
    /\ arpTime < MaxTime
    /\ arpTime' = arpTime + 1
    /\ UNCHANGED <<arp_cache, arpPc, arpIp, arpSlot, arpMac, arpWake, arpWire>>

ResolverStep(t) ==
    \/ NoBuffer(t) \/ SetPending(t) \/ SendRequest(t) \/ ArpSleep(t) \/ ArpTimeout(t) \/ ArpFinish(t)

ArpNext ==
    \/ \E t \in Resolvers : ResolverStep(t) \/ \E ip \in Ips : ArpResolve(t, ip)
    \/ \E f \in ArpArriving : ProcessRequest(f) \/ ProcessReply(f)
    \/ WakeResolvers
    \/ ArpClock

(* A runnable task is scheduled and the timer ticks.                        *)
ArpFairness == \A t \in Resolvers : WF_arpVars(ResolverStep(t))

ArpSpec == ArpInit /\ [][ArpNext]_arpVars /\ ArpFairness

-----------------------------------------------------------------------------
(* An address that arp_resolve returns is the one of the host asked for, even
   when the entry it waited for was reused, for another host, by then.      *)
ArpResultRight ==
    \A t \in Resolvers : arpPc[t] = "idle" /\ arpMac[t] # NoMac => arpMac[t] = HostMac[arpIp[t]]

(* What the cache holds as solved is the address of that host.              *)
ArpSolvedRight ==
    \A i \in ArpSlots : arp_cache[i].status = "SOLVED" => arp_cache[i].mac = HostMac[arp_cache[i].ip]

(* No entry stays pending when the task that asked is gone: somebody still in
   arp_resolve will look at it, so a failed lookup does not fill the cache. *)
ArpNoOrphans ==
    \A i \in ArpSlots : arp_cache[i].status = "PENDING" =>
        \E t \in Resolvers : arpSlot[t] = i /\ arpPc[t] \in {"send", "sleep", "asleep", "awake"}

(* arp_resolve always returns: also when the answer came before the task slept
   (no sleeper to wake), was lost, or went to another entry.                *)
ArpReturns == \A t \in Resolvers : arpPc[t] # "idle" ~> arpPc[t] = "idle"

(* Resolution under late, repeated and unasked answers: an address that is
   returned or kept is the host's, and no request is left behind. *)
ArpSafety ==
    /\ ArpTypeOK
    /\ ArpResultRight
    /\ ArpSolvedRight
    /\ ArpNoOrphans
=============================================================================
