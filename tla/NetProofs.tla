------------------------------ MODULE NetProofs ------------------------------
(* Proofs about the network: the card's driver (Ne2000), address resolution
   (Arp), sockets (Udp), and routes, packets and checksums (IpStack).       *)
EXTENDS Ne2000, Arp, Udp, IpStack, NatLemmas, SequenceTheorems

-----------------------------------------------------------------------------
(* The transmit pages.  tx_lock is taken by a sender and released by the
   interrupt that reports the end of its transmission: it stays with one frame
   from TxLock over TxGo and CardTransmitted to HandlerTx, and a report is on
   its way only in the last part of that.                                   *)
TxBusy == \E s \in Senders : txPc[s] # "out"
TxReported == "PTX" \in neIsr \cup hIsr

NeTxInv ==
    /\ txPc \in [Senders -> {"out", "put", "setup", "data", "go"}]
    /\ tx_lock \in BOOLEAN
    /\ ~tx_lock => txOn = Nobody /\ ~TxBusy /\ ~TxReported
    /\ TxReported => txOn = Nobody /\ ~TxBusy
    /\ txOn # Nobody => ~TxBusy
    /\ \A s, t \in Senders : txPc[s] # "out" /\ txPc[t] # "out" => s = t
    /\ hPc = "tx" /\ "PTX" \in hIsr => "PTX" \notin neIsr
    /\ hPc # "ack" /\ hPc # "tx" => hIsr = {}
    /\ \A s \in Senders : txPc[s] = "go" => txData = s \/ s \in txTorn
    /\ NeSentRight

LEMMA NeTxStep == NeTxInv /\ [NeNext]_neVars => NeTxInv'
<1> SUFFICES ASSUME NeTxInv, [NeNext]_neVars PROVE NeTxInv'
  OBVIOUS
<1> USE NeAssumption DEF NeTxInv, TxBusy, TxReported, NeSentRight
<1>1. ASSUME NEW a \in Arrivals, CardReceives(a[1], a[2]) PROVE NeTxInv'
  BY <1>1 DEF CardReceives, neTasks, txCard, neHistory
<1>2. CASE CardTransmitted
  BY <1>2 DEF CardTransmitted, neTasks, neHistory
<1>3. CASE HandlerEnter
  BY <1>3 DEF HandlerEnter, neTasks, txCard, neHistory
<1>4. CASE HandlerAck
  BY <1>4 DEF HandlerAck, neTasks, txCard
<1>5. CASE HandlerTx
  BY <1>5 DEF HandlerTx, txCard, neHistory
<1>6. CASE RecvDone
  BY <1>6 DEF RecvDone, Abort, Spoil, neTasks, txCard
<1>7. CASE RecvSkip \/ RecvNoBuffer
  BY <1>7 DEF RecvSkip, RecvNoBuffer, Tear, Spoil, neTasks, txCard
<1>8. CASE RecvFrame
  BY <1>8 DEF RecvFrame, Tear, Spoil, txCard
<1>9. CASE NetTest \/ NetSleep \/ NetSignalled \/ NetLock \/ NetShift \/ NetProcess
  BY <1>9 DEF NetTest, NetSleep, NetSignalled, NetLock, NetShift, NetProcess, txCard, neHistory
<1>10. ASSUME NEW s \in Senders, TxLock(s) PROVE NeTxInv'
  BY <1>10 DEF TxLock, TxStep, txCard
<1>11. ASSUME NEW s \in Senders, TxSetup(s) \/ TxStart(s) PROVE NeTxInv'
  BY <1>11 DEF TxSetup, TxStart, TxStep, txCard
<1>12. ASSUME NEW s \in Senders, TxData(s) PROVE NeTxInv'
  BY <1>12 DEF TxData, TxStep
<1>13. ASSUME NEW s \in Senders, TxGo(s) PROVE NeTxInv'
  BY <1>13 DEF TxGo, TxStep
<1>14. ASSUME NEW s \in Senders, TxKilled(s) PROVE NeTxInv'
  BY <1>14 DEF TxKilled, TxStep, txCard
<1>15. CASE UNCHANGED neVars
  BY <1>15 DEF neVars
<1> QED BY <1>1, <1>2, <1>3, <1>4, <1>5, <1>6, <1>7, <1>8, <1>9, <1>10, <1>11, <1>12, <1>13,
           <1>14, <1>15 DEF NeNext

(* The transmit pages belong to one sender until the card has sent its frame, and
   what the card sends is the frame of that sender unless a receive interrupt came
   inside its ne2000_put: ne2000_send may be called by any number of tasks, each of
   which may be killed in it, and the interrupt handler, which releases the lock and
   uses the remote DMA, may come between any two of their steps.            *)
THEOREM TransmitPagesExclusive == NeSpec => []NeSendSafety
<1>1. NeInit => NeTxInv
  BY NeAssumption DEF NeInit, NeTxInv, TxBusy, TxReported, NeSentRight
<1>2. NeTxInv => NeSendSafety
  <2> SUFFICES ASSUME NeTxInv PROVE NeSendSafety
    OBVIOUS
  <2>1. \A x, y \in {s \in Senders : txPc[s] # "out"} : x = y
    BY DEF NeTxInv
  <2>2. Cardinality({s \in Senders : txPc[s] # "out"}) <= 1
    BY <2>1, AtMostOne
  <2> QED BY <2>2 DEF NeTxInv, NeSendSafety, NeTxExclusive, TxBusy
<1> QED BY <1>1, <1>2, NeTxStep, PTL DEF NeSpec

-----------------------------------------------------------------------------
(* The ring of received frames.  Pages of the ring are added modulo its length;
   the proofs take the remainder apart into the two cases that occur.       *)
LEMMA PageFacts ==
  ASSUME NEW p \in Ring, NEW n \in 0..(RingPages - 1)
  PROVE  /\ PageAfter(p, n) \in Ring
         /\ PageAfter(p, n) = IF p + n < RX_STOP THEN p + n ELSE p + n - RingPages
<1> USE NeAssumption DEF Ring, RingPages, PageAfter
<1>1. CASE p + n < RX_STOP
  <2>1. (p - RX_START + n) % RingPages = p - RX_START + n
    BY <1>1
  <2> QED BY <1>1, <2>1
<1>2. CASE ~(p + n < RX_STOP)
  <2>1. (p - RX_START + n) % RingPages = p - RX_START + n - RingPages
    BY <1>2
  <2> QED BY <1>2, <2>1
<1> QED BY <1>1, <1>2

(* The same as a disjunction of sums, for steps of arithmetic.              *)
LEMMA PageSum ==
  ASSUME NEW p \in Ring, NEW n \in 0..(RingPages - 1), NEW q, q = PageAfter(p, n)
  PROVE  /\ RX_START \in Nat /\ RX_STOP \in Nat /\ RX_STOP > RX_START + 1
         /\ RingPages = RX_STOP - RX_START
         /\ n \in Nat /\ n < RX_STOP - RX_START
         /\ p \in Nat /\ RX_START <= p /\ p < RX_STOP
         /\ q \in Nat /\ RX_START <= q /\ q < RX_STOP
         /\ q = p + n \/ q = p + n - (RX_STOP - RX_START)
<1>1. q \in Ring /\ q = IF p + n < RX_STOP THEN p + n ELSE p + n - RingPages
  BY PageFacts
<1> QED BY <1>1, NeAssumption DEF Ring, RingPages

LEMMA BoundaryFacts ==
  ASSUME NEW p \in Ring
  PROVE  Boundary(p) \in Ring /\ PageAfter(Boundary(p), 1) = p
<1> USE NeAssumption DEF Ring, RingPages, Boundary
<1>1. Boundary(p) \in Ring
  OBVIOUS
<1> QED BY <1>1, PageFacts

LEMMA SizeFacts ==
  ASSUME NEW size \in Nat \ {0}
  PROVE  /\ PagesOf(size) \in Nat \ {0}
         /\ size \div NE_PG_SIZE \in Nat
         /\ size \div NE_PG_SIZE < PagesOf(size)
<1> USE NeAssumption DEF PagesOf
<1>1. NE_PG_SIZE \in Nat \ {0, 1} /\ HdrSize \in Nat \ {0}
  OBVIOUS
<1>2. PICK q \in Nat : q = size \div NE_PG_SIZE
  BY <1>1
<1>3. PICK r \in 0..(NE_PG_SIZE - 1) : size = q * NE_PG_SIZE + r
  BY <1>1, <1>2
<1>4. PICK x \in Nat : x = r + HdrSize - 1 /\ x \in Nat
  BY <1>1, <1>3
<1>5. size + HdrSize + NE_PG_SIZE - 1 = (q + 1) * NE_PG_SIZE + x
  BY <1>1, <1>3, <1>4
<1>6. ((q + 1) * NE_PG_SIZE + x) \div NE_PG_SIZE >= q + 1
  BY <1>1, <1>4
<1>7. PagesOf(size) \in Nat
  BY <1>1, <1>5, <1>4
<1> QED BY <1>2, <1>5, <1>6, <1>7

(* n frames wait in the ring, at distances d from the first page: the header of
   each leads to the next, the last one to CURR, none reaches round the ring,
   and their numbers are those of the last n frames that were stored.       *)
NeLinked(n, d, first, curr, hdr, count) ==
    /\ d \in [0..n -> 0..(RingPages - 1)] /\ d[0] = 0 /\ n <= count
    /\ \A j, k \in 0..n : j < k => d[j] < d[k]
    /\ PageAfter(first, d[n]) = curr
    /\ \A k \in 0..(n - 1) :
          LET h == hdr[PageAfter(first, d[k])] IN
          h.id = count - n + k + 1 /\ h.size \in FrameSizes /\ h.next = PageAfter(first, d[k + 1])

LEMMA PagesDiffer ==
  ASSUME NEW p \in Ring, NEW m \in 0..(RingPages - 1), NEW n \in 0..(RingPages - 1), m < n
  PROVE  PageAfter(p, m) # PageAfter(p, n)
<1>1. PICK x \in Ring : x = PageAfter(p, m)
  BY PageFacts
<1>2. PICK y \in Ring : y = PageAfter(p, n)
  BY PageFacts
<1>3. PICK r \in Nat : r = RX_STOP - RX_START /\ (x = p + m \/ x = p + m - r)
  BY <1>1, PageSum
<1>4. y = p + n \/ y = p + n - r
  BY <1>2, <1>3, PageSum
<1>5. m \in Nat /\ n \in Nat /\ p \in Nat /\ n < r
  BY <1>3, NeAssumption DEF RingPages, Ring
<1> QED BY <1>1, <1>2, <1>3, <1>4, <1>5

LEMMA PagesAdd ==
  ASSUME NEW p \in Ring, NEW m \in Nat, NEW n \in Nat, m + n < RingPages
  PROVE  PageAfter(PageAfter(p, m), n) = PageAfter(p, m + n)
<1>1. PICK r \in Nat : r = RX_STOP - RX_START /\ r = RingPages
  BY NeAssumption DEF RingPages
<1>2. PICK x \in Ring : x = PageAfter(p, m)
  BY <1>1, PageFacts
<1>3. PICK y \in Ring : y = PageAfter(x, n)
  BY <1>1, PageFacts
<1>4. PICK z \in Ring : z = PageAfter(p, m + n)
  BY <1>1, PageFacts
<1>5. /\ x = p + m \/ x = p + m - r
      /\ y = x + n \/ y = x + n - r
      /\ z = p + (m + n) \/ z = p + (m + n) - r
  BY <1>1, <1>2, <1>3, <1>4, PageSum
<1>6. /\ p \in Nat /\ x \in Nat /\ y \in Nat /\ z \in Nat
      /\ y - z < r /\ z - y < r
  BY <1>1, NeAssumption DEF Ring
<1>7. y = z
  BY <1>1, <1>5, <1>6
<1> QED BY <1>2, <1>3, <1>4, <1>7

LEMMA LinkedNone ==
  ASSUME NEW p \in Ring, NEW hdr, NEW count \in Nat
  PROVE  \E d : NeLinked(0, d, p, p, hdr, count)
<1>1. PageAfter(p, 0) = p /\ RingPages \in Nat \ {0, 1}
  BY PageFacts, NeAssumption DEF RingPages, Ring
<1>2. NeLinked(0, [k \in 0..0 |-> 0], p, p, hdr, count)
  BY <1>1 DEF NeLinked
<1> QED BY <1>2

(* The card has stored a frame of so many pages at CURR.                    *)
NeStored(first, curr, bnry, hdr, hdr2, count, pages) ==
    /\ first \in Ring /\ curr \in Ring /\ bnry \in Ring /\ first = PageAfter(bnry, 1) /\ count \in Nat
    /\ pages \in Nat \ {0} /\ pages < (bnry - curr + RingPages) % RingPages
    /\ hdr2[curr].id = count + 1 /\ hdr2[curr].size \in FrameSizes
    /\ hdr2[curr].next = PageAfter(curr, pages) /\ \A p \in Ring \ {curr} : hdr2[p] = hdr[p]

(* What the card stores is appended to the chain: the free pages leave room for
   it before BNRY.                                                          *)
LEMMA LinkedReceive ==
  ASSUME NEW n \in Nat, NEW d, NEW first, NEW curr, NEW bnry, NEW hdr, NEW hdr2, NEW count, NEW pages,
         NeLinked(n, d, first, curr, hdr, count), NeStored(first, curr, bnry, hdr, hdr2, count, pages)
  PROVE  /\ PageAfter(curr, pages) \in Ring
         /\ \E e : NeLinked(n + 1, e, first, PageAfter(curr, pages), hdr2, count + 1)
<1> USE NeAssumption
<1>0. /\ first \in Ring /\ curr \in Ring /\ bnry \in Ring /\ first = PageAfter(bnry, 1) /\ count \in Nat
      /\ pages \in Nat \ {0} /\ pages < (bnry - curr + RingPages) % RingPages
      /\ hdr2[curr].id = count + 1 /\ hdr2[curr].size \in FrameSizes
      /\ hdr2[curr].next = PageAfter(curr, pages) /\ \A p \in Ring \ {curr} : hdr2[p] = hdr[p]
  BY DEF NeStored
<1> USE <1>0
<1>1. RingPages \in Nat \ {0, 1} /\ d[n] \in 0..(RingPages - 1) /\ curr = PageAfter(first, d[n])
  BY DEF NeLinked, RingPages
<1>2. PICK m \in 0..(RingPages - 1) : m = d[n]
  BY <1>1
<1>3. PICK r \in Nat : r = RingPages /\ r = RX_STOP - RX_START
  BY <1>1 DEF RingPages
<1>4. bnry - curr + r = r - 1 - m \/ bnry - curr + r = r + r - 1 - m
  <2>1. first = bnry + 1 \/ first = bnry + 1 - r
    <3>1. 1 \in 0..(RingPages - 1)
      BY <1>1
    <3> QED BY <1>3, <3>1, PageSum
  <2>2. curr = first + m \/ curr = first + m - r
    BY <1>1, <1>2, <1>3, PageSum
  <2>3. /\ bnry \in Nat /\ curr \in Nat /\ first \in Nat /\ m \in 0..(r - 1)
        /\ bnry - curr < r /\ curr - bnry < r
    BY <1>2, <1>3 DEF Ring
  <2> QED BY <1>3, <2>1, <2>2, <2>3
<1>5. (bnry - curr + RingPages) % RingPages = RingPages - 1 - m
  <2>1. (r - 1 - m) % r = r - 1 - m /\ (r + r - 1 - m) % r = r - 1 - m
    BY <1>1, <1>2, <1>3
  <2> QED BY <2>1, <1>3, <1>4
<1>6. pages \in 0..(RingPages - 1) /\ m + pages \in 0..(RingPages - 1)
  BY <1>1, <1>2, <1>5
<1>7. /\ PageAfter(curr, pages) \in Ring
      /\ PageAfter(curr, pages) = PageAfter(first, d[n] + pages)
  BY <1>1, <1>2, <1>6, PagesAdd, PageFacts
<1>8. PICK e : e = [k \in 0..(n + 1) |-> IF k <= n THEN d[k] ELSE d[n] + pages]
  OBVIOUS
<1>9. /\ e \in [0..(n + 1) -> 0..(RingPages - 1)] /\ e[0] = 0 /\ e[n + 1] = d[n] + pages
      /\ \A k \in 0..n : e[k] = d[k]
  <2>1. /\ 0 \in 0..(n + 1) /\ n + 1 \in 0..(n + 1) /\ ~(n + 1 <= n)
        /\ \A k \in 0..n : k \in 0..(n + 1) /\ k <= n
        /\ \A k \in 0..(n + 1) : k <= n => k \in 0..n
    OBVIOUS
  <2>2. \A k \in 0..n : d[k] \in 0..(RingPages - 1)
    BY DEF NeLinked
  <2>3. e \in [0..(n + 1) -> 0..(RingPages - 1)]
    BY <1>2, <1>6, <1>8, <2>1, <2>2
  <2> QED BY <1>8, <2>1, <2>3 DEF NeLinked
<1>10. \A j, k \in 0..(n + 1) : j < k => e[j] < e[k]
  <2> SUFFICES ASSUME NEW j \in 0..(n + 1), NEW k \in 0..(n + 1), j < k PROVE e[j] < e[k]
    OBVIOUS
  <2>1. CASE k <= n
    <3>1. j \in 0..n /\ k \in 0..n
      BY <2>1
    <3>2. d[j] < d[k]
      BY <3>1 DEF NeLinked
    <3> QED BY <3>1, <3>2, <1>9
  <2>2. CASE k = n + 1
    <3>1. j \in 0..n /\ n \in 0..n /\ (j = n \/ j < n)
      BY <2>2
    <3>2. d[j] \in Nat /\ d[n] \in Nat /\ (j < n => d[j] < d[n])
      <4>1. \A x \in 0..n : d[x] \in 0..(RingPages - 1)
        BY DEF NeLinked
      <4>2. \A x, y \in 0..n : x < y => d[x] < d[y]
        BY DEF NeLinked
      <4>3. d[j] \in 0..(RingPages - 1) /\ d[n] \in 0..(RingPages - 1)
        BY <3>1, <4>1
      <4>4. j < n => d[j] < d[n]
        BY <3>1, <4>2
      <4> QED BY <4>3, <4>4
    <3> QED BY <2>2, <3>1, <3>2, <1>9, SMTT(30)
  <2> QED BY <2>1, <2>2
<1>11. ASSUME NEW k \in 0..n
       PROVE  LET g == hdr2[PageAfter(first, e[k])] IN
              g.id = (count + 1) - (n + 1) + k + 1 /\ g.size \in FrameSizes
                /\ g.next = PageAfter(first, e[k + 1])
  <2>1. CASE k = n
    <3>1. PageAfter(first, e[k]) = curr
      BY <2>1, <1>9, <1>1
    <3> QED BY <3>1, <2>1, <1>7, <1>9, SMTT(30)
  <2>2. CASE k < n
    <3>1. /\ d[k] \in 0..(RingPages - 1) /\ d[k] < d[n] /\ e[k] = d[k] /\ e[k + 1] = d[k + 1]
          /\ k \in 0..(n - 1)
      <4>1. k \in 0..n /\ k + 1 \in 0..n /\ n \in 0..n /\ k \in 0..(n - 1)
        BY <2>2
      <4>2. d[k] \in 0..(RingPages - 1) /\ d[k] < d[n]
        BY <2>2, <4>1 DEF NeLinked
      <4> QED BY <1>9, <4>1, <4>2
    <3>2. PageAfter(first, d[k]) \in Ring
      BY <3>1, PageFacts
    <3>3. PageAfter(first, d[k]) # curr
      BY <3>1, <1>1, PagesDiffer
    <3>4. hdr2[PageAfter(first, e[k])] = hdr[PageAfter(first, d[k])]
      BY <3>1, <3>2, <3>3
    <3>5. LET g == hdr[PageAfter(first, d[k])] IN
          g.id = count - n + k + 1 /\ g.size \in FrameSizes /\ g.next = PageAfter(first, d[k + 1])
      BY <3>1 DEF NeLinked
    <3> QED BY <3>1, <3>4, <3>5
  <2> QED BY <2>1, <2>2
<1>12. NeLinked(n + 1, e, first, PageAfter(curr, pages), hdr2, count + 1)
  <2>1. n + 1 <= count + 1
    BY DEF NeLinked
  <2>2. PageAfter(first, e[n + 1]) = PageAfter(curr, pages)
    BY <1>7, <1>9
  <2>3. (n + 1) - 1 = n
    OBVIOUS
  <2> QED BY <2>1, <2>2, <2>3, <1>9, <1>10, <1>11 DEF NeLinked
<1> QED BY <1>7, <1>12

(* ne2000_recv passes over the first frame, or leaves the ring empty.       *)
LEMMA LinkedPass ==
  ASSUME NEW n \in Nat, NEW d, NEW first \in Ring, NEW curr \in Ring,
         NEW hdr, NEW hdr2, NEW count \in Nat,
         NeLinked(n, d, first, curr, hdr, count), first # curr,
         hdr[first].next # curr => \A p \in Ring \ {first} : hdr2[p] = hdr[p]
  PROVE  /\ n > 0 /\ hdr[first].id = count - n + 1 /\ hdr[first].size \in FrameSizes
         /\ hdr[first].next \in Ring
         /\ \E e : NeLinked(n - 1, e, hdr[first].next, curr, hdr2, count)
<1> USE NeAssumption
<1>1. RingPages \in Nat \ {0, 1} /\ d[n] \in 0..(RingPages - 1) /\ curr = PageAfter(first, d[n])
  BY DEF NeLinked, RingPages
<1>2. d[0] = 0 /\ PageAfter(first, 0) = first
  BY <1>1, PageFacts DEF Ring, NeLinked
<1>3. n \in Nat \ {0}
  BY <1>1, <1>2
<1>4. PICK a \in 1..(RingPages - 1) : a = d[1]
  <2>1. 0 \in 0..n /\ 1 \in 0..n
    BY <1>3
  <2>2. d \in [0..n -> 0..(RingPages - 1)] /\ \A j, k \in 0..n : j < k => d[j] < d[k]
    BY DEF NeLinked
  <2>3. d[1] \in 0..(RingPages - 1) /\ d[0] < d[1]
    BY <2>1, <2>2
  <2> HIDE DEF RingPages
  <2> QED BY <1>1, <1>2, <2>3
<1>5. /\ hdr[first].id = count - n + 1 /\ hdr[first].size \in FrameSizes
      /\ hdr[first].next = PageAfter(first, a)
  <2>1. 0 \in 0..(n - 1) /\ 0 + 1 = 1
    BY <1>3
  <2>2. LET h == hdr[PageAfter(first, d[0])] IN
        h.id = count - n + 0 + 1 /\ h.size \in FrameSizes /\ h.next = PageAfter(first, d[0 + 1])
    BY <2>1 DEF NeLinked
  <2> QED BY <1>2, <1>4, <2>1, <2>2 DEF NeLinked
<1>6. PICK next \in Ring : next = hdr[first].next /\ next = PageAfter(first, a)
  BY <1>1, <1>4, <1>5, PageFacts
<1>7. PICK e : e = [k \in 0..(n - 1) |-> d[k + 1] - a]
  OBVIOUS
<1>8. ASSUME NEW k \in 0..(n - 1)
      PROVE  /\ k + 1 \in 0..n /\ d[k + 1] \in a..(RingPages - 1) /\ (k > 0 => d[k + 1] > a)
             /\ PageAfter(next, e[k]) = PageAfter(first, d[k + 1])
  <2>1. k + 1 \in 0..n /\ 1 \in 0..n /\ (k = 0 \/ 1 < k + 1)
    BY <1>3
  <2>2. d[k + 1] \in a..(RingPages - 1) /\ (k > 0 => d[k + 1] > a)
    <3>1. \A x \in 0..n : d[x] \in 0..(RingPages - 1)
      BY DEF NeLinked
    <3>2. \A x, y \in 0..n : x < y => d[x] < d[y]
      BY DEF NeLinked
    <3>3. d[k + 1] \in 0..(RingPages - 1)
      BY <2>1, <3>1
    <3>4. k = 0 \/ d[1] < d[k + 1]
      BY <2>1, <3>2
    <3> HIDE DEF RingPages
    <3> QED BY <1>4, <3>3, <3>4
  <2>3. PICK b \in Nat : b = e[k] /\ a + b = d[k + 1] /\ a + b < RingPages
    <3>1. PICK x \in a..(RingPages - 1) : x = d[k + 1]
      BY <2>2
    <3>2. x - a \in Nat /\ a + (x - a) = x /\ x < RingPages
      BY <1>1, <1>4
    <3>3. e[k] = x - a
      BY <1>7, <3>1
    <3> QED BY <3>1, <3>2, <3>3
  <2>4. PageAfter(next, b) = PageAfter(first, a + b)
    BY <1>4, <1>6, <2>3, PagesAdd
  <2> QED BY <2>1, <2>2, <2>3, <2>4
<1>9. e \in [0..(n - 1) -> 0..(RingPages - 1)] /\ e[0] = 0
  <2>1. \A k \in 0..(n - 1) : d[k + 1] - a \in 0..(RingPages - 1)
    <3> SUFFICES ASSUME NEW k \in 0..(n - 1) PROVE d[k + 1] - a \in 0..(RingPages - 1)
      OBVIOUS
    <3>1. PICK x \in a..(RingPages - 1) : x = d[k + 1]
      BY <1>8
    <3>2. x - a \in 0..(RingPages - 1)
      BY <1>1, <1>4
    <3> QED BY <3>1, <3>2
  <2>2. 0 \in 0..(n - 1) /\ 0 + 1 = 1
    BY <1>3
  <2>3. e[0] = d[1] - a
    BY <1>7, <2>2
  <2> QED BY <1>4, <1>7, <2>1, <2>3
<1>10. \A j, k \in 0..(n - 1) : j < k => e[j] < e[k]
  <2> SUFFICES ASSUME NEW j \in 0..(n - 1), NEW k \in 0..(n - 1), j < k PROVE e[j] < e[k]
    OBVIOUS
  <2>1. j + 1 \in 0..n /\ k + 1 \in 0..n /\ j + 1 < k + 1
    BY <1>3
  <2>2. d[j + 1] < d[k + 1]
    BY <2>1 DEF NeLinked
  <2> QED BY <1>4, <1>7, <1>8, <2>2
<1>11. PageAfter(next, e[n - 1]) = curr
  <2>1. n - 1 \in 0..(n - 1) /\ (n - 1) + 1 = n
    BY <1>3
  <2> QED BY <1>1, <1>8, <2>1
<1>12. ASSUME NEW k \in 0..((n - 1) - 1)
       PROVE  LET h == hdr2[PageAfter(next, e[k])] IN
              h.id = count - (n - 1) + k + 1 /\ h.size \in FrameSizes /\ h.next = PageAfter(next, e[k + 1])
  <2>1. k \in 0..(n - 1) /\ k + 1 \in 0..(n - 1) /\ k + 1 > 0 /\ n \in 0..n /\ 1 \in 0..n /\ 1 < n
    BY <1>3
  <2>2. LET h == hdr[PageAfter(first, d[k + 1])] IN
        /\ h.id = count - n + (k + 1) + 1 /\ h.size \in FrameSizes
        /\ h.next = PageAfter(first, d[(k + 1) + 1])
    BY <2>1 DEF NeLinked
  <2>3. /\ PageAfter(next, e[k]) = PageAfter(first, d[k + 1])
        /\ PageAfter(next, e[k + 1]) = PageAfter(first, d[(k + 1) + 1])
        /\ d[k + 1] \in a..(RingPages - 1)
    BY <2>1, <1>8
  <2>4. next # curr
    <3>1. a < d[n]
      BY <1>4, <2>1 DEF NeLinked
    <3>2. a \in 0..(RingPages - 1)
      BY <1>4
    <3> QED BY <1>1, <1>6, <3>1, <3>2, PagesDiffer
  <2>5. PageAfter(first, d[k + 1]) # first /\ PageAfter(first, d[k + 1]) \in Ring
    <3>1. d[k + 1] \in 0..(RingPages - 1) /\ 0 < d[k + 1] /\ 0 \in 0..(RingPages - 1)
      BY <1>1, <1>4, <2>3
    <3>2. PageAfter(first, 0) # PageAfter(first, d[k + 1])
      BY <3>1, PagesDiffer
    <3> QED BY <1>2, <3>1, <3>2, PageFacts
  <2>6. hdr2[PageAfter(next, e[k])] = hdr[PageAfter(first, d[k + 1])]
    BY <1>6, <2>3, <2>4, <2>5
  <2> QED BY <2>1, <2>2, <2>3, <2>6
<1>13. NeLinked(n - 1, e, next, curr, hdr2, count)
  <2>1. n - 1 <= count
    BY <1>3 DEF NeLinked
  <2> QED BY <2>1, <1>9, <1>10, <1>11, <1>12 DEF NeLinked
<1> QED BY <1>3, <1>5, <1>6, <1>13

(* The walk along the headers is defined, and meets the frames of the chain. *)
NeWalk(f, m) ==
    /\ f \in [0..m -> Ring] /\ f[0] = FirstPage
    /\ \A k \in 1..m : f[k] = neHdr[f[k - 1]].next

LEMMA WalkExists ==
  ASSUME FirstPage \in Ring, \A p \in Ring : neHdr[p].next \in Ring
  PROVE  \A m \in Nat : \E f : NeWalk(f, m)
<1> DEFINE S == {m \in Nat : \E f : NeWalk(f, m)}
<1>1. 0 \in S
  <2>1. NeWalk([k \in 0..0 |-> FirstPage], 0)
    BY DEF NeWalk
  <2> QED BY <2>1
<1>2. ASSUME NEW m \in Nat, m \in S PROVE m + 1 \in S
  <2>1. PICK f : NeWalk(f, m)
    BY <1>2
  <2>2. PICK g : g = [k \in 0..(m + 1) |-> IF k <= m THEN f[k] ELSE neHdr[f[m]].next]
    OBVIOUS
  <2>3. /\ m + 1 \in 0..(m + 1) /\ ~(m + 1 <= m) /\ m \in 0..m /\ (m + 1) - 1 = m /\ 0 \in 0..m
        /\ \A k \in 0..m : k \in 0..(m + 1) /\ k <= m
        /\ \A k \in 0..(m + 1) : k <= m => k \in 0..m
        /\ \A k \in 1..(m + 1) : k = m + 1 \/ (k \in 1..m /\ k \in 0..m /\ k - 1 \in 0..m)
    OBVIOUS
  <2>4. /\ \A k \in 0..m : f[k] \in Ring
        /\ neHdr[f[m]].next \in Ring
    BY <2>1, <2>3 DEF NeWalk
  <2>5. g \in [0..(m + 1) -> Ring]
    BY <2>2, <2>3, <2>4
  <2>6. (\A k \in 0..m : g[k] = f[k]) /\ g[m + 1] = neHdr[f[m]].next
    BY <2>2, <2>3
  <2>7. \A k \in 1..(m + 1) : g[k] = neHdr[g[k - 1]].next
    BY <2>1, <2>3, <2>6 DEF NeWalk
  <2>8. NeWalk(g, m + 1)
    BY <2>1, <2>3, <2>5, <2>6, <2>7 DEF NeWalk
  <2> QED BY <2>8
<1> HIDE DEF S
<1>3. \A m \in Nat : m \in S
  BY <1>1, <1>2, SetInduction
<1> QED BY <1>3 DEF S

LEMMA ReachWalks ==
  ASSUME FirstPage \in Ring, \A p \in Ring : neHdr[p].next \in Ring
  PROVE  NeReach = [n \in 0..MaxReceived |-> IF n = 0 THEN FirstPage ELSE neHdr[NeReach[n - 1]].next]
<1>1. PICK f : NeWalk(f, MaxReceived)
  BY WalkExists, NeAssumption
<1>2. f = [n \in 0..MaxReceived |-> IF n = 0 THEN FirstPage ELSE neHdr[f[n - 1]].next]
  BY <1>1, NeAssumption DEF NeWalk
<1> QED BY <1>2 DEF NeReach

LEMMA LinkedChain ==
  ASSUME FirstPage \in Ring, \A p \in Ring : neHdr[p].next \in Ring, neCount \in 0..MaxReceived,
         NEW n \in Nat, NEW d, NeLinked(n, d, FirstPage, neCurr, neHdr, neCount)
  PROVE  NeChain
<1> USE NeAssumption
<1>1. n \in 0..MaxReceived
  BY DEF NeLinked
<1> DEFINE S == {k \in Nat : k <= n => NeReach[k] = PageAfter(FirstPage, d[k])}
<1>2. 0 \in S
  <2>1. NeReach[0] = FirstPage
    BY ReachWalks
  <2>2. d[0] = 0 /\ PageAfter(FirstPage, 0) = FirstPage
    BY PageFacts DEF NeLinked, Ring, RingPages
  <2> QED BY <2>1, <2>2
<1>3. ASSUME NEW k \in Nat, k \in S PROVE k + 1 \in S
  <2> SUFFICES ASSUME k + 1 <= n PROVE NeReach[k + 1] = PageAfter(FirstPage, d[k + 1])
    OBVIOUS
  <2>1. k + 1 \in 0..MaxReceived /\ k + 1 # 0 /\ (k + 1) - 1 = k /\ k \in 0..(n - 1) /\ k <= n
    BY <1>1
  <2>2. NeReach[k + 1] = neHdr[NeReach[k]].next
    BY <2>1, ReachWalks
  <2>3. NeReach[k] = PageAfter(FirstPage, d[k])
    BY <1>3, <2>1
  <2> QED BY <2>1, <2>2, <2>3 DEF NeLinked
<1> HIDE DEF S
<1>4. \A k \in Nat : k \in S
  BY <1>2, <1>3, SetInduction
<1>5. \A k \in 0..n : NeReach[k] = PageAfter(FirstPage, d[k])
  BY <1>4 DEF S
<1>6. NeReach[n] = neCurr
  BY <1>5 DEF NeLinked
<1>7. \A k \in 0..(n - 1) : neHdr[NeReach[k]].id = neCount - n + k + 1
  BY <1>5 DEF NeLinked
<1> QED BY <1>1, <1>6, <1>7 DEF NeChain

-----------------------------------------------------------------------------
(* The inductive invariant of the receiving side.                           *)
NeHeader == [id : 0..MaxReceived, size : FrameSizes \cup {0}, next : Ring, stat : {"PRX", "FO", "other"}]
NeFrame == [id : 1..MaxReceived, page : Ring, size : FrameSizes, exact : BOOLEAN]

NeShape ==
    /\ neCurr \in Ring /\ neBnry \in Ring
    /\ neHdr \in [Ring -> NeHeader]
    /\ neIsr \subseteq {"PRX", "PTX"} /\ hIsr \subseteq {"PRX", "PTX"}
    /\ neLost \subseteq {"PRX", "PTX", "killed"}
    /\ neCount \in 0..MaxReceived
    /\ hPc \in {"out", "ack", "tx", "recv", "push"}
    /\ netq \in Seq(NeFrame) /\ Len(netq) <= NETQ_MAX_ITEMS
    /\ ntPc \in {"test", "sleep", "asleep", "shift", "locked", "process", "null"}
    /\ txData \in Senders \cup {Nobody} /\ txOn \in Senders \cup {Nobody}
    /\ ntMissed \in BOOLEAN /\ ntAwaken \in BOOLEAN
    /\ txTorn \subseteq Senders

(* The frames of the ring are linked, and newer than those in the queue.    *)
NeRing ==
    \E n \in Nat :
        /\ \E d : NeLinked(n, d, FirstPage, neCurr, neHdr, neCount)
        /\ \A i \in 1..Len(netq) : netq[i].id <= neCount - n

(* A report is in the card's register, in the handler, acted upon, or lost;
   a killed sender makes none.                                              *)
NeNoticed ==
    /\ FirstPage # neCurr => "PRX" \in neIsr \cup hIsr \cup neLost \/ hPc = "recv"
    /\ tx_lock /\ txOn = Nobody /\ ~TxBusy => "PTX" \in neIsr \cup hIsr \cup neLost \/ "killed" \in neLost

(* net_task goes for a frame only when there is one, or a signal has woken it. *)
NeTaskPlace ==
    /\ ntPc \in {"sleep", "asleep"} /\ netq # <<>> => ntMissed
    /\ ntPc \in {"shift", "locked"} => netq # <<>> \/ ntAwaken
    /\ ntPc = "null" => ntAwaken

NeRecvInv == NeTxInv /\ NeShape /\ NeRing /\ NeFramesRight /\ NeNoticed /\ NeTaskPlace

LEMMA FirstPageInRing == ASSUME NeShape PROVE FirstPage \in Ring
<1>1. 1 \in 0..(RingPages - 1)
  BY NeAssumption DEF RingPages
<1> QED BY <1>1, PageFacts DEF NeShape, FirstPage

LEMMA PassNext ==
  ASSUME NeShape, NEW n \in Nat, NEW d, NeLinked(n, d, FirstPage, neCurr, neHdr, neCount),
         FirstPage # neCurr, Pass(neHdr[FirstPage].next), UNCHANGED <<neCurr, neCount>>
  PROVE  /\ n > 0 /\ neHdr[FirstPage].id = neCount - n + 1 /\ neHdr[FirstPage].size \in FrameSizes
         /\ n - 1 \in Nat /\ neBnry' \in Ring /\ neHdr' \in [Ring -> NeHeader]
         /\ \E e : NeLinked(n - 1, e, FirstPage', neCurr', neHdr', neCount')
<1>1. FirstPage \in Ring /\ neCurr \in Ring /\ neHdr \in [Ring -> NeHeader] /\ neCount \in Nat
  BY FirstPageInRing, NeAssumption DEF NeShape
<1>2. PICK next : next = neHdr[FirstPage].next
  OBVIOUS
<1>3. /\ n > 0 /\ neHdr[FirstPage].id = neCount - n + 1 /\ neHdr[FirstPage].size \in FrameSizes
      /\ next \in Ring
      /\ \E e : NeLinked(n - 1, e, next, neCurr, neHdr', neCount)
  <2>1. PICK hdr2 : hdr2 = neHdr'
    OBVIOUS
  <2>2. neHdr[FirstPage].next # neCurr => \A p \in Ring \ {FirstPage} : hdr2[p] = neHdr[p]
    BY <1>1, <2>1 DEF Pass
  <2>3. /\ n > 0 /\ neHdr[FirstPage].id = neCount - n + 1 /\ neHdr[FirstPage].size \in FrameSizes
        /\ neHdr[FirstPage].next \in Ring
        /\ \E e : NeLinked(n - 1, e, neHdr[FirstPage].next, neCurr, hdr2, neCount)
    BY <1>1, <2>2, LinkedPass
  <2> QED BY <1>2, <2>1, <2>3
<1>4. neBnry' \in Ring /\ FirstPage' = next
  BY <1>2, <1>3, BoundaryFacts DEF Pass, FirstPage
<1>5. NoHdr \in NeHeader
  BY NeAssumption DEF NoHdr, NeHeader, Ring
<1>6. neHdr' \in [Ring -> NeHeader]
  BY <1>1, <1>5 DEF Pass
<1> QED BY <1>3, <1>4, <1>6

LEMMA PassAll ==
  ASSUME NeShape, Pass(neCurr), UNCHANGED <<neCurr, neCount>>
  PROVE  /\ neBnry' \in Ring /\ neHdr' \in [Ring -> NeHeader]
         /\ \E e : NeLinked(0, e, FirstPage', neCurr', neHdr', neCount')
<1>1. neCurr \in Ring /\ neHdr \in [Ring -> NeHeader] /\ neCount \in Nat
  BY NeAssumption DEF NeShape
<1>2. neBnry' \in Ring /\ FirstPage' = neCurr
  BY <1>1, BoundaryFacts DEF Pass, FirstPage
<1>3. NoHdr \in NeHeader
  BY NeAssumption DEF NoHdr, NeHeader, Ring
<1>4. neHdr' \in [Ring -> NeHeader]
  BY <1>1, <1>3 DEF Pass
<1>5. \E e : NeLinked(0, e, neCurr, neCurr, neHdr', neCount)
  BY <1>1, LinkedNone
<1> QED BY <1>2, <1>4, <1>5

(* A frame that does not cross the end of the ring is copied from where it lies. *)
LEMMA CopiedExact ==
  ASSUME NEW page \in Ring, NEW size \in FrameSizes, page + PagesOf(size) <= RX_STOP
  PROVE  Copied(page, size) = Stored(page, size)
<1>1. size \in Nat \ {0}
  BY NeAssumption DEF FrameSizes
<1>2. ~(page + size \div NE_PG_SIZE >= RX_STOP)
  BY <1>1, SizeFacts, NeAssumption DEF Ring
<1> QED BY <1>2 DEF Copied, Stored

LEMMA NeRingStep ==
  ASSUME NeRecvInv, [NeNext]_neVars
  PROVE  NeShape' /\ NeRing' /\ NeFramesRight'
<1> USE NeAssumption
<1>n. PICK n \in Nat : /\ \E d : NeLinked(n, d, FirstPage, neCurr, neHdr, neCount)
                       /\ \A i \in 1..Len(netq) : netq[i].id <= neCount - n
  BY DEF NeRecvInv, NeRing
<1>d. PICK d : NeLinked(n, d, FirstPage, neCurr, neHdr, neCount)
  BY <1>n
<1>s. /\ NeShape /\ NeFramesRight /\ FirstPage \in Ring
      /\ txPc \in [Senders -> {"out", "put", "setup", "data", "go"}]
  BY FirstPageInRing DEF NeRecvInv, NeTxInv
<1>same. ASSUME UNCHANGED <<rxCard, netq>> PROVE NeRing' /\ NeFramesRight'
  <2>1. FirstPage' = FirstPage
    BY <1>same DEF FirstPage, rxCard
  <2> QED BY <1>same, <1>s, <1>n, <2>1 DEF NeRing, NeFramesRight, rxCard
<1>1. ASSUME NEW a \in Arrivals, CardReceives(a[1], a[2]) PROVE NeShape' /\ NeRing' /\ NeFramesRight'
  <2>1. a[1] \in Nat \ {0} /\ a[1] \in FrameSizes /\ a[2] \in {"PRX", "FO", "other"}
    BY DEF FrameSizes
  <2>2. PICK pages \in Nat \ {0} : pages = PagesOf(a[1])
    BY <2>1, SizeFacts
  <2>3. PICK h : h = [id |-> neCount + 1, size |-> a[1], stat |-> a[2], next |-> PageAfter(neCurr, pages)]
    OBVIOUS
  <2>4. h.id = neCount + 1 /\ h.size \in FrameSizes /\ h.next = PageAfter(neCurr, pages)
    BY <2>1, <2>3
  <2>5. /\ neCount < MaxReceived /\ pages < (neBnry - neCurr + RingPages) % RingPages
        /\ neHdr' = [neHdr EXCEPT ![neCurr] = h] /\ neCurr' = PageAfter(neCurr, pages)
        /\ neCount' = neCount + 1 /\ neIsr' = neIsr \cup {"PRX"}
        /\ UNCHANGED <<neBnry, hPc, hIsr, netq, neTasks, txCard, neHistory>>
    BY <1>1, <2>2, <2>3 DEF CardReceives, FreePages
  <2>6. /\ PageAfter(neCurr, pages) \in Ring
        /\ \E e : NeLinked(n + 1, e, FirstPage, PageAfter(neCurr, pages), neHdr', neCount + 1)
    <3>1. /\ neCurr \in Ring /\ neBnry \in Ring /\ neCount \in Nat /\ neHdr \in [Ring -> NeHeader]
          /\ FirstPage = PageAfter(neBnry, 1) /\ FirstPage \in Ring
      BY <1>s DEF NeShape, FirstPage
    <3>2. PICK hdr2 : hdr2 = neHdr'
      OBVIOUS
    <3>3. NeStored(FirstPage, neCurr, neBnry, neHdr, hdr2, neCount, pages)
      <4>1. /\ hdr2[neCurr].id = neCount + 1 /\ hdr2[neCurr].size \in FrameSizes
            /\ hdr2[neCurr].next = PageAfter(neCurr, pages) /\ \A p \in Ring \ {neCurr} : hdr2[p] = neHdr[p]
        BY <2>4, <2>5, <3>1, <3>2
      <4> QED BY <2>5, <3>1, <4>1 DEF NeStored
    <3>4. /\ PageAfter(neCurr, pages) \in Ring
          /\ \E e : NeLinked(n + 1, e, FirstPage, PageAfter(neCurr, pages), hdr2, neCount + 1)
      BY <1>d, <3>3, LinkedReceive
    <3> QED BY <3>2, <3>4
  <2>7. h \in NeHeader
    BY <1>s, <2>1, <2>3, <2>5, <2>6 DEF NeHeader, NeShape
  <2>8. NeShape'
    BY <1>s, <2>5, <2>6, <2>7 DEF NeShape, neTasks, txCard, neHistory
  <2>9. FirstPage' = FirstPage
    BY <2>5 DEF FirstPage
  <2>10. \A i \in 1..Len(netq') : netq'[i].id <= neCount' - (n + 1)
    BY <1>s, <1>n, <2>5 DEF NeShape, NeFrame
  <2>11. NeRing'
    <3>1. n + 1 \in Nat /\ \E e : NeLinked(n + 1, e, FirstPage', neCurr', neHdr', neCount')
      BY <2>5, <2>6, <2>9
    <3> QED BY <3>1, <2>10 DEF NeRing
  <2> QED BY <1>s, <2>5, <2>8, <2>11 DEF NeFramesRight
<1>2. CASE CardTransmitted
  BY <1>2, <1>s, <1>same DEF CardTransmitted, NeShape, rxCard, neTasks, neHistory
<1>3. CASE HandlerEnter
  BY <1>3, <1>s, <1>same DEF HandlerEnter, NeShape, rxCard, neTasks, txCard, neHistory
<1>4. CASE HandlerAck
  BY <1>4, <1>s, <1>same DEF HandlerAck, NeShape, rxCard, neTasks, txCard
<1>5. CASE HandlerTx
  BY <1>5, <1>s, <1>same DEF HandlerTx, NeShape, rxCard, txCard, neHistory
<1>6. CASE RecvDone
  BY <1>6, <1>s, <1>same DEF RecvDone, Abort, Spoil, NeShape, rxCard, neTasks, txCard
<1>pass. ASSUME FirstPage # neCurr, UNCHANGED <<neCurr, neCount, netq>>,
                Pass(neHdr[FirstPage].next) \/ Pass(neCurr)
         PROVE  NeRing' /\ NeFramesRight' /\ neBnry' \in Ring /\ neHdr' \in [Ring -> NeHeader]
  <2>0. \A i \in 1..Len(netq) : netq[i].id \in Nat
    <3>1. \A i \in 1..Len(netq) : netq[i] \in NeFrame
      BY <1>s DEF NeShape
    <3> QED BY <3>1 DEF NeFrame
  <2>1. CASE Pass(neHdr[FirstPage].next)
    <3>1. /\ n - 1 \in Nat /\ neBnry' \in Ring /\ neHdr' \in [Ring -> NeHeader]
          /\ \E e : NeLinked(n - 1, e, FirstPage', neCurr', neHdr', neCount')
      BY <1>s, <1>d, <1>pass, <2>1, PassNext
    <3>2. \A i \in 1..Len(netq') : netq'[i].id <= neCount' - (n - 1)
      BY <1>n, <1>s, <1>pass, <2>0 DEF NeShape
    <3> QED BY <1>s, <1>pass, <3>1, <3>2 DEF NeRing, NeFramesRight
  <2>2. CASE Pass(neCurr)
    <3>1. /\ neBnry' \in Ring /\ neHdr' \in [Ring -> NeHeader]
          /\ \E e : NeLinked(0, e, FirstPage', neCurr', neHdr', neCount')
      BY <1>s, <1>pass, <2>2, PassAll
    <3>2. \A i \in 1..Len(netq') : netq'[i].id <= neCount' - 0
      BY <1>n, <1>s, <1>pass, <2>0 DEF NeShape
    <3> QED BY <1>s, <1>pass, <3>1, <3>2 DEF NeRing, NeFramesRight
  <2> QED BY <1>pass, <2>1, <2>2
<1>7. CASE RecvSkip
  <2>1. Pass(neHdr[FirstPage].next) \/ Pass(neCurr)
    BY <1>7 DEF RecvSkip
  <2>2. FirstPage # neCurr /\ UNCHANGED <<neCurr, neCount, netq>>
    BY <1>7 DEF RecvSkip
  <2> QED BY <1>7, <1>s, <1>pass, <2>1, <2>2 DEF RecvSkip, NeShape, Tear, Spoil, neTasks, txCard
<1>8. CASE RecvNoBuffer
  <2>1. Pass(neHdr[FirstPage].next) /\ FirstPage # neCurr /\ UNCHANGED <<neCurr, neCount, netq>>
    BY <1>8 DEF RecvNoBuffer
  <2> QED BY <1>8, <1>s, <1>pass, <2>1 DEF RecvNoBuffer, NeShape, Tear, Spoil, neTasks, txCard
<1>9. CASE RecvFrame
  <2>1. PICK x : x = [id |-> neHdr[FirstPage].id, page |-> FirstPage, size |-> neHdr[FirstPage].size,
                      exact |-> Copied(FirstPage, neHdr[FirstPage].size)
                                  = Stored(FirstPage, neHdr[FirstPage].size)]
    OBVIOUS
  <2>2. /\ FirstPage # neCurr /\ ~NetqFull /\ Pass(neHdr[FirstPage].next) /\ UNCHANGED <<neCurr, neCount>>
        /\ netq' = Append(netq, x)
    BY <1>9, <2>1 DEF RecvFrame
  <2>3. /\ n > 0 /\ neHdr[FirstPage].id = neCount - n + 1 /\ neHdr[FirstPage].size \in FrameSizes
        /\ n - 1 \in Nat /\ neBnry' \in Ring /\ neHdr' \in [Ring -> NeHeader]
        /\ \E e : NeLinked(n - 1, e, FirstPage', neCurr', neHdr', neCount')
    BY <1>s, <1>d, <2>2, PassNext
  <2>4. x.id = neCount - n + 1 /\ x.id \in 1..MaxReceived
    <3>1. n <= neCount /\ neCount \in 0..MaxReceived
      BY <1>s, <1>d DEF NeLinked, NeShape
    <3>2. x.id = neCount - n + 1
      BY <2>1, <2>3
    <3> QED BY <2>3, <3>1, <3>2
  <2>5. x \in NeFrame
    BY <1>s, <2>1, <2>3, <2>4 DEF NeFrame
  <2>6. /\ netq \in Seq(NeFrame) /\ netq' \in Seq(NeFrame) /\ Len(netq') = Len(netq) + 1 /\ Len(netq) \in Nat
        /\ netq'[Len(netq) + 1] = x /\ \A i \in 1..Len(netq) : netq'[i] = netq[i]
        /\ Len(netq') <= NETQ_MAX_ITEMS
    BY <1>s, <2>2, <2>5 DEF NeShape, NetqFull
  <2>7. \A i \in 1..Len(netq) : netq[i] \in NeFrame /\ netq[i].id \in Nat /\ netq[i].id < x.id
    <3> SUFFICES ASSUME NEW i \in 1..Len(netq) PROVE netq[i] \in NeFrame /\ netq[i].id \in Nat /\ netq[i].id < x.id
      OBVIOUS
    <3>1. netq[i] \in NeFrame
      BY <2>6
    <3>2. netq[i].id \in Nat
      BY <3>1 DEF NeFrame
    <3>3. netq[i].id <= neCount - n /\ neCount \in Nat
      BY <1>n, <1>s DEF NeShape
    <3> QED BY <2>4, <3>1, <3>2, <3>3
  <2>8. \A i \in 1..Len(netq') : i \in 1..Len(netq) \/ i = Len(netq) + 1
    BY <2>6
  <2>9. \A i \in 1..Len(netq') : netq'[i].id <= neCount' - (n - 1)
    <3>1. \A i \in 1..Len(netq') : netq'[i].id <= x.id
      BY <2>4, <2>6, <2>7, <2>8, SMTT(30)
    <3>2. x.id = neCount' - (n - 1)
      BY <1>s, <2>2, <2>4 DEF NeShape
    <3> QED BY <3>1, <3>2
  <2>10. NeRing'
    BY <2>3, <2>9 DEF NeRing
  <2>11. \A i, j \in 1..Len(netq') : i < j => netq'[i].id < netq'[j].id
    <3> SUFFICES ASSUME NEW i \in 1..Len(netq'), NEW j \in 1..Len(netq'), i < j
                 PROVE  netq'[i].id < netq'[j].id
      OBVIOUS
    <3>1. i \in 1..Len(netq)
      BY <2>6
    <3>2. CASE j \in 1..Len(netq)
      BY <1>s, <2>6, <3>1, <3>2 DEF NeFramesRight
    <3>3. CASE j = Len(netq) + 1
      BY <2>6, <2>7, <3>1, <3>3
    <3> QED BY <2>8, <3>2, <3>3
  <2>12. x.page + PagesOf(x.size) <= RX_STOP => x.exact
    BY <1>s, <2>1, <2>3, CopiedExact
  <2>13. \A i \in 1..Len(netq') : netq'[i].page + PagesOf(netq'[i].size) <= RX_STOP => netq'[i].exact
    BY <1>s, <2>6, <2>8, <2>12 DEF NeFramesRight
  <2>14. NeShape'
    BY <1>9, <1>s, <2>3, <2>6 DEF RecvFrame, WakeNetTask, NeShape, Tear, Spoil, txCard
  <2> QED BY <2>10, <2>11, <2>13, <2>14 DEF NeFramesRight
<1>10. CASE NetTest \/ NetSleep \/ NetSignalled \/ NetLock \/ NetProcess
  BY <1>10, <1>s, <1>same DEF NetTest, NetSleep, NetSignalled, NetLock, NetProcess, NetTask, NeShape, rxCard, txCard,
       neHistory
<1>11. CASE NetShift
  <2>1. CASE netq = <<>>
    BY <1>11, <1>s, <1>same, <2>1 DEF NetShift, NetTask, NeShape, rxCard, txCard
  <2>2. CASE netq # <<>>
    <3>1. netq \in Seq(NeFrame) /\ netq' = Tail(netq) /\ UNCHANGED rxCard
      BY <1>11, <1>s, <2>2 DEF NetShift, NeShape
    <3>2. /\ netq' \in Seq(NeFrame) /\ Len(netq') = Len(netq) - 1 /\ Len(netq) \in Nat \ {0}
          /\ \A i \in 1..Len(netq') : i + 1 \in 1..Len(netq) /\ netq'[i] = netq[i + 1]
      BY <2>2, <3>1
    <3>3. FirstPage' = FirstPage
      BY <3>1 DEF FirstPage, rxCard
    <3>4. \A i \in 1..Len(netq') : netq'[i].id <= neCount - n
      BY <1>n, <3>2
    <3>5. NeRing'
      BY <1>d, <3>1, <3>3, <3>4 DEF NeRing, rxCard
    <3>6. NeFramesRight'
      <4>1. \A i, j \in 1..Len(netq') : i < j => netq'[i].id < netq'[j].id
        <5> SUFFICES ASSUME NEW i \in 1..Len(netq'), NEW j \in 1..Len(netq'), i < j
                     PROVE  netq'[i].id < netq'[j].id
          OBVIOUS
        <5>1. i + 1 \in 1..Len(netq) /\ j + 1 \in 1..Len(netq) /\ i + 1 < j + 1
          BY <3>2
        <5>2. netq[i + 1].id < netq[j + 1].id
          BY <1>s, <5>1 DEF NeFramesRight
        <5> QED BY <3>2, <5>2
      <4> QED BY <1>s, <3>2, <4>1 DEF NeFramesRight
    <3>7. NeShape'
      <4>1. Len(netq') <= NETQ_MAX_ITEMS
        BY <1>s, <3>2 DEF NeShape
      <4>2. /\ ntPc' = "process" /\ ntMissed' = FALSE /\ ntAwaken' \in BOOLEAN
            /\ UNCHANGED <<neIsr, hPc, hIsr, txData, txOn, neLost, txTorn>>
        BY <1>11, <2>2 DEF NetShift, NetTask, txCard
      <4> QED BY <1>s, <3>1, <3>2, <4>1, <4>2 DEF NeShape, rxCard
    <3> QED BY <3>5, <3>6, <3>7
  <2> QED BY <2>1, <2>2
<1>12. ASSUME NEW s \in Senders,
              TxLock(s) \/ TxSetup(s) \/ TxStart(s) \/ TxData(s) \/ TxGo(s) \/ TxKilled(s)
       PROVE NeShape' /\ NeRing' /\ NeFramesRight'
  BY <1>12, <1>s, <1>same DEF TxLock, TxSetup, TxStart, TxData, TxGo, TxKilled, TxStep, NeShape, rxCard, txCard
<1>13. CASE UNCHANGED neVars
  BY <1>13, <1>s, <1>same DEF neVars, NeShape, rxCard
<1> QED BY <1>1, <1>2, <1>3, <1>4, <1>5, <1>6, <1>7, <1>8, <1>9, <1>10, <1>11, <1>12, <1>13 DEF NeNext

LEMMA NeNoticedStep ==
  ASSUME NeRecvInv, [NeNext]_neVars
  PROVE  NeNoticed' /\ NeTaskPlace'
<1> USE NeAssumption
<1>s. NeNoticed /\ NeTaskPlace /\ NeTxInv /\ netq \in Seq(NeFrame)
  BY DEF NeRecvInv, NeShape
<1>1. ASSUME NEW a \in Arrivals, CardReceives(a[1], a[2]) PROVE NeNoticed' /\ NeTaskPlace'
  BY <1>1, <1>s DEF CardReceives, NeNoticed, NeTaskPlace, TxBusy, neTasks, txCard, neHistory
<1>2. CASE CardTransmitted
  BY <1>2, <1>s DEF CardTransmitted, NeNoticed, NeTaskPlace, TxBusy, FirstPage, rxCard, neTasks, neHistory
<1>3. CASE HandlerEnter
  BY <1>3, <1>s DEF HandlerEnter, NeTxInv, NeNoticed, NeTaskPlace, TxBusy, FirstPage, rxCard, neTasks, txCard,
       neHistory
<1>4. CASE HandlerAck
  BY <1>4, <1>s DEF HandlerAck, NeNoticed, NeTaskPlace, TxBusy, FirstPage, rxCard, neTasks, txCard
<1>5. CASE HandlerTx
  BY <1>5, <1>s DEF HandlerTx, NeTxInv, NeNoticed, NeTaskPlace, TxBusy, FirstPage, rxCard, txCard, neHistory
<1>6. CASE RecvDone
  BY <1>6, <1>s DEF RecvDone, NeNoticed, NeTaskPlace, TxBusy, FirstPage, rxCard, neTasks, txCard
<1>7. CASE RecvSkip \/ RecvNoBuffer
  BY <1>7, <1>s DEF RecvSkip, RecvNoBuffer, NeNoticed, NeTaskPlace, TxBusy, neTasks, txCard
<1>8. CASE RecvFrame
  <2>1. netq' # <<>>
    BY <1>8, <1>s DEF RecvFrame
  <2>2. NeTaskPlace'
    BY <1>8, <1>s, <2>1 DEF RecvFrame, WakeNetTask, NeTaskPlace
  <2>3. hPc' = "recv" /\ UNCHANGED <<tx_lock, txOn, txPc, neIsr, hIsr, neLost>>
    BY <1>8 DEF RecvFrame, txCard
  <2> QED BY <1>s, <2>2, <2>3 DEF NeNoticed, TxBusy
<1>9. CASE NetTest \/ NetSleep \/ NetSignalled \/ NetLock \/ NetShift \/ NetProcess
  <2>1. NeNoticed'
    <3>1. UNCHANGED <<rxCard, hPc, neIsr, hIsr, neLost, tx_lock, txOn, txPc>>
      BY <1>9 DEF NetTest, NetSleep, NetSignalled, NetLock, NetShift, NetProcess, NetTask, txCard, neHistory
    <3> QED BY <1>s, <3>1 DEF NeNoticed, TxBusy, FirstPage, rxCard
  <2>2. CASE NetTest \/ NetSleep \/ NetProcess
    BY <1>s, <2>1, <2>2 DEF NetTest, NetSleep, NetProcess, NetTask, NeTaskPlace, neHistory
  <2>3. CASE NetSignalled \/ NetLock
    BY <1>s, <2>1, <2>3 DEF NetSignalled, NetLock, NetTask, NeTaskPlace, neHistory
  <2>4. CASE NetShift
    BY <1>s, <2>1, <2>4 DEF NetShift, NetTask, NeTaskPlace
  <2> QED BY <1>9, <2>2, <2>3, <2>4
<1>10. ASSUME NEW s \in Senders, TxLock(s) \/ TxSetup(s) \/ TxStart(s) \/ TxData(s) \/ TxGo(s)
       PROVE  NeNoticed' /\ NeTaskPlace'
  <2>1. /\ FirstPage' = FirstPage
        /\ UNCHANGED <<neCurr, neIsr, hIsr, neLost, hPc, ntPc, netq, ntMissed, ntAwaken>>
    BY <1>10 DEF TxLock, TxSetup, TxStart, TxData, TxGo, TxStep, FirstPage, rxCard
  <2>2. TxBusy' \/ txOn' # Nobody
    BY <1>10, <1>s DEF TxLock, TxSetup, TxStart, TxData, TxGo, TxStep, TxBusy, NeTxInv
  <2> QED BY <1>s, <2>1, <2>2 DEF NeNoticed, NeTaskPlace
<1>11. ASSUME NEW s \in Senders, TxKilled(s) PROVE NeNoticed' /\ NeTaskPlace'
  BY <1>11, <1>s DEF TxKilled, TxStep, NeNoticed, NeTaskPlace, FirstPage, rxCard, txCard
<1>12. CASE UNCHANGED neVars
  BY <1>12, <1>s DEF neVars, NeNoticed, NeTaskPlace, TxBusy, FirstPage
<1> QED BY <1>1, <1>2, <1>3, <1>4, <1>5, <1>6, <1>7, <1>8, <1>9, <1>10, <1>11, <1>12 DEF NeNext

(* The card, the interrupt handler and net_task: frames stay linked round the ring
   whatever the card stores while the driver reads, arrive in the queue once, in
   order and (unless they cross the end of the ring) whole, and none is left behind
   but through the windows that the properties name; for every size of the ring,
   of a page, of a frame and of the queue.                                  *)
THEOREM FramesReceivedRight == NeSpec => []NeReceiveSafety
<1>1. NeInit => NeRecvInv
  <2> SUFFICES ASSUME NeInit PROVE NeRecvInv
    OBVIOUS
  <2> USE NeAssumption
  <2>1. NeTxInv
    BY DEF NeInit, NeTxInv, TxBusy, TxReported, NeSentRight
  <2>2. NoHdr \in NeHeader /\ RX_START \in Ring /\ RX_START + 1 \in Ring
    BY DEF NoHdr, NeHeader, Ring
  <2>3. FirstPage = neCurr /\ neCurr \in Ring /\ neCount \in Nat /\ netq = <<>>
    <3>1. 1 \in 0..(RingPages - 1) /\ RX_START + 1 < RX_STOP
      BY DEF RingPages
    <3> QED BY <2>2, <3>1, PageFacts DEF NeInit, FirstPage
  <2>4. \E d : NeLinked(0, d, FirstPage, neCurr, neHdr, neCount)
    BY <2>3, LinkedNone
  <2>5. NeRing
    BY <2>3, <2>4 DEF NeRing
  <2>6. NeShape
    <3>1. netq \in Seq(NeFrame) /\ Len(netq) <= NETQ_MAX_ITEMS
      <4>1. Len(netq) = 0
        BY <2>3
      <4> QED BY <2>3, <4>1
    <3>2. neCurr \in Ring /\ neBnry \in Ring /\ neHdr \in [Ring -> NeHeader] /\ neCount \in 0..MaxReceived
      BY <2>2 DEF NeInit
    <3>3. /\ neIsr = {} /\ hIsr = {} /\ neLost = {} /\ hPc = "out" /\ ntPc = "test" /\ txData = Nobody
          /\ txOn = Nobody /\ ntMissed = FALSE /\ ntAwaken = FALSE /\ txTorn = {}
      BY DEF NeInit
    <3> QED BY <3>1, <3>2, <3>3 DEF NeShape
  <2>7. NeFramesRight /\ NeNoticed /\ NeTaskPlace
    BY <2>3 DEF NeInit, NeFramesRight, NeNoticed, NeTaskPlace, TxBusy
  <2> QED BY <2>1, <2>5, <2>6, <2>7 DEF NeRecvInv
<1>2. NeRecvInv /\ [NeNext]_neVars => NeRecvInv'
  BY NeTxStep, NeRingStep, NeNoticedStep DEF NeRecvInv
<1>3. NeRecvInv => NeReceiveSafety
  <2> SUFFICES ASSUME NeRecvInv PROVE NeReceiveSafety
    OBVIOUS
  <2>1. NeShape /\ NeTxInv /\ FirstPage \in Ring /\ \A p \in Ring : neHdr[p].next \in Ring
    BY FirstPageInRing DEF NeRecvInv, NeShape, NeHeader
  <2>2. PICK n \in Nat : \E d : NeLinked(n, d, FirstPage, neCurr, neHdr, neCount)
    BY DEF NeRecvInv, NeRing
  <2>3. PICK d : NeLinked(n, d, FirstPage, neCurr, neHdr, neCount)
    BY <2>2
  <2>4. NeChain
    BY <2>1, <2>3, LinkedChain DEF NeShape
  <2>5. NeTypeOK
    <3>1. \A i \in 1..Len(netq) : netq[i] \in NeFrame
      BY <2>1 DEF NeShape
    <3> QED BY <2>1, <3>1 DEF NeShape, NeTxInv, NeTypeOK, NeHeader, NeFrame
  <2>6. NeFramesRight /\ NetTaskRight
    BY DEF NeRecvInv, NeTaskPlace, NetTaskRight
  <2>7. NeOnlyAckLoses
    BY <2>1 DEF NeRecvInv, NeNoticed, NeTxInv, NeOnlyAckLoses, TxBusy
  <2> QED BY <2>4, <2>5, <2>6, <2>7 DEF NeReceiveSafety
<1> QED BY <1>1, <1>2, <1>3, PTL DEF NeSpec

-----------------------------------------------------------------------------
(* Address resolution.  That an answer is right needs that whoever waits in
   arp_resolve asked for a host and has no answer yet, that a pending entry
   names a host, and that every request on the wire asks for one.           *)
ArpWaiting == {"send", "sleep", "asleep", "awake"}

ArpInv ==
    /\ ArpTypeOK
    /\ \A t \in Resolvers : arpPc[t] # "idle" => arpIp[t] \in Ips /\ arpMac[t] = NoMac
    /\ \A t \in Resolvers : arpMac[t] # NoMac => arpIp[t] \in Ips
    /\ \A i \in ArpSlots : arp_cache[i].status # "FREE" => arp_cache[i].ip \in Ips
    /\ \A f \in arpWire : f.op = "REQ" => f.dip \in Ips
    /\ ArpResultRight /\ ArpSolvedRight /\ ArpNoOrphans

(* The search for an entry, from the first one on, finds one of those sought. *)
LEMMA MinFound ==
  ASSUME NEW T \in SUBSET ArpSlots, T # {} PROVE Min(T) \in T
<1>1. T \in SUBSET Nat
  BY ArpAssumption DEF ArpSlots
<1>2. \E n \in T : \A m \in T : n <= m
  BY <1>1, LeastExists
<1> QED BY <1>2 DEF Min

(* arp_cache_set_pending always has an entry: a vacant one, or the one that
   expires soonest.                                                         *)
LEMMA ArpChosenFound == ArpTypeOK => ArpChosen \in ArpSlots
<1> SUFFICES ASSUME ArpTypeOK PROVE ArpChosen \in ArpSlots
  OBVIOUS
<1>1. CASE ArpVacant # {}
  <2>1. ArpVacant \in SUBSET ArpSlots
    BY DEF ArpVacant
  <2> QED BY <1>1, <2>1, MinFound DEF ArpChosen
<1>2. CASE ArpVacant = {}
  <2> DEFINE E == {arp_cache[i].expire_ts : i \in ArpSlots}
  <2>1. E \in SUBSET Nat
    BY DEF ArpTypeOK, ArpEntry
  <2>2. 0 \in ArpSlots
    BY ArpAssumption DEF ArpSlots
  <2>3. PICK e \in E : \A x \in E : e <= x
    BY <2>1, <2>2, LeastExists, ZenonT(60)
  <2>4. PICK i \in ArpSlots : e = arp_cache[i].expire_ts
    BY <2>3
  <2>5. i \in ArpOldest
    BY <2>3, <2>4 DEF ArpOldest
  <2>6. ArpOldest \in SUBSET ArpSlots
    BY DEF ArpOldest
  <2> QED BY <1>2, <2>5, <2>6, MinFound DEF ArpChosen
<1> QED BY <1>1, <1>2

(* A scan leaves an entry alone or clears it.                               *)
LEMMA ArpSweptFacts ==
  ASSUME ArpInv, NEW last
  PROVE  /\ ArpSwept(last) \in [ArpSlots -> ArpEntry]
         /\ \A i \in ArpSlots : ArpSwept(last)[i] \in {arp_cache[i], FreeArpEntry}
         /\ FreeArpEntry \in ArpEntry
<1>1. FreeArpEntry \in ArpEntry
  BY DEF FreeArpEntry, ArpEntry
<1> QED BY <1>1 DEF ArpSwept, ArpInv, ArpTypeOK

LEMMA ArpStep == ArpInv /\ [ArpNext]_arpVars => ArpInv'
<1> SUFFICES ASSUME ArpInv, [ArpNext]_arpVars PROVE ArpInv'
  OBVIOUS
<1> USE ArpAssumption
<1> USE DEF ArpInv, ArpTypeOK, ArpResultRight, ArpSolvedRight, ArpNoOrphans, ArpGoes
<1>f. /\ FreeArpEntry \in ArpEntry /\ FreeArpEntry.status = "FREE"
  BY DEF FreeArpEntry, ArpEntry
<1>s. ASSUME NEW last PROVE
        /\ ArpSwept(last) \in [ArpSlots -> ArpEntry]
        /\ \A i \in ArpSlots : ArpSwept(last)[i] \in {arp_cache[i], FreeArpEntry}
  BY ArpSweptFacts
<1>1. ASSUME NEW t \in Resolvers, NEW ip \in Ips, ArpResolve(t, ip) PROVE ArpInv'
  <2>1. CASE SolvedFor(ip) # {}
    <3>1. SolvedFor(ip) \in SUBSET ArpSlots
      BY DEF SolvedFor
    <3>2. PICK i \in SolvedFor(ip) : i = Min(SolvedFor(ip))
      BY <2>1, <3>1, MinFound
    <3>3. i \in ArpSlots /\ arp_cache[i].status = "SOLVED" /\ arp_cache[i].ip = ip
      BY <3>2 DEF SolvedFor, ArpLive
    <3>4. arp_cache[i].mac = HostMac[ip] /\ arp_cache[i].mac \in Macs
      BY <3>3
    <3>5. /\ arp_cache' = ArpSwept(i) /\ arpIp' = [arpIp EXCEPT ![t] = ip]
          /\ ArpGoes(t, "idle", IF i > 0 THEN "idle" ELSE "miss")
          /\ arpMac' = [arpMac EXCEPT ![t] = IF i > 0 THEN arp_cache[i].mac ELSE NoMac]
          /\ UNCHANGED <<arpTime, arpSlot, arpWake, arpWire>>
      BY <1>1, <2>1, <3>2 DEF ArpResolve
    <3> QED BY <3>3, <3>4, <3>5, <1>s, <1>f
  <2>2. CASE SolvedFor(ip) = {}
    <3>1. /\ arp_cache' = ArpSwept(LastSlot) /\ arpIp' = [arpIp EXCEPT ![t] = ip]
          /\ ArpGoes(t, "idle", "miss")
          /\ arpMac' = [arpMac EXCEPT ![t] = NoMac]
          /\ UNCHANGED <<arpTime, arpSlot, arpWake, arpWire>>
      BY <1>1, <2>2 DEF ArpResolve
    <3> QED BY <3>1, <1>s, <1>f
  <2> QED BY <2>1, <2>2
<1>2. ASSUME NEW t \in Resolvers, NoBuffer(t) PROVE ArpInv'
  BY <1>2 DEF NoBuffer
<1>3. ASSUME NEW t \in Resolvers, SetPending(t) PROVE ArpInv'
  <2>1. PICK c \in ArpSlots : c = ArpChosen
    BY ArpChosenFound
  <2>2. PICK last : last = IF ArpVacant # {} THEN ArpChosen ELSE LastSlot
    OBVIOUS
  <2>3. PICK e \in ArpEntry : e = [ip |-> arpIp[t], mac |-> NoMac, status |-> "PENDING",
                                   expire_ts |-> arpTime + ARPCE_TTL_PENDING]
    <3>1. arpIp[t] \in Ips
      BY <1>3 DEF SetPending
    <3>2. arpTime + ARPCE_TTL_PENDING \in Nat
      OBVIOUS
    <3> QED BY <3>1, <3>2 DEF ArpEntry
  <2>4. /\ arpPc[t] = "miss" /\ arpPc' = [arpPc EXCEPT ![t] = "send"]
        /\ arp_cache' = [ArpSwept(last) EXCEPT ![c] = e]
        /\ arpSlot' = [arpSlot EXCEPT ![t] = c]
        /\ UNCHANGED <<arpTime, arpIp, arpMac, arpWake, arpWire>>
    BY <1>3, <2>1, <2>2, <2>3 DEF SetPending
  <2>5. e.ip \in Ips /\ e.status = "PENDING"
    BY <2>3, <2>4
  <2>6. /\ arp_cache' \in [ArpSlots -> ArpEntry] /\ arp_cache'[c] = e
        /\ \A i \in ArpSlots \ {c} : arp_cache'[i] \in {arp_cache[i], FreeArpEntry}
    BY <2>4, <1>s
  <2>7. ArpNoOrphans'
    BY <2>4, <2>5, <2>6, <1>f
  <2>8. ArpSolvedRight' /\ \A i \in ArpSlots : arp_cache'[i].status # "FREE" => arp_cache'[i].ip \in Ips
    BY <2>4, <2>5, <2>6, <1>f
  <2>9. ArpResultRight' /\ ArpTypeOK'
    BY <2>4, <2>6
  <2> QED BY <2>4, <2>7, <2>8, <2>9
<1>4. ASSUME NEW t \in Resolvers, SendRequest(t) PROVE ArpInv'
  <2>1. [op |-> "REQ", sip |-> OurIp, smac |-> OurMac, dip |-> arpIp[t]] \in ArpFrame
    BY <1>4 DEF SendRequest, ArpFrame
  <2> QED BY <1>4, <2>1 DEF SendRequest
<1>5. ASSUME NEW t \in Resolvers, ArpSleep(t) \/ ArpTimeout(t) PROVE ArpInv'
  BY <1>5 DEF ArpSleep, ArpTimeout
<1>6. ASSUME NEW t \in Resolvers, ArpFinish(t) PROVE ArpInv'
  <2>1. CASE ArpAnswered(t)
    <3>1. /\ arpPc[t] = "awake" /\ arpPc' = [arpPc EXCEPT ![t] = "idle"]
          /\ arpMac' = [arpMac EXCEPT ![t] = arp_cache[arpSlot[t]].mac]
          /\ arpSlot' = [arpSlot EXCEPT ![t] = 0]
          /\ UNCHANGED <<arp_cache, arpIp, arpTime, arpWake, arpWire>>
      BY <1>6, <2>1 DEF ArpFinish
    <3>2. /\ arp_cache[arpSlot[t]].ip = arpIp[t] /\ arp_cache[arpSlot[t]].status = "SOLVED"
          /\ arp_cache[arpSlot[t]].mac = HostMac[arpIp[t]] /\ 0 \in ArpSlots
          /\ arp_cache[arpSlot[t]].mac \in Macs
      BY <2>1, <3>1 DEF ArpAnswered, ArpSlots
    <3>3. ArpNoOrphans'
      BY <3>1, <3>2
    <3> QED BY <3>1, <3>2, <3>3
  <2>2. CASE ~ArpAnswered(t)
    <3>1. /\ arpPc[t] = "awake" /\ arpPc' = [arpPc EXCEPT ![t] = "idle"]
          /\ arpIp' = [arpIp EXCEPT ![t] = NoIp]
          /\ arp_cache' = [arp_cache EXCEPT ![arpSlot[t]] = FreeArpEntry]
          /\ arpSlot' = [arpSlot EXCEPT ![t] = 0]
          /\ UNCHANGED <<arpMac, arpTime, arpWake, arpWire>>
      BY <1>6, <2>2 DEF ArpFinish
    <3>2. 0 \in ArpSlots
      BY DEF ArpSlots
    <3>3. ArpNoOrphans'
      BY <3>1, <1>f
    <3> QED BY <3>1, <3>2, <3>3, <1>f
  <2> QED BY <2>1, <2>2
<1>7. ASSUME NEW f \in ArpArriving, ProcessRequest(f) PROVE ArpInv'
  <2>1. f.sip = AskerIp
    BY <1>7 DEF ArpArriving, ProcessRequest
  <2>2. [op |-> "REP", sip |-> OurIp, smac |-> OurMac, dip |-> f.sip] \in ArpFrame
    BY <2>1 DEF ArpFrame
  <2> QED BY <1>7, <2>2 DEF ProcessRequest
<1>8. ASSUME NEW f \in ArpArriving, ProcessReply(f) PROVE ArpInv'
  <2>1. f.sip \in Ips /\ f.smac = HostMac[f.sip] /\ f.smac \in Macs
    BY <1>8 DEF ArpArriving, ProcessReply
  <2>2. CASE PendingFor(f.sip) = {}
    BY <1>8, <2>2, <1>s, <1>f DEF ProcessReply
  <2>3. CASE PendingFor(f.sip) # {}
    <3>1. PendingFor(f.sip) \in SUBSET ArpSlots
      BY DEF PendingFor
    <3>2. PICK i \in PendingFor(f.sip) : i = Min(PendingFor(f.sip))
      BY <2>3, <3>1, MinFound
    <3>3. i \in ArpSlots /\ ArpSwept(i)[i] = arp_cache[i] /\ arp_cache[i].ip = f.sip
      BY <3>2 DEF PendingFor, ArpLive, ArpSwept
    <3>4. /\ arp_cache' = [ArpSwept(i) EXCEPT ![i].mac = f.smac, ![i].status = "SOLVED",
                                              ![i].expire_ts = arpTime + ARPCE_TTL]
          /\ arpWake' = i + 1
          /\ UNCHANGED <<arpTime, arpPc, arpIp, arpSlot, arpMac, arpWire>>
      BY <1>8, <2>3, <3>2 DEF ProcessReply
    <3>5. PICK e : e = [arp_cache[i] EXCEPT !.mac = f.smac, !.status = "SOLVED",
                                            !.expire_ts = arpTime + ARPCE_TTL]
      OBVIOUS
    <3>6. e \in ArpEntry /\ e.ip = f.sip /\ e.mac = f.smac /\ e.status = "SOLVED"
      <4>1. arpTime + ARPCE_TTL \in Nat /\ arp_cache[i] \in ArpEntry
        BY <3>3
      <4> QED BY <3>3, <3>5, <2>1, <4>1 DEF ArpEntry
    <3>7. arp_cache' = [ArpSwept(i) EXCEPT ![i] = e]
      BY <3>3, <3>4, <3>5, <1>s DEF ArpEntry
    <3>8. /\ arp_cache' \in [ArpSlots -> ArpEntry] /\ arp_cache'[i] = e
          /\ \A j \in ArpSlots \ {i} : arp_cache'[j] \in {arp_cache[j], FreeArpEntry}
      BY <3>3, <3>6, <3>7, <1>s
    <3>9. arpWake' \in 0..ARP_CACHE_SIZE
      BY <3>3, <3>4 DEF ArpSlots
    <3>10. ArpNoOrphans'
      BY <3>4, <3>6, <3>8, <1>f
    <3>11. ArpSolvedRight'
      BY <2>1, <3>6, <3>8, <1>f
    <3>12. \A j \in ArpSlots : arp_cache'[j].status # "FREE" => arp_cache'[j].ip \in Ips
      BY <2>1, <3>6, <3>8, <1>f
    <3> QED BY <3>4, <3>8, <3>9, <3>10, <3>11, <3>12
  <2> QED BY <2>2, <2>3
<1>9. CASE WakeResolvers
  BY <1>9 DEF WakeResolvers
<1>10. CASE ArpClock
  BY <1>10 DEF ArpClock
<1>11. CASE UNCHANGED arpVars
  BY <1>11 DEF arpVars
<1> QED BY <1>1, <1>2, <1>3, <1>4, <1>5, <1>6, <1>7, <1>8, <1>9, <1>10, <1>11 DEF ArpNext, ResolverStep

(* Whatever becomes of requests and answers, and whoever's entry a task finds when
   it wakes up: an address that arp_resolve returns, or that the cache holds, is
   that of the host asked for, and no pending entry is left without a task that
   looks at it again; for any number of tasks, hosts and cache entries.     *)
THEOREM ResolutionRight == ArpSpec => []ArpSafety
<1>1. ArpInit => ArpInv
  BY ArpAssumption DEF ArpInit, ArpInv, ArpTypeOK, ArpResultRight, ArpSolvedRight, ArpNoOrphans,
       FreeArpEntry, ArpEntry, ArpSlots
<1>2. ArpInv => ArpSafety
  BY DEF ArpInv, ArpSafety
<1> QED BY <1>1, <1>2, ArpStep, PTL DEF ArpSpec

-----------------------------------------------------------------------------
(* Sockets and UDP.                                                         *)

(* Sockets: what the fields are, and that the ports of the sockets of the table
   are all different.                                                       *)
UdpPorts == {NoPort, PortMinus1} \cup AllPorts \cup BoundPorts
UdpListed == {"open", "connect", "bound", "sleep", "asleep", "take", "close", "panic", "null", "killed"}
UdpUnlisted == {"none", "alloc", "drain"}

UdpShape ==
    /\ stab \in Seq(Owners) /\ IsInjective(stab)
    /\ locPort \in [Owners -> UdpPorts]
    /\ remAddr \in [Owners -> Peers \cup {AnyPeer, Broadcast}]
    /\ bufs \in [Owners -> Seq(Datagram)]
    /\ \A s \in Owners : Len(bufs[s]) <= SOCK_MAX_BUFS
    /\ sockPc \in [Owners -> UdpListed \cup UdpUnlisted]
    /\ newPort \in [Owners -> {NoPort, PortMinus1} \cup AllPorts]
    /\ usedPorts \subseteq AllPorts
    /\ udpIn \in 0..MaxDatagrams
    /\ udpPc \in {"idle", "match", "locked", "drop"}
    /\ udpCur \in Datagram \cup {NoDatagram}
    /\ udpPc = "idle" => udpCur = NoDatagram
    /\ udpPc # "idle" => udpCur \in Datagram /\ udpCur.id = udpIn
    /\ udpMatch \in Owners \cup {NoOwner}
    /\ freed \in [1..MaxDatagrams -> 0..2]
    /\ udpRaced \subseteq 1..udpIn

UdpTable ==
    /\ \A s \in Owners : sockPc[s] \in UdpListed <=> s \in Range(stab)
    /\ \A s \in Owners : sockPc[s] \in {"none", "alloc"} => locPort[s] = NoPort /\ bufs[s] = <<>>
    /\ \A s \in Owners : sockPc[s] = "connect" => locPort[s] = NoPort /\ newPort[s] # NoPort
    /\ \A s \in Owners : sockPc[s] = "bound" => locPort[s] # NoPort
    /\ \A s \in Owners : remAddr[s] \in Peers => locPort[s] # NoPort
    /\ \A s, t \in Range(stab) : locPort[s] = locPort[t] /\ locPort[s] # NoPort => s = t

(* The socket that is locked is one of the table, and still has the port.   *)
UdpLocked ==
    udpMatch # NoOwner =>
        udpPc = "locked" /\ udpMatch \in Range(stab) /\ locPort[udpMatch] = udpCur.to

UdpToPort == \A s \in Owners : \A i \in DOMAIN bufs[s] : bufs[s][i].to = locPort[s]

(* Every buffer is in one place.                                            *)
UdpOnce ==
    /\ \A s, t \in Owners : \A i \in DOMAIN bufs[s], j \in DOMAIN bufs[t] :
           bufs[s][i].id = bufs[t][j].id => s = t /\ i = j
    /\ \A s \in Owners : \A i \in DOMAIN bufs[s] :
           LET b == bufs[s][i].id IN
           b <= udpIn /\ freed[b] = 0 /\ b \notin udpRaced
           /\ (udpPc \in {"match", "locked"} => b # udpIn)
Queued(b) == \E s \in Owners : \E i \in DOMAIN bufs[s] : bufs[s][i].id = b
UdpFreed ==
    /\ \A b \in 1..udpIn : freed[b] = 0 => Queued(b) \/ b = udpCur.id
    /\ \A b \in 1..MaxDatagrams : b > udpIn => freed[b] = 0
    /\ udpPc \in {"match", "locked"} => freed[udpIn] = 0 /\ udpIn \notin udpRaced
    /\ udpPc = "drop" => freed[udpIn] = (IF udpIn \in udpRaced THEN 1 ELSE 0)
    /\ \A b \in 1..udpIn : b \notin udpRaced => freed[b] <= 1

UdpWoken ==
    \A s \in Owners :
        /\ sockPc[s] \in {"take", "null"} => bufs[s] # <<>> \/ s \in udpAwaken
        /\ sockPc[s] \in {"sleep", "asleep"} /\ bufs[s] # <<>> => s \in udpMissed
        /\ sockPc[s] = "null" => s \in udpAwaken

(* Whoever has seen the limit of sockets is alone, and sees it again when it adds
   its own.                                                                 *)
UdpLimit ==
    /\ udpAwaken \subseteq Owners /\ sockRaced \in BOOLEAN
    /\ ~sockRaced =>
           /\ Len(stab) <= MAX_SOCKS
           /\ \A s \in Owners : sockPc[s] = "alloc" => Len(stab) < MAX_SOCKS
           /\ \A s, t \in Owners : sockPc[s] = "alloc" /\ sockPc[t] = "alloc" => s = t

UdpInv == UdpShape /\ UdpTable /\ UdpLocked /\ UdpToPort /\ UdpOnce /\ UdpFreed /\ UdpWoken

-----------------------------------------------------------------------------
(* The safety of UDP follows from the invariant.                            *)

LEMMA PortFacts ==
  /\ NoPort \in UdpPorts /\ PortMinus1 # NoPort /\ NoPort \notin AllPorts /\ NoPort \notin BoundPorts
  /\ AllPorts \subseteq Nat /\ PortMinus1 \in Nat
  BY UdpAssumption DEF NoPort, PortMinus1, AllPorts, UdpPorts

LEMMA TableFacts ==
  ASSUME UdpShape
  PROVE  /\ Len(stab) \in Nat /\ DOMAIN stab = 1..Len(stab)
         /\ \A i \in DOMAIN stab : stab[i] \in Owners /\ stab[i] \in Range(stab)
         /\ \A s \in Range(stab) : s \in Owners /\ \E i \in DOMAIN stab : stab[i] = s
         /\ \A i, j \in DOMAIN stab : stab[i] = stab[j] => i = j
<1>1. stab \in Seq(Owners) /\ IsInjective(stab)
  BY DEF UdpShape
<1>2. Len(stab) \in Nat /\ DOMAIN stab = 1..Len(stab) /\ \A i \in 1..Len(stab) : stab[i] \in Owners
  BY <1>1, LenProperties, ElementOfSeq
<1> QED BY <1>1, <1>2 DEF Range, IsInjective

LEMMA QueueFacts ==
  ASSUME UdpShape, NEW s \in Owners
  PROVE  /\ bufs[s] \in Seq(Datagram) /\ Len(bufs[s]) \in Nat /\ DOMAIN bufs[s] = 1..Len(bufs[s])
         /\ \A i \in DOMAIN bufs[s] : bufs[s][i] \in Datagram
         /\ (bufs[s] = <<>>) <=> (Len(bufs[s]) = 0)
         /\ \A d : d \in Range(bufs[s]) <=> \E i \in DOMAIN bufs[s] : bufs[s][i] = d
<1>1. bufs[s] \in Seq(Datagram)
  BY DEF UdpShape
<1>2. /\ Len(bufs[s]) \in Nat /\ DOMAIN bufs[s] = 1..Len(bufs[s])
      /\ \A i \in 1..Len(bufs[s]) : bufs[s][i] \in Datagram
  BY <1>1, LenProperties, ElementOfSeq
<1>3. (bufs[s] = <<>>) <=> (Len(bufs[s]) = 0)
  BY <1>1, EmptySeq
<1> QED BY <1>1, <1>2, <1>3 DEF Range

(* The search of udp_process finds the first of the sockets that match.     *)
LEMMA FirstMatchFound ==
  ASSUME UdpShape, NEW d
  PROVE  \/ FirstMatch(d) = NoOwner /\ \A s \in Range(stab) : ~Matches(s, d)
         \/ FirstMatch(d) \in Range(stab) /\ Matches(FirstMatch(d), d)
<1> DEFINE hits == {i \in DOMAIN stab : Matches(stab[i], d)}
<1>1. CASE hits = {}
  <2>1. FirstMatch(d) = NoOwner
    BY <1>1 DEF FirstMatch
  <2>2. \A s \in Range(stab) : ~Matches(s, d)
    BY <1>1, TableFacts
  <2> QED BY <2>1, <2>2
<1>2. CASE hits # {}
  <2> DEFINE first == CHOOSE i \in hits : \A j \in hits : i <= j
  <2>1. hits \in SUBSET Nat
    BY TableFacts
  <2>2. \E i \in hits : \A j \in hits : i <= j
    <3> HIDE DEF hits
    <3> QED BY <1>2, <2>1, LeastExists
  <2>3. first \in hits
    <3> HIDE DEF hits
    <3> QED BY <2>2
  <2>4. FirstMatch(d) = stab[first]
    BY <1>2 DEF FirstMatch
  <2> HIDE DEF first
  <2> QED BY <2>3, <2>4, TableFacts
<1> QED BY <1>1, <1>2

LEMMA InvUdpSafety == UdpInv /\ UdpLimit => UdpSafety
<1> SUFFICES ASSUME UdpInv, UdpLimit PROVE UdpSafety
  OBVIOUS
<1>1. UdpShape /\ UdpTable /\ UdpLocked /\ UdpToPort /\ UdpOnce /\ UdpFreed /\ UdpWoken
  BY DEF UdpInv
<1>2. UdpTypeOK
  <2>1. Range(stab) \subseteq Owners /\ IsInjective(stab)
    BY <1>1, TableFacts DEF UdpShape
  <2>2. \A s \in Owners : Len(bufs[s]) <= SOCK_MAX_BUFS /\ Range(bufs[s]) \subseteq Datagram
    BY <1>1, QueueFacts DEF UdpShape
  <2> QED BY <1>1, <2>1, <2>2 DEF UdpLimit, UdpShape, UdpTypeOK, UdpPorts, UdpListed, UdpUnlisted
<1>3. UdpReplyReaches
  <2> SUFFICES ASSUME NEW s \in Range(stab), remAddr[s] \in Peers
               PROVE  FirstMatch([id |-> 1, from |-> remAddr[s], to |-> locPort[s]]) = s
    BY DEF UdpReplyReaches
  <2> DEFINE reply == [id |-> 1, from |-> remAddr[s], to |-> locPort[s]]
  <2>1. Matches(s, reply)
    BY DEF Matches
  <2>2. FirstMatch(reply) \in Range(stab) /\ Matches(FirstMatch(reply), reply)
    <3> HIDE DEF reply
    <3> QED BY <1>1, <2>1, FirstMatchFound
  <2>3. locPort[FirstMatch(reply)] = locPort[s]
    BY <2>2 DEF Matches
  <2>4. locPort[s] # NoPort
    BY <1>1, TableFacts DEF UdpTable
  <2> HIDE DEF reply
  <2> QED BY <1>1, <2>2, <2>3, <2>4 DEF UdpTable, reply
<1>4. UdpRightPort
  BY <1>1 DEF UdpRightPort, UdpToPort, Range
<1>5. UdpBuffersOwned
  <2> SUFFICES ASSUME NEW b \in (1..udpIn) \ udpRaced
               PROVE  LET places == {s \in Owners : \E d \in Range(bufs[s]) : d.id = b} IN
                      IF freed[b] > 0 THEN freed[b] = 1 /\ places = {}
                      ELSE Cardinality(places) = (IF b = udpCur.id /\ places = {} THEN 0 ELSE 1)
    BY DEF UdpBuffersOwned
  <2> DEFINE places == {s \in Owners : \E d \in Range(bufs[s]) : d.id = b}
  <2>1. b \in 1..MaxDatagrams /\ freed[b] \in 0..2 /\ freed[b] <= 1
    BY <1>1, UdpAssumption DEF UdpShape, UdpFreed
  <2>2. \A s \in Owners : s \in places <=> \E i \in DOMAIN bufs[s] : bufs[s][i].id = b
    BY DEF Range
  <2>3. CASE freed[b] > 0
    <3>1. places = {}
      BY <1>1, <2>2, <2>3 DEF UdpOnce
    <3> QED BY <2>1, <2>3, <3>1
  <2>4. CASE ~(freed[b] > 0)
    <3>1. freed[b] = 0
      BY <2>1, <2>4
    <3>2. CASE places = {}
      <4>1. b = udpCur.id
        BY <1>1, <2>2, <3>1, <3>2 DEF UdpFreed, Queued
      <4>2. Cardinality({}) = 0
        BY FS_EmptySet
      <4> QED BY <2>4, <3>2, <4>1, <4>2
    <3>3. CASE places # {}
      <4>1. PICK s : s \in places
        BY <3>3
      <4>2. \A t \in places : t = s
        BY <1>1, <2>2, <4>1 DEF UdpOnce
      <4>3. places = {s}
        BY <4>1, <4>2
      <4>4. Cardinality(places) = 1
        <5> HIDE DEF places
        <5> QED BY <4>3, FS_Singleton
      <4> QED BY <2>4, <3>3, <4>4
    <3> QED BY <3>2, <3>3
  <2> QED BY <2>3, <2>4
<1>6. UdpReaderRight
  BY <1>1 DEF UdpReaderRight, UdpWoken
<1>7. UdpSocketsLimited
  BY DEF UdpLimit, UdpSocketsLimited
<1> QED BY <1>2, <1>3, <1>4, <1>5, <1>6, <1>7 DEF UdpSafety

-----------------------------------------------------------------------------
(* The invariant is kept by every step.                                     *)

LEMMA UdpInitInv == UdpInit => UdpInv
<1> SUFFICES ASSUME UdpInit PROVE UdpInv
  OBVIOUS
<1>1. stab = <<>> /\ stab \in Seq(Owners) /\ Len(stab) = 0 /\ DOMAIN stab = {}
  BY EmptySeq DEF UdpInit
<1>2. \A s \in Owners : bufs[s] = <<>> /\ bufs[s] \in Seq(Datagram) /\ Len(bufs[s]) = 0 /\ DOMAIN bufs[s] = {}
  BY EmptySeq DEF UdpInit
<1>3. Range(stab) = {} /\ IsInjective(stab)
  BY <1>1 DEF Range, IsInjective
<1>4. UdpShape
  <2>1. bufs \in [Owners -> Seq(Datagram)]
    BY <1>2 DEF UdpInit
  <2>2. NoPort \in UdpPorts
    BY PortFacts
  <2> QED BY <1>1, <1>2, <1>3, <2>1, <2>2, UdpAssumption DEF UdpInit, UdpShape, UdpUnlisted
<1>5. UdpTable
  BY <1>1, <1>2, <1>3, UdpAssumption DEF UdpInit, UdpTable, UdpListed
<1> QED BY <1>2, <1>4, <1>5, UdpAssumption
    DEF UdpInit, UdpInv, UdpLocked, UdpToPort, UdpOnce, UdpFreed, UdpWoken

(* A task that goes to another place of its calls, and changes nothing else. *)
LEMMA SockGoesInv ==
  ASSUME UdpInv, NEW s \in Owners, NEW to \in UdpListed \cup UdpUnlisted,
         sockPc' = [sockPc EXCEPT ![s] = to],
         sockPc[s] \in UdpListed <=> to \in UdpListed,
         to \in {"none", "alloc"} => sockPc[s] \in {"none", "alloc"},
         to \notin {"connect", "bound", "null"},
         to = "take" => bufs[s] # <<>> \/ s \in udpAwaken',
         udpAwaken \subseteq udpAwaken',
         to \in {"sleep", "asleep"} => bufs[s] = <<>> \/ sockPc[s] \in {"sleep", "asleep"},
         UNCHANGED <<stab, sockFields, bufs, newPort, usedPorts, netTaskVars, freed, udpRaced, udpMissed>>
  PROVE  UdpInv'
<1>1. UdpShape /\ UdpTable /\ UdpLocked /\ UdpToPort /\ UdpOnce /\ UdpFreed /\ UdpWoken
  BY DEF UdpInv
<1>2. /\ stab' = stab /\ locPort' = locPort /\ remAddr' = remAddr /\ bufs' = bufs /\ newPort' = newPort
      /\ usedPorts' = usedPorts /\ udpIn' = udpIn /\ udpCur' = udpCur /\ udpPc' = udpPc
      /\ udpMatch' = udpMatch /\ freed' = freed /\ udpRaced' = udpRaced /\ udpMissed' = udpMissed
  BY DEF sockFields, netTaskVars
<1>3. \A t \in Owners : sockPc'[t] = IF t = s THEN to ELSE sockPc[t]
  BY <1>1 DEF UdpShape
<1>4. UdpShape'
  <2>1. sockPc' \in [Owners -> UdpListed \cup UdpUnlisted]
    BY <1>1 DEF UdpShape
  <2> QED BY <1>1, <1>2, <2>1 DEF UdpShape
<1>5. UdpTable'
  BY <1>1, <1>2, <1>3 DEF UdpTable
<1>6. UdpLocked' /\ UdpToPort' /\ UdpOnce' /\ UdpFreed'
  BY <1>1, <1>2 DEF UdpLocked, UdpToPort, UdpOnce, UdpFreed, Queued
<1>7. UdpWoken'
  BY <1>1, <1>2, <1>3 DEF UdpWoken
<1> QED BY <1>4, <1>5, <1>6, <1>7 DEF UdpInv

LEMMA SockAllocInv == ASSUME UdpInv, NEW s \in Owners, SockAlloc(s) PROVE UdpInv'
  BY SockGoesInv DEF SockAlloc, SockGoes, UdpListed, UdpUnlisted

LEMMA UdpReadTestInv ==
  ASSUME UdpInv, NEW s \in Owners, NEW awaken \in BOOLEAN, UdpReadTest(s, awaken) PROVE UdpInv'
<1>1. CASE bufs[s] = <<>> /\ ~awaken
  BY <1>1, SockGoesInv DEF UdpReadTest, SockGoes, UdpListed, UdpUnlisted
<1>2. CASE bufs[s] # <<>> \/ awaken
  BY <1>2, SockGoesInv DEF UdpReadTest, SockGoes, UdpListed, UdpUnlisted
<1> QED BY <1>1, <1>2

LEMMA UdpReadSleepInv ==
  ASSUME UdpInv, NEW s \in Owners, UdpReadSleep(s) \/ UdpSignalled(s) PROVE UdpInv'
<1>1. CASE UdpReadSleep(s)
  BY <1>1, SockGoesInv DEF UdpReadSleep, SockGoes, udpHistory, UdpListed, UdpUnlisted
<1>2. CASE UdpSignalled(s)
  BY <1>2, SockGoesInv DEF UdpSignalled, SockGoes, UdpListed, UdpUnlisted
<1> QED BY <1>1, <1>2

LEMMA SockKilledInv == ASSUME UdpInv, NEW s \in Owners, SockKilled(s) PROVE UdpInv'
<1>1. /\ sockPc[s] \in UdpListed /\ sockPc' = [sockPc EXCEPT ![s] = "killed"]
      /\ UNCHANGED <<stab, sockFields, bufs, newPort, usedPorts, netTaskVars, freed, udpHistory>>
  BY DEF SockKilled, SockGoes, UdpListed
<1> QED BY <1>1, SockGoesInv DEF udpHistory, UdpListed, UdpUnlisted

LEMMA SockFreeAssertInv == ASSUME UdpInv, NEW s \in Owners, SockFreeAssert(s) PROVE UdpInv'
<1>1. CASE udpMatch = s
  BY <1>1, SockGoesInv DEF SockFreeAssert, SockGoes, udpHistory, UdpListed, UdpUnlisted
<1>2. CASE udpMatch # s
  BY <1>2, SockGoesInv DEF SockFreeAssert, SockGoes, udpHistory, UdpListed, UdpUnlisted
<1> QED BY <1>1, <1>2

(* A socket enters the table, at its end.                                   *)
LEMMA SockAddInv == ASSUME UdpInv, NEW s \in Owners, SockAdd(s) PROVE UdpInv'
<1>1. UdpShape /\ UdpTable /\ UdpLocked /\ UdpToPort /\ UdpOnce /\ UdpFreed /\ UdpWoken
  BY DEF UdpInv
<1>2. /\ stab' = Append(stab, s) /\ sockPc[s] = "alloc" /\ sockPc' = [sockPc EXCEPT ![s] = "open"]
      /\ locPort' = locPort /\ remAddr' = remAddr /\ bufs' = bufs /\ newPort' = newPort
      /\ usedPorts' = usedPorts /\ udpIn' = udpIn /\ udpCur' = udpCur /\ udpPc' = udpPc
      /\ udpMatch' = udpMatch /\ freed' = freed /\ udpRaced' = udpRaced /\ udpMissed' = udpMissed
      /\ udpAwaken' = udpAwaken
  BY DEF SockAdd, SockGoes, sockFields, netTaskVars, udpHistory
<1>3. \A t \in Owners : sockPc'[t] = IF t = s THEN "open" ELSE sockPc[t]
  BY <1>1, <1>2 DEF UdpShape
<1>4. s \notin Range(stab)
  BY <1>1, <1>2 DEF UdpTable, UdpListed
<1>5. stab \in Seq(Owners)
  BY <1>1 DEF UdpShape
<1>6. /\ stab' \in Seq(Owners) /\ DOMAIN stab' = 1..(Len(stab) + 1)
      /\ \A i \in 1..Len(stab) : stab'[i] = stab[i]
      /\ stab'[Len(stab) + 1] = s
  BY <1>2, <1>5, AppendProperties, LenProperties
<1>7. \A i, j \in DOMAIN stab' : stab'[i] = stab'[j] => i = j
  BY <1>1, <1>4, <1>6, TableFacts
<1>8. Range(stab') = Range(stab) \cup {s}
  <2>1. \A t : t \in Range(stab') <=> \E i \in DOMAIN stab' : stab'[i] = t
    BY DEF Range
  <2>2. \A t : t \in Range(stab) <=> \E i \in DOMAIN stab : stab[i] = t
    BY DEF Range
  <2>3. \A i \in DOMAIN stab' : i \in DOMAIN stab \/ i = Len(stab) + 1
    BY <1>1, <1>6, TableFacts
  <2>4. Len(stab) + 1 \in DOMAIN stab' /\ DOMAIN stab \subseteq DOMAIN stab' /\ DOMAIN stab = 1..Len(stab)
    BY <1>1, <1>6, TableFacts
  <2>5. ASSUME NEW t \in Range(stab') PROVE t \in Range(stab) \cup {s}
    BY <1>6, <2>1, <2>2, <2>3, <2>4
  <2>6. ASSUME NEW t \in Range(stab) PROVE t \in Range(stab')
    BY <1>6, <2>1, <2>2, <2>4
  <2>7. s \in Range(stab')
    BY <1>6, <2>1, <2>4
  <2> QED BY <2>5, <2>6, <2>7
<1>9. UdpShape'
  <2>1. sockPc' \in [Owners -> UdpListed \cup UdpUnlisted]
    BY <1>1, <1>2 DEF UdpShape, UdpListed
  <2>2. stab' \in Seq(Owners) /\ IsInjective(stab')
    BY <1>6, <1>7 DEF IsInjective
  <2> QED BY <1>1, <1>2, <2>1, <2>2 DEF UdpShape
<1>10. UdpTable'
  <2>1. locPort[s] = NoPort /\ bufs[s] = <<>>
    BY <1>1, <1>2 DEF UdpTable
  <2> QED BY <1>1, <1>2, <1>3, <1>8, <2>1 DEF UdpTable, UdpListed
<1>11. UdpLocked' /\ UdpToPort' /\ UdpOnce' /\ UdpFreed'
  BY <1>1, <1>2, <1>8 DEF UdpLocked, UdpToPort, UdpOnce, UdpFreed, Queued
<1>12. UdpWoken'
  BY <1>1, <1>2, <1>3 DEF UdpWoken
<1> QED BY <1>9, <1>10, <1>11, <1>12 DEF UdpInv

(* A socket gets a local port that no socket of the table has.              *)
LEMMA SetPortInv ==
  ASSUME UdpInv, NEW s \in Owners, NEW port \in UdpPorts, NEW to \in {"open", "bound"},
         s \in Range(stab), StabFree, locPort[s] = NoPort, port # NoPort, ~AddressInUse(port),
         locPort' = [locPort EXCEPT ![s] = port],
         sockPc' = [sockPc EXCEPT ![s] = to],
         newPort' \in [Owners -> {NoPort, PortMinus1} \cup AllPorts],
         \A t \in Owners \ {s} : newPort'[t] = newPort[t],
         UNCHANGED <<stab, remAddr, bufs, usedPorts, netTaskVars, freed, udpRaced, udpMissed, udpAwaken>>
  PROVE  UdpInv'
<1>1. UdpShape /\ UdpTable /\ UdpLocked /\ UdpToPort /\ UdpOnce /\ UdpFreed /\ UdpWoken
  BY DEF UdpInv
<1>2. /\ stab' = stab /\ remAddr' = remAddr /\ bufs' = bufs
      /\ usedPorts' = usedPorts /\ udpIn' = udpIn /\ udpCur' = udpCur /\ udpPc' = udpPc
      /\ udpMatch' = udpMatch /\ freed' = freed /\ udpRaced' = udpRaced /\ udpMissed' = udpMissed
      /\ udpAwaken' = udpAwaken
  BY DEF netTaskVars
<1>3. \A t \in Owners : /\ sockPc'[t] = IF t = s THEN to ELSE sockPc[t]
                        /\ locPort'[t] = IF t = s THEN port ELSE locPort[t]
  BY <1>1 DEF UdpShape
<1>4. UdpShape'
  <2>1. sockPc' \in [Owners -> UdpListed \cup UdpUnlisted]
    BY <1>1 DEF UdpShape, UdpListed
  <2>2. locPort' \in [Owners -> UdpPorts]
    BY <1>1 DEF UdpShape
  <2> QED BY <1>1, <1>2, <2>1, <2>2 DEF UdpShape
<1>5. UdpTable'
  <2>1. \A t \in Owners : sockPc'[t] \in UdpListed <=> t \in Range(stab')
    BY <1>1, <1>2, <1>3 DEF UdpTable, UdpListed
  <2>2. \A t \in Owners : sockPc'[t] \in {"none", "alloc"} => locPort'[t] = NoPort /\ bufs'[t] = <<>>
    BY <1>1, <1>2, <1>3 DEF UdpTable
  <2>3. \A t \in Owners : sockPc'[t] = "connect" => locPort'[t] = NoPort /\ newPort'[t] # NoPort
    BY <1>1, <1>2, <1>3 DEF UdpTable
  <2>4. \A t \in Owners : remAddr'[t] \in Peers => locPort'[t] # NoPort
    BY <1>1, <1>2, <1>3 DEF UdpTable
  <2>5. \A t \in Owners : sockPc'[t] = "bound" => locPort'[t] # NoPort
    BY <1>1, <1>2, <1>3 DEF UdpTable
  <2>6. \A t \in Range(stab) : locPort[t] # port
    BY DEF AddressInUse
  <2>7. Range(stab) \subseteq Owners
    BY <1>1, TableFacts
  <2>8. \A t, u \in Range(stab') : locPort'[t] = locPort'[u] /\ locPort'[t] # NoPort => t = u
    BY <1>1, <1>2, <1>3, <2>6, <2>7 DEF UdpTable
  <2> QED BY <2>1, <2>2, <2>3, <2>4, <2>8, <2>5 DEF UdpTable
<1>6. UdpLocked'
  BY <1>1, <1>2 DEF UdpLocked, StabFree
<1>7. UdpToPort'
  <2>1. \A i \in DOMAIN bufs[s] : bufs[s][i].to # NoPort
    BY <1>1, QueueFacts, PortFacts DEF Datagram
  <2>2. DOMAIN bufs[s] = {}
    BY <1>1, <2>1 DEF UdpToPort
  <2> QED BY <1>1, <1>2, <1>3, <2>2 DEF UdpToPort
<1>8. UdpOnce' /\ UdpFreed'
  BY <1>1, <1>2 DEF UdpOnce, UdpFreed, Queued
<1>9. UdpWoken'
  BY <1>1, <1>2, <1>3 DEF UdpWoken
<1> QED BY <1>4, <1>5, <1>6, <1>7, <1>8, <1>9 DEF UdpInv

LEMMA SockBindInv ==
  ASSUME UdpInv, NEW s \in Owners, NEW port \in BoundPorts, SockBind(s, port) PROVE UdpInv'
<1>1. UdpShape /\ UdpTable
  BY DEF UdpInv
<1>2. s \in Range(stab)
  BY <1>1 DEF SockBind, UdpTable, UdpListed
<1>3. port \in UdpPorts /\ port # NoPort
  BY PortFacts DEF UdpPorts
<1>4. sockPc' = [sockPc EXCEPT ![s] = "open"]
  BY <1>1 DEF SockBind, UdpShape
<1>5. newPort' \in [Owners -> {NoPort, PortMinus1} \cup AllPorts]
  BY <1>1 DEF SockBind, UdpShape
<1>6. \A t \in Owners \ {s} : newPort'[t] = newPort[t]
  BY DEF SockBind
<1> QED BY <1>2, <1>3, <1>4, <1>5, <1>6, SetPortInv DEF SockBind, udpHistory

(* port_alloc finds the least port left, or there is none.                  *)
LEMMA PortAllocFound == ASSUME UdpShape PROVE PortAlloc \in {PortMinus1} \cup AllPorts
<1>1. CASE usedPorts = AllPorts
  BY <1>1 DEF PortAlloc
<1>2. CASE usedPorts # AllPorts
  <2> DEFINE left == AllPorts \ usedPorts
  <2>1. left # {} /\ left \in SUBSET Nat
    BY <1>2, PortFacts DEF UdpShape
  <2>2. \E p \in left : \A q \in left : p <= q
    <3> HIDE DEF left
    <3> QED BY <2>1, LeastExists
  <2>3. PortAlloc \in left
    BY <1>2, <2>2 DEF PortAlloc
  <2> QED BY <2>3
<1> QED BY <1>1, <1>2

LEMMA UdpConnectPortInv == ASSUME UdpInv, NEW s \in Owners, UdpConnectPort(s) PROVE UdpInv'
<1>1. UdpShape /\ UdpTable /\ UdpLocked /\ UdpToPort /\ UdpOnce /\ UdpFreed /\ UdpWoken
  BY DEF UdpInv
<1>2. /\ sockPc[s] = "open" /\ sockPc' = [sockPc EXCEPT ![s] = "connect"] /\ locPort[s] = NoPort
      /\ newPort' = [newPort EXCEPT ![s] = PortAlloc]
      /\ usedPorts' = usedPorts \cup ({PortAlloc} \cap AllPorts)
      /\ stab' = stab /\ locPort' = locPort /\ remAddr' = remAddr /\ bufs' = bufs
      /\ udpIn' = udpIn /\ udpCur' = udpCur /\ udpPc' = udpPc
      /\ udpMatch' = udpMatch /\ freed' = freed /\ udpRaced' = udpRaced /\ udpMissed' = udpMissed
      /\ udpAwaken' = udpAwaken
  BY DEF UdpConnectPort, SockGoes, sockFields, netTaskVars, udpHistory
<1>3. PortAlloc \in {PortMinus1} \cup AllPorts /\ PortAlloc # NoPort
  BY <1>1, PortAllocFound, PortFacts
<1> DEFINE port == PortAlloc
<1> HIDE DEF port
<1>4. \A t \in Owners : /\ sockPc'[t] = IF t = s THEN "connect" ELSE sockPc[t]
                        /\ newPort'[t] = IF t = s THEN port ELSE newPort[t]
  BY <1>1, <1>2 DEF UdpShape, port
<1>5. UdpShape'
  <2>1. sockPc' \in [Owners -> UdpListed \cup UdpUnlisted]
    BY <1>1, <1>2 DEF UdpShape, UdpListed
  <2>2. newPort' \in [Owners -> {NoPort, PortMinus1} \cup AllPorts] /\ usedPorts' \subseteq AllPorts
    BY <1>1, <1>2, <1>3 DEF UdpShape
  <2> QED BY <1>1, <1>2, <2>1, <2>2 DEF UdpShape
<1>6. UdpTable'
  <2>1. port # NoPort
    BY <1>3 DEF port
  <2> QED BY <1>1, <1>2, <1>4, <2>1 DEF UdpTable, UdpListed
<1>7. UdpLocked' /\ UdpToPort' /\ UdpOnce' /\ UdpFreed'
  BY <1>1, <1>2 DEF UdpLocked, UdpToPort, UdpOnce, UdpFreed, Queued
<1>8. UdpWoken'
  BY <1>1, <1>2, <1>4 DEF UdpWoken
<1> QED BY <1>5, <1>6, <1>7, <1>8 DEF UdpInv

LEMMA UdpSetLocalInv == ASSUME UdpInv, NEW s \in Owners, UdpSetLocal(s) PROVE UdpInv'
<1>1. UdpShape /\ UdpTable /\ UdpLocked /\ UdpToPort /\ UdpOnce /\ UdpFreed /\ UdpWoken
  BY DEF UdpInv
<1>2. /\ sockPc[s] = "connect" /\ StabFree /\ newPort' = [newPort EXCEPT ![s] = NoPort]
      /\ stab' = stab /\ remAddr' = remAddr /\ bufs' = bufs /\ usedPorts' = usedPorts
      /\ udpIn' = udpIn /\ udpCur' = udpCur /\ udpPc' = udpPc
      /\ udpMatch' = udpMatch /\ freed' = freed /\ udpRaced' = udpRaced /\ udpMissed' = udpMissed
      /\ udpAwaken' = udpAwaken
  BY DEF UdpSetLocal, sockFields, netTaskVars, udpHistory
<1>3. s \in Range(stab) /\ locPort[s] = NoPort /\ newPort[s] # NoPort /\ newPort[s] \in UdpPorts
  BY <1>1, <1>2 DEF UdpTable, UdpListed, UdpShape, UdpPorts
<1>4. newPort' \in [Owners -> {NoPort, PortMinus1} \cup AllPorts]
  BY <1>1, <1>2 DEF UdpShape
<1>5. \A t \in Owners \ {s} : newPort'[t] = newPort[t]
  BY <1>1, <1>2 DEF UdpShape
<1>6. CASE AddressInUse(newPort[s])
  <2>1. locPort' = locPort /\ sockPc' = [sockPc EXCEPT ![s] = "open"]
    BY <1>6 DEF UdpSetLocal, SockGoes
  <2>2. \A t \in Owners : sockPc'[t] = IF t = s THEN "open" ELSE sockPc[t]
    BY <1>1, <2>1 DEF UdpShape
  <2>3. UdpShape'
    <3>1. sockPc' \in [Owners -> UdpListed \cup UdpUnlisted]
      BY <1>1, <2>1 DEF UdpShape, UdpListed
    <3> QED BY <1>1, <1>2, <1>4, <2>1, <3>1 DEF UdpShape
  <2>4. UdpTable'
    BY <1>1, <1>2, <1>3, <1>5, <2>1, <2>2 DEF UdpTable, UdpListed
  <2>5. UdpLocked' /\ UdpToPort' /\ UdpOnce' /\ UdpFreed'
    BY <1>1, <1>2, <2>1 DEF UdpLocked, UdpToPort, UdpOnce, UdpFreed, Queued
  <2>6. UdpWoken'
    BY <1>1, <1>2, <2>2 DEF UdpWoken
  <2> QED BY <2>3, <2>4, <2>5, <2>6 DEF UdpInv
<1>7. CASE ~AddressInUse(newPort[s])
  <2>1. locPort' = [locPort EXCEPT ![s] = newPort[s]] /\ sockPc' = [sockPc EXCEPT ![s] = "bound"]
    BY <1>7 DEF UdpSetLocal, SockGoes
  <2> QED BY <1>2, <1>3, <1>4, <1>5, <1>7, <2>1, SetPortInv DEF netTaskVars, udpHistory
<1> QED BY <1>6, <1>7

LEMMA UdpSetRemoteInv ==
  ASSUME UdpInv, NEW s \in Owners, NEW peer \in Peers \cup {Broadcast}, NEW route \in BOOLEAN,
         UdpSetRemote(s, peer, route)
  PROVE  UdpInv'
<1>1. UdpShape /\ UdpTable /\ UdpLocked /\ UdpToPort /\ UdpOnce /\ UdpFreed /\ UdpWoken
  BY DEF UdpInv
<1>2. /\ sockPc[s] \in {"open", "bound"} /\ sockPc' = [sockPc EXCEPT ![s] = "open"] /\ locPort[s] # NoPort
      /\ remAddr' = [remAddr EXCEPT ![s] = IF route THEN peer ELSE @]
      /\ stab' = stab /\ locPort' = locPort /\ bufs' = bufs /\ newPort' = newPort /\ usedPorts' = usedPorts
      /\ udpIn' = udpIn /\ udpCur' = udpCur /\ udpPc' = udpPc
      /\ udpMatch' = udpMatch /\ freed' = freed /\ udpRaced' = udpRaced /\ udpMissed' = udpMissed
      /\ udpAwaken' = udpAwaken
  BY <1>1 DEF UdpSetRemote, SockGoes, netTaskVars, udpHistory, UdpTable
<1>3. \A t \in Owners : /\ sockPc'[t] = IF t = s THEN "open" ELSE sockPc[t]
                        /\ t # s => remAddr'[t] = remAddr[t]
  BY <1>1, <1>2 DEF UdpShape
<1>4. UdpShape'
  <2>1. sockPc' \in [Owners -> UdpListed \cup UdpUnlisted]
    BY <1>1, <1>2 DEF UdpShape, UdpListed
  <2>2. remAddr' \in [Owners -> Peers \cup {AnyPeer, Broadcast}]
    BY <1>1, <1>2 DEF UdpShape
  <2> QED BY <1>1, <1>2, <2>1, <2>2 DEF UdpShape
<1>5. UdpTable'
  BY <1>1, <1>2, <1>3 DEF UdpTable, UdpListed
<1>6. UdpLocked' /\ UdpToPort' /\ UdpOnce' /\ UdpFreed'
  BY <1>1, <1>2 DEF UdpLocked, UdpToPort, UdpOnce, UdpFreed, Queued
<1>7. UdpWoken'
  BY <1>1, <1>2, <1>3 DEF UdpWoken
<1> QED BY <1>4, <1>5, <1>6, <1>7 DEF UdpInv

(* A reader that a signal has woken takes from an empty queue.              *)
LEMMA UdpReadNullInv ==
  ASSUME UdpInv, NEW s \in Owners, UdpReadTake(s), bufs[s] = <<>> PROVE UdpInv'
<1>1. UdpShape /\ UdpTable /\ UdpLocked /\ UdpToPort /\ UdpOnce /\ UdpFreed /\ UdpWoken
  BY DEF UdpInv
<1>2. /\ sockPc[s] = "take" /\ sockPc' = [sockPc EXCEPT ![s] = "null"] /\ udpMissed' = udpMissed \ {s}
      /\ stab' = stab /\ locPort' = locPort /\ remAddr' = remAddr /\ bufs' = bufs /\ newPort' = newPort
      /\ usedPorts' = usedPorts /\ udpIn' = udpIn /\ udpCur' = udpCur /\ udpPc' = udpPc
      /\ udpMatch' = udpMatch /\ freed' = freed /\ udpRaced' = udpRaced /\ udpAwaken' = udpAwaken
  BY DEF UdpReadTake, SockGoes, sockFields, netTaskVars
<1>3. \A t \in Owners : sockPc'[t] = IF t = s THEN "null" ELSE sockPc[t]
  BY <1>1, <1>2 DEF UdpShape
<1>4. UdpShape'
  <2>1. sockPc' \in [Owners -> UdpListed \cup UdpUnlisted]
    BY <1>1, <1>2 DEF UdpShape, UdpListed
  <2> QED BY <1>1, <1>2, <2>1 DEF UdpShape
<1>5. UdpTable'
  BY <1>1, <1>2, <1>3 DEF UdpTable, UdpListed
<1>6. UdpLocked' /\ UdpToPort' /\ UdpOnce' /\ UdpFreed'
  BY <1>1, <1>2 DEF UdpLocked, UdpToPort, UdpOnce, UdpFreed, Queued
<1>7. UdpWoken'
  BY <1>1, <1>2, <1>3 DEF UdpWoken
<1> QED BY <1>4, <1>5, <1>6, <1>7 DEF UdpInv

(* A datagram leaves its queue and its buffer is freed.                     *)
LEMMA UdpReadTakeInv ==
  ASSUME UdpInv, NEW s \in Owners, UdpReadTake(s), bufs[s] # <<>> PROVE UdpInv'
<1> DEFINE d == bufs[s][1]
<1>1. UdpShape /\ UdpTable /\ UdpLocked /\ UdpToPort /\ UdpOnce /\ UdpFreed /\ UdpWoken
  BY DEF UdpInv
<1>2. sockPc[s] = "take" /\ bufs[s] # <<>>
  BY <1>1 DEF UdpReadTake, SockGoes, UdpWoken
<1>3. d \in Datagram /\ Head(bufs[s]) = d /\ 1 \in DOMAIN bufs[s]
  BY <1>1, <1>2, QueueFacts
<1>4. /\ Tail(bufs[s]) \in Seq(Datagram) /\ Len(Tail(bufs[s])) = Len(bufs[s]) - 1
      /\ DOMAIN Tail(bufs[s]) = 1..(Len(bufs[s]) - 1)
      /\ \A i \in 1..(Len(bufs[s]) - 1) : Tail(bufs[s])[i] = bufs[s][i + 1]
      /\ DOMAIN bufs[s] = 1..Len(bufs[s]) /\ Len(bufs[s]) \in Nat
  BY <1>1, <1>2, QueueFacts, HeadTailProperties
<1> DEFINE id == d.id
           rest == Tail(bufs[s])
<1>5. id \in 1..MaxDatagrams /\ id <= udpIn /\ freed[id] = 0 /\ id \notin udpRaced
      /\ (udpPc \in {"match", "locked"} => id # udpIn)
  BY <1>1, <1>3 DEF UdpOnce, Datagram
<1>6. /\ sockPc' = [sockPc EXCEPT ![s] = "open"] /\ bufs' = [bufs EXCEPT ![s] = rest]
      /\ freed' = [freed EXCEPT ![id] = @ + 1]
      /\ udpRaced' = (IF udpCur.id = id THEN udpRaced \cup {id} ELSE udpRaced)
      /\ udpMissed' = udpMissed \ {s} /\ udpAwaken' = udpAwaken \ {s}
      /\ stab' = stab /\ locPort' = locPort /\ remAddr' = remAddr /\ newPort' = newPort
      /\ usedPorts' = usedPorts /\ udpIn' = udpIn /\ udpCur' = udpCur /\ udpPc' = udpPc
      /\ udpMatch' = udpMatch
  BY <1>2, <1>3 DEF UdpReadTake, SockGoes, sockFields, netTaskVars
<1> HIDE DEF id, rest
<1>7. \A t \in Owners : /\ sockPc'[t] = IF t = s THEN "open" ELSE sockPc[t]
                        /\ bufs'[t] = IF t = s THEN rest ELSE bufs[t]
  BY <1>1, <1>6 DEF UdpShape
<1>8. \A b \in 1..MaxDatagrams : freed'[b] = IF b = id THEN 1 ELSE freed[b]
  BY <1>1, <1>5, <1>6 DEF UdpShape
<1>9. \A i \in DOMAIN rest : i + 1 \in DOMAIN bufs[s] /\ rest[i] = bufs[s][i + 1] /\ i \in Nat /\ i > 0
  BY <1>4 DEF rest
<1>10. UdpShape'
  <2>1. sockPc' \in [Owners -> UdpListed \cup UdpUnlisted]
    BY <1>1, <1>6 DEF UdpShape, UdpListed
  <2>2. bufs' \in [Owners -> Seq(Datagram)]
    BY <1>1, <1>4, <1>6 DEF UdpShape, rest
  <2>3. \A t \in Owners : Len(bufs'[t]) <= SOCK_MAX_BUFS
    <3>1. Len(rest) <= SOCK_MAX_BUFS
      BY <1>1, <1>4, UdpAssumption DEF UdpShape, rest
    <3> QED BY <1>1, <1>7, <3>1 DEF UdpShape
  <2>4. freed' \in [1..MaxDatagrams -> 0..2]
    BY <1>1, <1>5, <1>6 DEF UdpShape
  <2>5. udpRaced' \subseteq 1..udpIn'
    BY <1>1, <1>5, <1>6 DEF UdpShape
  <2> QED BY <1>1, <1>6, <2>1, <2>2, <2>3, <2>4, <2>5 DEF UdpShape
<1>11. UdpTable'
  BY <1>1, <1>2, <1>6, <1>7 DEF UdpTable, UdpListed
<1>12. UdpLocked'
  BY <1>1, <1>6 DEF UdpLocked
<1>13. UdpToPort'
  BY <1>1, <1>6, <1>7, <1>9 DEF UdpToPort
<1>14. \A t \in Owners : \A i \in DOMAIN bufs'[t] :
           \E j \in DOMAIN bufs[t] : bufs'[t][i] = bufs[t][j] /\ bufs[t][j].id # id
                                     /\ (j = IF t = s THEN i + 1 ELSE i)
  <2> SUFFICES ASSUME NEW t \in Owners, NEW i \in DOMAIN bufs'[t]
               PROVE  \E j \in DOMAIN bufs[t] : bufs'[t][i] = bufs[t][j] /\ bufs[t][j].id # id
                                     /\ (j = IF t = s THEN i + 1 ELSE i)
    OBVIOUS
  <2>1. \A u \in Owners : \A j \in DOMAIN bufs[u] : bufs[u][j].id = id => u = s /\ j = 1
    BY <1>1, <1>3 DEF UdpOnce, id
  <2>2. CASE t = s
    BY <1>7, <1>9, <2>1, <2>2
  <2>3. CASE t # s
    BY <1>7, <2>1, <2>3
  <2> QED BY <2>2, <2>3
<1>15. UdpOnce'
  <2>1. ASSUME NEW t \in Owners, NEW u \in Owners, NEW i \in DOMAIN bufs'[t], NEW j \in DOMAIN bufs'[u],
               bufs'[t][i].id = bufs'[u][j].id
        PROVE  t = u /\ i = j
    <3>1. i \in Int /\ j \in Int
      BY <1>1, <1>7, <1>9, QueueFacts
    <3>2. PICK k \in DOMAIN bufs[t] : bufs'[t][i] = bufs[t][k] /\ (k = IF t = s THEN i + 1 ELSE i)
      BY <1>14
    <3>3. PICK m \in DOMAIN bufs[u] : bufs'[u][j] = bufs[u][m] /\ (m = IF u = s THEN j + 1 ELSE j)
      BY <1>14
    <3>4. t = u /\ k = m
      BY <1>1, <2>1, <3>2, <3>3 DEF UdpOnce
    <3> QED BY <3>1, <3>2, <3>3, <3>4
  <2>2. ASSUME NEW t \in Owners, NEW i \in DOMAIN bufs'[t]
        PROVE  LET b == bufs'[t][i].id IN
               b <= udpIn' /\ freed'[b] = 0 /\ b \notin udpRaced'
               /\ (udpPc' \in {"match", "locked"} => b # udpIn')
    <3>1. PICK k \in DOMAIN bufs[t] : bufs'[t][i] = bufs[t][k] /\ bufs[t][k].id # id
      BY <1>14
    <3>2. bufs[t][k].id \in 1..MaxDatagrams
      BY <1>1, QueueFacts DEF Datagram
    <3> QED BY <1>1, <1>6, <1>8, <3>1, <3>2 DEF UdpOnce
  <2> QED BY <2>1, <2>2 DEF UdpOnce
<1>16. UdpFreed'
  <2>1. ASSUME NEW b \in 1..udpIn, b # id, Queued(b)
        PROVE  Queued(b)'
    <3>4. PICK t \in Owners : \E j \in DOMAIN bufs[t] : bufs[t][j].id = b
      BY <2>1 DEF Queued
    <3>1. PICK j \in DOMAIN bufs[t] : bufs[t][j].id = b
      BY <3>4
    <3>2. CASE t = s
      <4>1. j # 1 /\ j \in 1..Len(bufs[s])
        BY <1>4, <2>1, <3>1, <3>2 DEF id
      <4>2. j - 1 \in DOMAIN rest /\ rest[j - 1] = bufs[s][j]
        BY <1>4, <4>1 DEF rest
      <4> QED BY <1>7, <3>1, <3>2, <4>2 DEF Queued
    <3>3. CASE t # s
      BY <1>7, <3>1, <3>3 DEF Queued
    <3> QED BY <3>2, <3>3
  <2>2. udpIn \in Nat /\ 1..udpIn \subseteq 1..MaxDatagrams
    BY <1>1, UdpAssumption DEF UdpShape
  <2>3. \A b \in 1..udpIn' : freed'[b] = 0 => (Queued(b)' \/ b = udpCur'.id)
    BY <1>1, <1>6, <1>8, <2>1, <2>2 DEF UdpFreed
  <2>4. \A b \in 1..MaxDatagrams : b > udpIn' => freed'[b] = 0
    BY <1>1, <1>5, <1>6, <1>8, <2>2 DEF UdpFreed
  <2>5. udpPc \in {"match", "locked", "drop"} => udpIn \in 1..MaxDatagrams /\ udpCur.id = udpIn
    BY <1>1 DEF UdpShape, Datagram
  <2>6. udpPc' \in {"match", "locked"} => freed'[udpIn'] = 0 /\ udpIn' \notin udpRaced'
    BY <1>1, <1>5, <1>6, <1>8, <2>5 DEF UdpFreed
  <2>7. udpPc' = "drop" => freed'[udpIn'] = (IF udpIn' \in udpRaced' THEN 1 ELSE 0)
    BY <1>1, <1>5, <1>6, <1>8, <2>5 DEF UdpFreed
  <2>8. \A b \in 1..udpIn' : b \notin udpRaced' => freed'[b] <= 1
    BY <1>1, <1>6, <1>8, <2>2 DEF UdpFreed
  <2> QED BY <2>3, <2>4, <2>6, <2>7, <2>8 DEF UdpFreed
<1>17. UdpWoken'
  BY <1>1, <1>6, <1>7 DEF UdpWoken
<1> QED BY <1>10, <1>11, <1>12, <1>13, <1>15, <1>16, <1>17 DEF UdpInv

(* What RemoveAt does to a sequence without repetitions.                    *)
LEMMA RemoveAtFacts ==
  ASSUME UdpShape, NEW k \in DOMAIN stab
  PROVE  /\ RemoveAt(stab, k) \in Seq(Owners)
         /\ IsInjective(RemoveAt(stab, k))
         /\ Range(RemoveAt(stab, k)) = Range(stab) \ {stab[k]}
<1> DEFINE rest == RemoveAt(stab, k)
           n == Len(stab)
           front == SubSeq(stab, 1, k - 1)
           back == SubSeq(stab, k + 1, n)
<1>1. stab \in Seq(Owners) /\ n \in Nat /\ k \in 1..n /\ DOMAIN stab = 1..n
  BY TableFacts DEF UdpShape
<1>2. /\ front \in Seq(Owners) /\ Len(front) = k - 1
      /\ \A i \in 1..(k - 1) : front[i] = stab[i]
  BY <1>1, SubSeqProperties
<1>3. /\ back \in Seq(Owners) /\ Len(back) = n - k
      /\ \A i \in 1..(n - k) : back[i] = stab[k + i]
  BY <1>1, SubSeqProperties
<1>4. rest = front \o back
  BY DEF RemoveAt
<1> HIDE DEF rest, n, front, back
<1>5. /\ rest \in Seq(Owners) /\ Len(rest) = n - 1
      /\ \A i \in 1..(n - 1) : rest[i] = IF i < k THEN stab[i] ELSE stab[i + 1]
  <2>1. rest \in Seq(Owners) /\ Len(rest) = (k - 1) + (n - k)
        /\ \A i \in 1..((k - 1) + (n - k)) :
              rest[i] = IF i <= k - 1 THEN front[i] ELSE back[i - (k - 1)]
    <3>1. /\ front \o back \in Seq(Owners) /\ Len(front \o back) = Len(front) + Len(back)
          /\ \A i \in 1..(Len(front) + Len(back)) :
                (front \o back)[i] = IF i <= Len(front) THEN front[i] ELSE back[i - Len(front)]
      BY <1>2, <1>3, ConcatProperties
    <3> QED BY <1>2, <1>3, <1>4, <3>1
  <2>2. (k - 1) + (n - k) = n - 1
    BY <1>1
  <2>3. ASSUME NEW i \in 1..(n - 1) PROVE rest[i] = IF i < k THEN stab[i] ELSE stab[i + 1]
    <3>1. CASE i < k
      BY <1>1, <1>2, <2>1, <2>2, <3>1
    <3>2. CASE ~(i < k)
      <4>1. i - (k - 1) \in 1..(n - k) /\ k + (i - (k - 1)) = i + 1
        BY <1>1, <3>2
      <4>2. i \in 1..((k - 1) + (n - k)) /\ ~(i <= k - 1)
        BY <1>1, <2>2, <3>2
      <4>3. rest[i] = back[i - (k - 1)]
        BY <2>1, <4>2
      <4>4. back[i - (k - 1)] = stab[k + (i - (k - 1))]
        BY <1>3, <4>1
      <4>5. rest[i] = stab[i + 1]
        BY <4>1, <4>3, <4>4
      <4> QED BY <3>2, <4>5
    <3> QED BY <3>1, <3>2
  <2> QED BY <2>1, <2>2, <2>3
<1>6. DOMAIN rest = 1..(n - 1)
  BY <1>5, LenProperties
<1>7. \A i \in 1..(n - 1) : i \in 1..n /\ i + 1 \in 1..n
  BY <1>1
<1>8. IsInjective(rest)
  <2>1. ASSUME NEW i \in 1..(n - 1), NEW j \in 1..(n - 1), rest[i] = rest[j] PROVE i = j
    <3> DEFINE a == IF i < k THEN i ELSE i + 1
               b == IF j < k THEN j ELSE j + 1
    <3>1. a \in DOMAIN stab /\ b \in DOMAIN stab
      BY <1>1, <1>7
    <3>2. rest[i] = stab[a] /\ rest[j] = stab[b]
      BY <1>5
    <3>3. a = b
      <4> HIDE DEF a, b
      <4> QED BY <2>1, <3>1, <3>2, TableFacts
    <3> QED BY <1>1, <3>3
  <2> QED BY <1>6, <2>1 DEF IsInjective
<1>9. Range(rest) = Range(stab) \ {stab[k]}
  <2>1. \A t : t \in Range(rest) <=> \E i \in DOMAIN rest : rest[i] = t
    BY DEF Range
  <2>2. \A t : t \in Range(stab) <=> \E i \in DOMAIN stab : stab[i] = t
    BY DEF Range
  <2>3. ASSUME NEW t \in Range(rest) PROVE t \in Range(stab) \ {stab[k]}
    <3>1. PICK i \in 1..(n - 1) : rest[i] = t
      BY <1>6, <2>1
    <3>2. t = IF i < k THEN stab[i] ELSE stab[i + 1]
      BY <1>5, <3>1
    <3> QED BY <1>1, <1>7, <2>2, <3>2, TableFacts
  <2>4. ASSUME NEW t \in Range(stab), t # stab[k] PROVE t \in Range(rest)
    <3>1. PICK j \in 1..n : stab[j] = t
      BY <1>1, <2>2
    <3>2. CASE j < k
      BY <1>1, <1>5, <1>6, <2>1, <3>1, <3>2
    <3>3. CASE ~(j < k)
      <4>1. j - 1 \in 1..(n - 1) /\ ~(j - 1 < k) /\ (j - 1) + 1 = j
        BY <1>1, <2>4, <3>1, <3>3
      <4>2. rest[j - 1] = stab[j]
        BY <1>5, <4>1
      <4> QED BY <1>6, <2>1, <3>1, <4>1, <4>2
    <3> QED BY <3>2, <3>3
  <2> QED BY <2>3, <2>4
<1> QED BY <1>5, <1>8, <1>9 DEF rest

LEMMA SockFreeDelInv == ASSUME UdpInv, NEW s \in Owners, SockFreeDel(s) PROVE UdpInv'
<1>1. UdpShape /\ UdpTable /\ UdpLocked /\ UdpToPort /\ UdpOnce /\ UdpFreed /\ UdpWoken
  BY DEF UdpInv
<1> DEFINE k == CHOOSE i \in DOMAIN stab : stab[i] = s
<1>2. /\ sockPc[s] = "close" /\ sockPc' = [sockPc EXCEPT ![s] = "drain"] /\ StabFree
      /\ stab' = RemoveAt(stab, k)
      /\ locPort' = locPort /\ remAddr' = remAddr /\ bufs' = bufs /\ newPort' = newPort
      /\ usedPorts' = usedPorts /\ udpIn' = udpIn /\ udpCur' = udpCur /\ udpPc' = udpPc
      /\ udpMatch' = udpMatch /\ freed' = freed /\ udpRaced' = udpRaced /\ udpMissed' = udpMissed
      /\ udpAwaken' = udpAwaken
  BY DEF SockFreeDel, SockGoes, sockFields, netTaskVars, udpHistory
<1>3. s \in Range(stab)
  BY <1>1, <1>2 DEF UdpTable, UdpListed
<1>4. k \in DOMAIN stab /\ stab[k] = s
  BY <1>1, <1>3, TableFacts
<1> HIDE DEF k
<1>5. stab' \in Seq(Owners) /\ IsInjective(stab') /\ Range(stab') = Range(stab) \ {s}
  BY <1>1, <1>2, <1>4, RemoveAtFacts
<1>6. \A t \in Owners : sockPc'[t] = IF t = s THEN "drain" ELSE sockPc[t]
  BY <1>1, <1>2 DEF UdpShape
<1>7. UdpShape'
  <2>1. sockPc' \in [Owners -> UdpListed \cup UdpUnlisted]
    BY <1>1, <1>2 DEF UdpShape, UdpUnlisted
  <2> QED BY <1>1, <1>2, <1>5, <2>1 DEF UdpShape
<1>8. UdpTable'
  BY <1>1, <1>2, <1>5, <1>6 DEF UdpTable, UdpListed
<1>9. UdpLocked'
  BY <1>1, <1>2 DEF UdpLocked, StabFree
<1>10. UdpToPort' /\ UdpOnce' /\ UdpFreed'
  BY <1>1, <1>2 DEF UdpToPort, UdpOnce, UdpFreed, Queued
<1>11. UdpWoken'
  BY <1>1, <1>2, <1>6 DEF UdpWoken
<1> QED BY <1>7, <1>8, <1>9, <1>10, <1>11 DEF UdpInv

(* What was not read is freed with the socket.                              *)
LEMMA SockFreeBufsInv == ASSUME UdpInv, NEW s \in Owners, SockFreeBufs(s) PROVE UdpInv'
<1> DEFINE ids == {d.id : d \in Range(bufs[s])}
<1>1. UdpShape /\ UdpTable /\ UdpLocked /\ UdpToPort /\ UdpOnce /\ UdpFreed /\ UdpWoken
  BY DEF UdpInv
<1>2. /\ sockPc[s] = "drain" /\ sockPc' = [sockPc EXCEPT ![s] = "none"]
      /\ freed' = [b \in DOMAIN freed |-> IF b \in ids THEN freed[b] + 1 ELSE freed[b]]
      /\ udpRaced' = udpRaced \cup (ids \cap {udpCur.id})
      /\ bufs' = [bufs EXCEPT ![s] = <<>>]
      /\ locPort' = [locPort EXCEPT ![s] = NoPort]
      /\ remAddr' = [remAddr EXCEPT ![s] = AnyPeer]
      /\ udpMissed' = udpMissed \ {s} /\ udpAwaken' = udpAwaken \ {s}
      /\ stab' = stab /\ newPort' = newPort
      /\ usedPorts' = usedPorts /\ udpIn' = udpIn /\ udpCur' = udpCur /\ udpPc' = udpPc
      /\ udpMatch' = udpMatch
  BY DEF SockFreeBufs, SockGoes, netTaskVars
<1>3. \A b : b \in ids <=> \E i \in DOMAIN bufs[s] : bufs[s][i].id = b
  BY DEF Range
<1>4. \A b \in ids : b \in 1..MaxDatagrams /\ b <= udpIn /\ freed[b] = 0 /\ b \notin udpRaced
                     /\ (udpPc \in {"match", "locked"} => b # udpIn)
  <2> SUFFICES ASSUME NEW i \in DOMAIN bufs[s], NEW b, b = bufs[s][i].id
               PROVE  b \in 1..MaxDatagrams /\ b <= udpIn /\ freed[b] = 0 /\ b \notin udpRaced
                      /\ (udpPc \in {"match", "locked"} => b # udpIn)
    BY <1>3
  <2>1. b \in 1..MaxDatagrams
    BY <1>1, QueueFacts DEF Datagram
  <2> QED BY <1>1, <2>1 DEF UdpOnce
<1> HIDE DEF ids
<1>5. \A t \in Owners : /\ sockPc'[t] = IF t = s THEN "none" ELSE sockPc[t]
                        /\ bufs'[t] = IF t = s THEN <<>> ELSE bufs[t]
                        /\ locPort'[t] = IF t = s THEN NoPort ELSE locPort[t]
                        /\ remAddr'[t] = IF t = s THEN AnyPeer ELSE remAddr[t]
  BY <1>1, <1>2 DEF UdpShape
<1>6. \A b \in 1..MaxDatagrams : freed'[b] = IF b \in ids THEN 1 ELSE freed[b]
  BY <1>1, <1>2, <1>4 DEF UdpShape
<1>7. <<>> \in Seq(Datagram) /\ Len(<<>>) = 0 /\ DOMAIN <<>> = {}
  BY EmptySeq
<1>8. udpIn \in Nat /\ 1..udpIn \subseteq 1..MaxDatagrams
  BY <1>1, UdpAssumption DEF UdpShape
<1>9. UdpShape'
  <2>1. sockPc' \in [Owners -> UdpListed \cup UdpUnlisted]
    BY <1>1, <1>2 DEF UdpShape, UdpUnlisted
  <2>2. bufs' \in [Owners -> Seq(Datagram)]
    BY <1>1, <1>2, <1>7 DEF UdpShape
  <2>3. \A t \in Owners : Len(bufs'[t]) <= SOCK_MAX_BUFS
    BY <1>1, <1>5, <1>7, UdpAssumption DEF UdpShape
  <2>4. freed' \in [1..MaxDatagrams -> 0..2]
    <3>1. DOMAIN freed = 1..MaxDatagrams
      BY <1>1 DEF UdpShape
    <3>2. freed' = [b \in 1..MaxDatagrams |-> IF b \in ids THEN 1 ELSE freed[b]]
      BY <1>2, <1>4, <3>1
    <3>3. \A b \in 1..MaxDatagrams : freed[b] \in 0..2
      BY <1>1 DEF UdpShape
    <3> QED BY <3>2, <3>3
  <2>5. udpRaced' \subseteq 1..udpIn'
    <3>1. udpRaced \subseteq 1..udpIn
      BY <1>1 DEF UdpShape
    <3>2. ids \subseteq 1..udpIn
      BY <1>4, <1>8
    <3> QED BY <1>2, <3>1, <3>2
  <2>6. locPort' \in [Owners -> UdpPorts]
    BY <1>1, <1>2, PortFacts DEF UdpShape
  <2>7. remAddr' \in [Owners -> Peers \cup {AnyPeer, Broadcast}]
    BY <1>1, <1>2 DEF UdpShape
  <2> QED BY <1>1, <1>2, <2>1, <2>2, <2>3, <2>4, <2>5, <2>6, <2>7 DEF UdpShape
<1>10. s \notin Range(stab)
  BY <1>1, <1>2 DEF UdpTable, UdpListed
<1>11. UdpTable'
  <2>1. AnyPeer \notin Peers /\ Range(stab) \subseteq Owners
    BY <1>1, UdpAssumption, TableFacts
  <2> QED BY <1>1, <1>2, <1>5, <1>10, <2>1 DEF UdpTable, UdpListed
<1>12. UdpLocked'
  BY <1>1, <1>2, <1>5, <1>10, TableFacts DEF UdpLocked
<1>13. UdpToPort'
  BY <1>1, <1>5, <1>7 DEF UdpToPort
<1>14. UdpOnce'
  <2>1. \A t \in Owners : \A i \in DOMAIN bufs'[t] : t # s /\ bufs'[t] = bufs[t] /\ i \in DOMAIN bufs[t]
                                                      /\ bufs[t][i].id \notin ids
    BY <1>1, <1>3, <1>5, <1>7 DEF UdpOnce
  <2>2. \A t, u \in Owners : \A i \in DOMAIN bufs'[t], j \in DOMAIN bufs'[u] :
            bufs'[t][i].id = bufs'[u][j].id => t = u /\ i = j
    BY <1>1, <2>1 DEF UdpOnce
  <2>3. ASSUME NEW t \in Owners, NEW i \in DOMAIN bufs'[t]
        PROVE  LET b == bufs'[t][i].id IN
               b <= udpIn' /\ freed'[b] = 0 /\ b \notin udpRaced'
               /\ (udpPc' \in {"match", "locked"} => b # udpIn')
    <3>1. bufs[t][i].id \in 1..MaxDatagrams
      BY <1>1, <2>1, QueueFacts DEF Datagram
    <3> QED BY <1>1, <1>2, <1>6, <2>1, <3>1 DEF UdpOnce
  <2> QED BY <2>2, <2>3 DEF UdpOnce
<1>15. UdpFreed'
  <2>1. ASSUME NEW b \in 1..udpIn, b \notin ids, Queued(b)
        PROVE  Queued(b)'
    BY <1>3, <1>5, <2>1 DEF Queued
  <2>3. ASSUME NEW b \in 1..udpIn, freed'[b] = 0 PROVE Queued(b)' \/ b = udpCur.id
    <3>1. b \notin ids /\ freed[b] = 0
      BY <1>6, <1>8, <2>3
    <3>2. Queued(b) \/ b = udpCur.id
      BY <1>1, <3>1 DEF UdpFreed
    <3> QED BY <2>1, <3>1, <3>2
  <2>4. \A b \in 1..MaxDatagrams : b > udpIn' => freed'[b] = 0
    BY <1>1, <1>2, <1>4, <1>6, <1>8 DEF UdpFreed
  <2>5. udpPc \in {"match", "locked", "drop"} => udpIn \in 1..MaxDatagrams /\ udpCur.id = udpIn
    BY <1>1 DEF UdpShape, Datagram
  <2>6. udpPc' \in {"match", "locked"} => freed'[udpIn'] = 0 /\ udpIn' \notin udpRaced'
    BY <1>1, <1>2, <1>4, <1>6, <2>5 DEF UdpFreed
  <2>7. udpPc' = "drop" => freed'[udpIn'] = (IF udpIn' \in udpRaced' THEN 1 ELSE 0)
    BY <1>1, <1>2, <1>4, <1>6, <2>5 DEF UdpFreed
  <2>8. ASSUME NEW b \in 1..udpIn, b \notin udpRaced' PROVE freed'[b] <= 1
    <3>1. b \in 1..MaxDatagrams /\ b \notin udpRaced /\ freed[b] <= 1
      BY <1>1, <1>2, <1>8, <2>8 DEF UdpFreed
    <3> QED BY <1>6, <3>1
  <2> QED BY <1>2, <2>3, <2>4, <2>6, <2>7, <2>8 DEF UdpFreed
<1>16. UdpWoken'
  BY <1>1, <1>2, <1>5 DEF UdpWoken
<1> QED BY <1>9, <1>11, <1>12, <1>13, <1>14, <1>15, <1>16 DEF UdpInv

LEMMA UdpArrivesInv ==
  ASSUME UdpInv, NEW from \in Peers, NEW to \in AllPorts \cup BoundPorts, UdpArrives(from, to)
  PROVE  UdpInv'
<1>1. UdpShape /\ UdpTable /\ UdpLocked /\ UdpToPort /\ UdpOnce /\ UdpFreed /\ UdpWoken
  BY DEF UdpInv
<1>2. /\ udpPc = "idle" /\ udpIn < MaxDatagrams /\ udpIn' = udpIn + 1
      /\ udpCur' = [id |-> udpIn + 1, from |-> from, to |-> to] /\ udpPc' = "match"
      /\ stab' = stab /\ locPort' = locPort /\ remAddr' = remAddr /\ bufs' = bufs /\ sockPc' = sockPc
      /\ newPort' = newPort /\ usedPorts' = usedPorts /\ udpMatch' = udpMatch /\ freed' = freed
      /\ udpRaced' = udpRaced /\ udpMissed' = udpMissed
      /\ udpAwaken' = udpAwaken
  BY DEF UdpArrives, sockFields, udpHistory
<1>3. udpIn \in Nat /\ MaxDatagrams \in Nat /\ udpIn + 1 \in 1..MaxDatagrams
  BY <1>1, <1>2, UdpAssumption DEF UdpShape
<1>4. udpCur' \in Datagram /\ udpCur'.id = udpIn'
  BY <1>2, <1>3 DEF Datagram
<1>5. UdpShape'
  <2>1. udpRaced' \subseteq 1..udpIn'
    BY <1>1, <1>2, <1>3 DEF UdpShape
  <2>2. udpIn' \in 0..MaxDatagrams
    BY <1>2, <1>3
  <2> QED BY <1>1, <1>2, <1>4, <2>1, <2>2 DEF UdpShape
<1>6. UdpTable' /\ UdpToPort' /\ UdpWoken'
  BY <1>1, <1>2 DEF UdpTable, UdpToPort, UdpWoken
<1>7. UdpLocked'
  BY <1>1, <1>2 DEF UdpLocked
<1>8. UdpOnce'
  <2>1. ASSUME NEW t \in Owners, NEW i \in DOMAIN bufs[t]
        PROVE  LET b == bufs'[t][i].id IN
               b <= udpIn' /\ freed'[b] = 0 /\ b \notin udpRaced'
               /\ (udpPc' \in {"match", "locked"} => b # udpIn')
    <3>1. bufs[t][i].id \in Nat /\ bufs[t][i].id <= udpIn
      BY <1>1, QueueFacts DEF UdpOnce, Datagram
    <3> QED BY <1>1, <1>2, <1>3, <3>1 DEF UdpOnce
  <2> QED BY <1>1, <1>2, <2>1 DEF UdpOnce
<1>9. UdpFreed'
  <2>1. ASSUME NEW b \in 1..udpIn', freed'[b] = 0 PROVE Queued(b)' \/ b = udpCur'.id
    <3>1. CASE b = udpIn + 1
      BY <1>2, <3>1
    <3>2. CASE b # udpIn + 1
      <4>1. b \in 1..udpIn
        BY <1>2, <1>3, <3>2
      <4>2. Queued(b) \/ b = udpCur.id
        BY <1>1, <1>2, <2>1, <4>1 DEF UdpFreed
      <4>3. udpCur.id = 0
        BY <1>1, <1>2 DEF UdpShape, NoDatagram
      <4> QED BY <1>2, <4>1, <4>2, <4>3 DEF Queued
    <3> QED BY <3>1, <3>2
  <2>2. \A b \in 1..MaxDatagrams : b > udpIn' => freed'[b] = 0
    BY <1>1, <1>2, <1>3 DEF UdpFreed
  <2>3. freed'[udpIn'] = 0 /\ udpIn' \notin udpRaced'
    BY <1>1, <1>2, <1>3 DEF UdpFreed, UdpShape
  <2>4. ASSUME NEW b \in 1..udpIn', b \notin udpRaced' PROVE freed'[b] <= 1
    <3>1. b \in 1..udpIn \/ b = udpIn'
      BY <1>2, <1>3
    <3> QED BY <1>1, <1>2, <2>3, <2>4, <3>1 DEF UdpFreed
  <2> QED BY <1>2, <2>1, <2>2, <2>3, <2>4 DEF UdpFreed
<1> QED BY <1>5, <1>6, <1>7, <1>8, <1>9 DEF UdpInv

LEMMA UdpProcessInv == ASSUME UdpInv, NEW good \in BOOLEAN, UdpProcess(good) PROVE UdpInv'
<1>1. UdpShape /\ UdpTable /\ UdpLocked /\ UdpToPort /\ UdpOnce /\ UdpFreed /\ UdpWoken
  BY DEF UdpInv
<1>2. /\ udpPc = "match" /\ udpPc' = "locked"
      /\ stab' = stab /\ locPort' = locPort /\ remAddr' = remAddr /\ bufs' = bufs /\ sockPc' = sockPc
      /\ newPort' = newPort /\ usedPorts' = usedPorts /\ udpIn' = udpIn /\ udpCur' = udpCur /\ freed' = freed
      /\ udpRaced' = udpRaced /\ udpMissed' = udpMissed
      /\ udpAwaken' = udpAwaken
  BY DEF UdpProcess, sockFields, udpHistory
<1>3. udpMatch' = FirstMatch(udpCur) \/ udpMatch' = NoOwner
  BY DEF UdpProcess
<1>4. udpMatch' = NoOwner \/ (udpMatch' \in Range(stab) /\ locPort[udpMatch'] = udpCur.to)
  BY <1>1, <1>3, FirstMatchFound DEF Matches
<1>5. UdpShape'
  <2>1. udpMatch' \in Owners \cup {NoOwner}
    BY <1>1, <1>4, TableFacts
  <2> QED BY <1>1, <1>2, <2>1 DEF UdpShape
<1>6. UdpTable' /\ UdpToPort' /\ UdpOnce' /\ UdpWoken'
  BY <1>1, <1>2 DEF UdpTable, UdpToPort, UdpOnce, UdpWoken
<1>7. UdpLocked'
  BY <1>2, <1>4 DEF UdpLocked
<1>8. UdpFreed'
  BY <1>1, <1>2 DEF UdpFreed, Queued
<1> QED BY <1>5, <1>6, <1>7, <1>8 DEF UdpInv

(* The datagram enters the queue of the socket that is locked, whose reader is
   woken.                                                                   *)
LEMMA UdpDeliverInv == ASSUME UdpInv, UdpDeliver PROVE UdpInv'
<1>1. UdpShape /\ UdpTable /\ UdpLocked /\ UdpToPort /\ UdpOnce /\ UdpFreed /\ UdpWoken
  BY DEF UdpInv
<1>2. /\ udpPc = "locked" /\ udpPc' = "drop" /\ udpMatch' = NoOwner
      /\ stab' = stab /\ locPort' = locPort /\ remAddr' = remAddr
      /\ newPort' = newPort /\ usedPorts' = usedPorts /\ udpIn' = udpIn /\ udpCur' = udpCur /\ freed' = freed
      /\ udpRaced' = udpRaced /\ udpAwaken' = udpAwaken
  BY DEF UdpDeliver, sockFields
<1>3. udpCur \in Datagram /\ udpCur.id = udpIn /\ udpIn \in 1..MaxDatagrams
  BY <1>1, <1>2 DEF UdpShape, Datagram
<1>4. freed[udpIn] = 0 /\ udpIn \notin udpRaced
  BY <1>1, <1>2 DEF UdpFreed
<1>5. UdpLocked'
  BY <1>2 DEF UdpLocked
<1>6. \A b \in 1..MaxDatagrams : b > udpIn' => freed'[b] = 0
  BY <1>1, <1>2 DEF UdpFreed
<1>7. ASSUME \A b : Queued(b) => Queued(b)'
      PROVE  UdpFreed'
  <2>1. \A b \in 1..udpIn' : freed'[b] = 0 => (Queued(b)' \/ b = udpCur'.id)
    BY <1>1, <1>2, <1>7 DEF UdpFreed
  <2>2. \A b \in 1..udpIn' : b \notin udpRaced' => freed'[b] <= 1
    BY <1>1, <1>2 DEF UdpFreed
  <2> QED BY <1>2, <1>4, <1>6, <2>1, <2>2 DEF UdpFreed
<1>8. CASE ~Captured
  <2>1. bufs' = bufs /\ sockPc' = sockPc /\ udpMissed' = udpMissed
      /\ udpAwaken' = udpAwaken
    BY <1>8 DEF UdpDeliver
  <2>2. UdpShape'
    BY <1>1, <1>2, <1>3, <2>1 DEF UdpShape
  <2>3. UdpTable' /\ UdpToPort' /\ UdpWoken'
    BY <1>1, <1>2, <2>1 DEF UdpTable, UdpToPort, UdpWoken
  <2>4. UdpOnce'
    BY <1>1, <1>2, <2>1 DEF UdpOnce
  <2>5. UdpFreed'
    BY <1>7, <2>1 DEF Queued
  <2> QED BY <1>5, <2>2, <2>3, <2>4, <2>5 DEF UdpInv
<1>9. CASE Captured
  <2> DEFINE m == udpMatch
             more == Append(bufs[m], udpCur)
  <2>1. /\ m \in Owners /\ m \in Range(stab) /\ locPort[m] = udpCur.to /\ Len(bufs[m]) < SOCK_MAX_BUFS
        /\ bufs' = [bufs EXCEPT ![m] = more]
        /\ sockPc' = [sockPc EXCEPT ![m] = IF @ = "asleep" THEN "take" ELSE @]
        /\ udpMissed' = udpMissed \cup {s \in {m} : sockPc[s] = "sleep"}
    BY <1>1, <1>9 DEF UdpDeliver, Captured, UdpLocked, UdpShape
  <2>2. /\ more \in Seq(Datagram) /\ Len(more) = Len(bufs[m]) + 1
        /\ DOMAIN more = 1..(Len(bufs[m]) + 1)
        /\ \A i \in 1..Len(bufs[m]) : more[i] = bufs[m][i]
        /\ more[Len(bufs[m]) + 1] = udpCur
        /\ Len(bufs[m]) \in Nat /\ DOMAIN bufs[m] = 1..Len(bufs[m])
    BY <1>1, <1>3, <2>1, QueueFacts, AppendProperties, LenProperties
  <2> HIDE DEF m, more
  <2>3. \A t \in Owners :
            /\ bufs'[t] = IF t = m THEN more ELSE bufs[t]
            /\ sockPc'[t] = IF t = m /\ sockPc[m] = "asleep" THEN "take" ELSE sockPc[t]
    BY <1>1, <2>1 DEF UdpShape
  <2>4. \A t \in Owners : \A i \in DOMAIN bufs[t] : i \in DOMAIN bufs'[t] /\ bufs'[t][i] = bufs[t][i]
    BY <2>2, <2>3
  <2>5. \A t \in Owners : \A i \in DOMAIN bufs'[t] :
            (i \in DOMAIN bufs[t] /\ bufs'[t][i] = bufs[t][i])
            \/ (t = m /\ i = Len(bufs[m]) + 1 /\ bufs'[t][i] = udpCur)
    BY <2>2, <2>3
  <2>6. UdpShape'
    <3>1. bufs' \in [Owners -> Seq(Datagram)]
      BY <1>1, <2>1, <2>2 DEF UdpShape
    <3>2. sockPc' \in [Owners -> UdpListed \cup UdpUnlisted]
      BY <1>1, <2>1 DEF UdpShape, UdpListed
    <3>3. Len(more) <= SOCK_MAX_BUFS
      BY <2>1, <2>2, UdpAssumption
    <3>4. \A t \in Owners : Len(bufs'[t]) <= SOCK_MAX_BUFS
      BY <1>1, <2>3, <3>3 DEF UdpShape
    <3> QED BY <1>1, <1>2, <1>3, <3>1, <3>2, <3>4 DEF UdpShape
  <2>7. UdpTable'
    <3>1. \A t \in Owners : sockPc'[t] \in {"none", "alloc"} => bufs'[t] = <<>>
      <4>1. sockPc[m] \notin {"none", "alloc"}
        BY <1>1, <2>1 DEF UdpTable, UdpListed
      <4> QED BY <1>1, <2>3, <4>1 DEF UdpTable
    <3>2. \A t \in Owners : sockPc'[t] \in {"none", "alloc"} <=> sockPc[t] \in {"none", "alloc"}
      BY <2>3
    <3>3. \A t \in Owners : /\ sockPc'[t] \in UdpListed <=> sockPc[t] \in UdpListed
                            /\ sockPc'[t] = "connect" <=> sockPc[t] = "connect"
                            /\ sockPc'[t] = "bound" <=> sockPc[t] = "bound"
      BY <2>3 DEF UdpListed
    <3> QED BY <1>1, <1>2, <3>1, <3>2, <3>3 DEF UdpTable
  <2>8. UdpToPort'
    BY <1>1, <1>2, <2>1, <2>5 DEF UdpToPort
  <2>9. \A t \in Owners : \A i \in DOMAIN bufs[t] :
            bufs[t][i].id # udpIn /\ bufs[t][i].id <= udpIn
    BY <1>1, <1>2 DEF UdpOnce
  <2>10. UdpOnce'
    <3>1. ASSUME NEW t \in Owners, NEW u \in Owners, NEW i \in DOMAIN bufs'[t], NEW j \in DOMAIN bufs'[u],
                 bufs'[t][i].id = bufs'[u][j].id
          PROVE  t = u /\ i = j
      <4>1. CASE i \in DOMAIN bufs[t] /\ bufs'[t][i] = bufs[t][i]
        BY <1>1, <1>3, <2>5, <2>9, <3>1, <4>1 DEF UdpOnce
      <4>2. CASE t = m /\ i = Len(bufs[m]) + 1 /\ bufs'[t][i] = udpCur
        BY <1>3, <2>5, <2>9, <3>1, <4>2
      <4> QED BY <2>5, <4>1, <4>2
    <3>2. ASSUME NEW t \in Owners, NEW i \in DOMAIN bufs'[t]
          PROVE  LET b == bufs'[t][i].id IN
                 b <= udpIn' /\ freed'[b] = 0 /\ b \notin udpRaced'
                 /\ (udpPc' \in {"match", "locked"} => b # udpIn')
      BY <1>1, <1>2, <1>3, <1>4, <2>5 DEF UdpOnce
    <3> QED BY <3>1, <3>2 DEF UdpOnce
  <2>11. UdpFreed'
    BY <1>7, <2>4 DEF Queued
  <2>12. UdpWoken'
    <3>1. more # <<>>
      BY <2>2, EmptySeq
    <3>2. udpAwaken' = udpAwaken /\ udpMissed \subseteq udpMissed'
      BY <1>2, <2>1
    <3>3. \A t \in Owners : t # m => sockPc'[t] = sockPc[t] /\ bufs'[t] = bufs[t]
      BY <2>3
    <3>4. bufs'[m] # <<>> /\ (sockPc'[m] = sockPc[m] \/ sockPc'[m] = "take")
      BY <2>1, <2>3, <3>1
    <3>5. sockPc'[m] \in {"sleep", "asleep"} => sockPc[m] = "sleep" /\ m \in udpMissed'
      BY <2>1, <2>3
    <3> QED BY <1>1, <3>2, <3>3, <3>4, <3>5 DEF UdpWoken
  <2> QED BY <1>5, <2>6, <2>7, <2>8, <2>10, <2>11, <2>12 DEF UdpInv
<1> QED BY <1>8, <1>9

(* net_task is done with the buffer: it frees it, or it has been captured.  *)
LEMMA NetTaskDropInv == ASSUME UdpInv, NetTaskDrop PROVE UdpInv'
<1>1. UdpShape /\ UdpTable /\ UdpLocked /\ UdpToPort /\ UdpOnce /\ UdpFreed /\ UdpWoken
  BY DEF UdpInv
<1>2. /\ udpPc = "drop" /\ udpPc' = "idle" /\ udpCur' = NoDatagram
      /\ stab' = stab /\ locPort' = locPort /\ remAddr' = remAddr /\ bufs' = bufs /\ sockPc' = sockPc
      /\ newPort' = newPort /\ usedPorts' = usedPorts /\ udpIn' = udpIn /\ udpMatch' = udpMatch
      /\ udpRaced' = udpRaced /\ udpMissed' = udpMissed
      /\ udpAwaken' = udpAwaken
  BY DEF NetTaskDrop, sockFields, udpHistory
<1>3. udpCur.id = udpIn /\ udpIn \in 1..MaxDatagrams
  BY <1>1, <1>2 DEF UdpShape, Datagram
<1>4. freed[udpIn] = (IF udpIn \in udpRaced THEN 1 ELSE 0)
  BY <1>1, <1>2 DEF UdpFreed
<1>5. InQueue(udpIn) <=> Queued(udpIn)
  BY DEF InQueue, Queued, Range
<1>6. \/ (udpIn \in udpRaced \/ ~Queued(udpIn)) /\ freed' = [freed EXCEPT ![udpIn] = @ + 1]
      \/ (udpIn \in udpRaced \/ Queued(udpIn)) /\ freed' = freed
  BY <1>3, <1>5 DEF NetTaskDrop
<1>7. UdpShape'
  <2>1. freed' \in [1..MaxDatagrams -> 0..2]
    BY <1>1, <1>3, <1>4, <1>6 DEF UdpShape
  <2> QED BY <1>1, <1>2, <2>1 DEF UdpShape
<1>8. UdpTable' /\ UdpToPort' /\ UdpWoken'
  BY <1>1, <1>2 DEF UdpTable, UdpToPort, UdpWoken
<1>9. UdpLocked'
  BY <1>1, <1>2 DEF UdpLocked
<1>10. \A b \in 1..MaxDatagrams : b # udpIn => freed'[b] = freed[b]
  BY <1>1, <1>6 DEF UdpShape
<1>11. \/ (udpIn \in udpRaced \/ ~Queued(udpIn)) /\ freed'[udpIn] = freed[udpIn] + 1
       \/ (udpIn \in udpRaced \/ Queued(udpIn)) /\ freed'[udpIn] = freed[udpIn]
  BY <1>1, <1>3, <1>6 DEF UdpShape
<1>12. freed'[udpIn] = 0 => Queued(udpIn)
  BY <1>4, <1>11
<1>13. \A b : Queued(b)' <=> Queued(b)
  BY <1>2 DEF Queued
<1>14. UdpOnce'
  <2>1. ASSUME NEW t \in Owners, NEW i \in DOMAIN bufs[t]
        PROVE  freed'[bufs[t][i].id] = 0
    <3> DEFINE b == bufs[t][i].id
    <3>1. b \in 1..MaxDatagrams /\ freed[b] = 0 /\ b \notin udpRaced
      BY <1>1, QueueFacts DEF UdpOnce, Datagram
    <3>2. Queued(b)
      BY DEF Queued
    <3> HIDE DEF b
    <3>3. freed'[b] = 0
      BY <1>6, <1>10, <3>1, <3>2
    <3> QED BY <3>3 DEF b
  <2> QED BY <1>1, <1>2, <2>1 DEF UdpOnce
<1>15. UdpFreed'
  <2>1. udpIn \in Nat /\ 1..udpIn \subseteq 1..MaxDatagrams
    BY <1>3, UdpAssumption
  <2>2. ASSUME NEW b \in 1..udpIn, freed'[b] = 0 PROVE Queued(b)
    <3>1. CASE b = udpIn
      BY <1>12, <2>2, <3>1
    <3>2. CASE b # udpIn
      BY <1>1, <1>3, <1>10, <2>1, <2>2, <3>2 DEF UdpFreed
    <3> QED BY <3>1, <3>2
  <2>3. \A b \in 1..MaxDatagrams : b > udpIn' => freed'[b] = 0
    BY <1>1, <1>2, <1>3, <1>10 DEF UdpFreed
  <2>4. ASSUME NEW b \in 1..udpIn, b \notin udpRaced PROVE freed'[b] <= 1
    <3>1. CASE b = udpIn
      BY <1>4, <1>11, <2>4, <3>1
    <3>2. CASE b # udpIn
      BY <1>1, <1>10, <2>1, <2>4, <3>2 DEF UdpFreed
    <3> QED BY <3>1, <3>2
  <2> QED BY <1>2, <1>13, <2>2, <2>3, <2>4 DEF UdpFreed
<1> QED BY <1>7, <1>8, <1>9, <1>14, <1>15 DEF UdpInv

LEMMA UdpStep == UdpInv /\ [UdpNext]_udpVars => UdpInv'
<1> SUFFICES ASSUME UdpInv, [UdpNext]_udpVars PROVE UdpInv'
  OBVIOUS
<1>1. CASE UNCHANGED udpVars
  BY <1>1 DEF udpVars, UdpInv, UdpShape, UdpTable, UdpLocked, UdpToPort, UdpOnce, UdpFreed, Queued, UdpWoken
<1>2. ASSUME NEW s \in Owners,
             \/ SockAlloc(s) \/ SockAdd(s) \/ UdpConnectPort(s) \/ UdpSetLocal(s)
             \/ UdpReadSleep(s) \/ UdpSignalled(s) \/ UdpReadTake(s) \/ SockKilled(s)
             \/ \E awaken \in BOOLEAN : UdpReadTest(s, awaken)
             \/ SockFreeAssert(s) \/ SockFreeDel(s) \/ SockFreeBufs(s)
      PROVE  UdpInv'
  BY <1>2, SockAllocInv, SockAddInv, UdpConnectPortInv, UdpSetLocalInv, UdpReadTestInv, UdpReadSleepInv,
     UdpReadNullInv, UdpReadTakeInv, SockKilledInv, SockFreeAssertInv, SockFreeDelInv, SockFreeBufsInv
<1>3. ASSUME NEW s \in Owners, NEW port \in BoundPorts, SockBind(s, port) PROVE UdpInv'
  BY <1>3, SockBindInv
<1>4. ASSUME NEW s \in Owners, NEW peer \in Peers \cup {Broadcast}, NEW route \in BOOLEAN,
             UdpSetRemote(s, peer, route)
      PROVE  UdpInv'
  BY <1>4, UdpSetRemoteInv
<1>5. ASSUME NEW from \in Peers, NEW to \in AllPorts \cup BoundPorts, UdpArrives(from, to) PROVE UdpInv'
  BY <1>5, UdpArrivesInv
<1>6. ASSUME NEW good \in BOOLEAN, UdpProcess(good) PROVE UdpInv'
  BY <1>6, UdpProcessInv
<1>7. CASE UdpDeliver \/ NetTaskDrop
  BY <1>7, UdpDeliverInv, NetTaskDropInv
<1> QED BY <1>1, <1>2, <1>3, <1>4, <1>5, <1>6, <1>7 DEF UdpNext

LEMMA UdpLimitStep == UdpInv /\ UdpLimit /\ [UdpNext]_udpVars => UdpLimit'
<1> SUFFICES ASSUME UdpInv, UdpLimit, [UdpNext]_udpVars PROVE UdpLimit'
  OBVIOUS
<1>1. stab \in Seq(Owners) /\ Len(stab) \in Nat /\ sockPc \in [Owners -> UdpListed \cup UdpUnlisted]
  BY LenProperties DEF UdpInv, UdpShape
<1>2. MAX_SOCKS \in Nat
  BY UdpAssumption
<1>3. ASSUME stab' = stab, udpAwaken' \subseteq Owners, sockRaced' = sockRaced,
             \A t \in Owners : sockPc'[t] = "alloc" => sockPc[t] = "alloc"
      PROVE  UdpLimit'
  BY <1>3 DEF UdpLimit
<1>4. CASE UNCHANGED udpVars
  BY <1>4 DEF udpVars, UdpLimit
<1>5. ASSUME NEW s \in Owners, SockAlloc(s) PROVE UdpLimit'
  <2>1. /\ stab' = stab /\ udpAwaken' = udpAwaken /\ Len(stab) # MAX_SOCKS
        /\ sockRaced' = (sockRaced \/ \E t \in Owners : sockPc[t] = "alloc")
        /\ \A t \in Owners : t # s => sockPc'[t] = sockPc[t]
    BY <1>1, <1>5 DEF SockAlloc, SockGoes
  <2>2. ~sockRaced' => /\ ~sockRaced /\ Len(stab) <= MAX_SOCKS
                       /\ \A t \in Owners : t # s => sockPc'[t] # "alloc"
    BY <2>1 DEF UdpLimit
  <2>3. ~sockRaced' => Len(stab') <= MAX_SOCKS /\ Len(stab') < MAX_SOCKS
    BY <1>1, <1>2, <2>1, <2>2
  <2> QED BY <2>1, <2>2, <2>3 DEF UdpLimit
<1>6. ASSUME NEW s \in Owners, SockAdd(s) PROVE UdpLimit'
  <2>1. /\ stab' = Append(stab, s) /\ udpAwaken' = udpAwaken /\ sockRaced' = sockRaced /\ sockPc[s] = "alloc"
        /\ \A t \in Owners : sockPc'[t] = IF t = s THEN "open" ELSE sockPc[t]
    BY <1>1, <1>6 DEF SockAdd, SockGoes, udpHistory
  <2>2. Len(stab') = Len(stab) + 1
    BY <1>1, <2>1
  <2>3. ~sockRaced => Len(stab) < MAX_SOCKS /\ \A t \in Owners : sockPc[t] = "alloc" => t = s
    BY <2>1 DEF UdpLimit
  <2>4. ~sockRaced' => Len(stab') <= MAX_SOCKS /\ \A t \in Owners : sockPc'[t] # "alloc"
    BY <1>1, <1>2, <2>1, <2>2, <2>3
  <2> QED BY <2>1, <2>4 DEF UdpLimit
<1>7. ASSUME NEW s \in Owners, SockFreeDel(s) PROVE UdpLimit'
  <2> DEFINE k == CHOOSE i \in DOMAIN stab : stab[i] = s
  <2>1. /\ stab' = RemoveAt(stab, k) /\ udpAwaken' = udpAwaken /\ sockRaced' = sockRaced /\ sockPc[s] = "close"
        /\ \A t \in Owners : sockPc'[t] = IF t = s THEN "drain" ELSE sockPc[t]
    BY <1>1, <1>7 DEF SockFreeDel, SockGoes, udpHistory
  <2>2. UdpShape /\ s \in Range(stab)
    BY <2>1 DEF UdpInv, UdpTable, UdpListed
  <2>3. k \in DOMAIN stab
    BY <2>2, TableFacts
  <2> HIDE DEF k
  <2>4. Len(stab') <= Len(stab) /\ Len(stab') \in Nat
    <3>1. k \in 1..Len(stab)
      BY <1>1, <2>3
    <3>2. /\ SubSeq(stab, 1, k - 1) \in Seq(Owners) /\ Len(SubSeq(stab, 1, k - 1)) = k - 1
          /\ SubSeq(stab, k + 1, Len(stab)) \in Seq(Owners)
          /\ Len(SubSeq(stab, k + 1, Len(stab))) = Len(stab) - k
      BY <1>1, <3>1, SubSeqProperties
    <3>3. Len(stab') = (k - 1) + (Len(stab) - k)
      BY <2>1, <3>2, ConcatProperties DEF RemoveAt
    <3> QED BY <1>1, <3>1, <3>3
  <2>5. ~sockRaced' => Len(stab') <= MAX_SOCKS /\ \A t \in Owners : sockPc'[t] = "alloc" => Len(stab') < MAX_SOCKS
    BY <1>1, <1>2, <2>1, <2>4 DEF UdpLimit
  <2> QED BY <2>1, <2>5 DEF UdpLimit
<1>8. ASSUME NEW s \in Owners,
             \/ UdpReadSleep(s) \/ UdpSignalled(s) \/ SockKilled(s) \/ SockFreeAssert(s) \/ UdpConnectPort(s)
             \/ \E awaken \in BOOLEAN : UdpReadTest(s, awaken)
      PROVE  UdpLimit'
  <2>1. /\ stab' = stab /\ sockRaced' = sockRaced /\ udpAwaken' \in {udpAwaken, udpAwaken \cup {s}}
        /\ \E to \in (UdpListed \cup UdpUnlisted) \ {"alloc"} : sockPc' = [sockPc EXCEPT ![s] = to]
    BY <1>8 DEF UdpReadSleep, UdpSignalled, SockKilled, SockFreeAssert, UdpConnectPort, UdpReadTest, SockGoes,
         udpHistory, UdpListed, UdpUnlisted
  <2> QED BY <1>1, <1>3, <2>1 DEF UdpLimit
<1>9. ASSUME NEW s \in Owners, UdpSetLocal(s) \/ UdpReadTake(s) \/ SockFreeBufs(s) PROVE UdpLimit'
  <2>1. /\ stab' = stab /\ sockRaced' = sockRaced /\ udpAwaken' \subseteq udpAwaken
        /\ \E to \in (UdpListed \cup UdpUnlisted) \ {"alloc"} : sockPc' = [sockPc EXCEPT ![s] = to]
    BY <1>9 DEF UdpSetLocal, UdpReadTake, SockFreeBufs, SockGoes, udpHistory, UdpListed, UdpUnlisted
  <2> QED BY <1>1, <1>3, <2>1 DEF UdpLimit
<1>10. ASSUME NEW s \in Owners, NEW port \in BoundPorts, SockBind(s, port) PROVE UdpLimit'
  BY <1>3, <1>10 DEF SockBind, udpHistory, UdpLimit
<1>11. ASSUME NEW s \in Owners, NEW peer, NEW route, UdpSetRemote(s, peer, route) PROVE UdpLimit'
  <2>1. /\ stab' = stab /\ sockRaced' = sockRaced /\ udpAwaken' = udpAwaken
        /\ sockPc' = [sockPc EXCEPT ![s] = "open"]
    BY <1>11 DEF UdpSetRemote, SockGoes, udpHistory
  <2> QED BY <1>1, <1>3, <2>1 DEF UdpLimit
<1>12. ASSUME \/ \E from \in Peers, to \in AllPorts \cup BoundPorts : UdpArrives(from, to)
              \/ \E good \in BOOLEAN : UdpProcess(good)
              \/ NetTaskDrop
       PROVE  UdpLimit'
  BY <1>3, <1>12 DEF UdpArrives, UdpProcess, NetTaskDrop, udpHistory, UdpLimit
<1>13. CASE UdpDeliver
  <2>1. /\ stab' = stab /\ sockRaced' = sockRaced /\ udpAwaken' = udpAwaken
        /\ \/ sockPc' = sockPc
           \/ sockPc' = [sockPc EXCEPT ![udpMatch] = IF @ = "asleep" THEN "take" ELSE @]
    BY <1>13 DEF UdpDeliver
  <2> QED BY <1>1, <1>3, <2>1 DEF UdpLimit
<1> QED BY <1>4, <1>5, <1>6, <1>7, <1>8, <1>9, <1>10, <1>11, <1>12, <1>13 DEF UdpNext

(* A datagram reaches the socket of its port and peer, whose reader is woken for it
   and reads nothing else but after a signal; its buffer has one owner until it is
   freed once, unless the reader was faster than net_task; and the sockets stay
   limited unless two tasks opened one at once: for any number of tasks, ports,
   datagrams and places in a queue.                                         *)
THEOREM DatagramsReachOwners == UdpSpec => []UdpSafety
<1>1. UdpInit => UdpInv /\ UdpLimit
  <2>1. ASSUME UdpInit PROVE UdpLimit
    <3>1. Len(stab) = 0 /\ MAX_SOCKS \in Nat
      BY <2>1, UdpAssumption, EmptySeq DEF UdpInit
    <3>2. Len(stab) <= MAX_SOCKS
      BY <3>1
    <3>3. udpAwaken = {} /\ sockRaced = FALSE /\ \A s \in Owners : sockPc[s] = "none"
      BY <2>1 DEF UdpInit
    <3> QED BY <3>2, <3>3 DEF UdpLimit
  <2> QED BY <2>1, UdpInitInv
<1>2. UdpInv /\ UdpLimit /\ [UdpNext]_udpVars => (UdpInv /\ UdpLimit)'
  BY UdpStep, UdpLimitStep
<1>3. UdpInv /\ UdpLimit => UdpSafety
  BY InvUdpSafety
<1> QED BY <1>1, <1>2, <1>3, PTL DEF UdpSpec

-----------------------------------------------------------------------------
(***************************************************************************)
(* IP (IpStack).  m is 2^Bits - 1: a checksum keeps a sum modulo m.        *)
(***************************************************************************)
Multiple(x, m) == \E q \in Int : x = q * m

LEMMA WordFacts ==
  /\ 2^Bits \in Nat /\ 2^Bits > 6
  /\ Word = 0..(2^Bits - 1)
BY IpAssumption DEF Word

(* What one fold does to a sum, as a number and as a bound: b stands for 2^Bits. *)
LEMMA FoldedOnce ==
  ASSUME NEW b \in Nat, b > 1, NEW x \in Nat, NEW y, y = (x % b) + (x \div b)
  PROVE  /\ y \in Nat
         /\ y = 0 <=> x = 0
         /\ Multiple(x - y, b - 1)
         /\ \A m \in Nat : m >= 1 /\ x <= m * (b - 1) =>
                /\ y <= b - 1 \/ (m >= 2 /\ y <= (m - 1) * (b - 1))
                /\ y <= (b - 1) + (m - 1)
<1> DEFINE q == x \div b
           r == x % b
<1>1. x = q * b + r /\ q \in Int /\ r \in 0..(b - 1)
  <2>1. x = b * (x \div b) + (x % b)
    BY Z3
  <2>2. x % b \in 0..(b - 1) /\ x \div b \in Int
    BY Z3
  <2>3. b * (x \div b) = (x \div b) * b
    BY <2>2
  <2> QED BY <2>1, <2>2, <2>3
<1>2. y = q + r
  BY <1>1
<1> HIDE DEF q, r
<1>3. q >= 0
  <2> SUFFICES ASSUME q <= 0 - 1 PROVE FALSE
    BY <1>1
  <2>1. q * b <= (0 - 1) * b
    BY <1>1, Z3
  <2> QED BY <1>1, <2>1
<1>4. y \in Nat
  BY <1>1, <1>2, <1>3
<1>5. y = 0 <=> x = 0
  <2>1. ASSUME y = 0 PROVE x = 0
    <3>1. q = 0 /\ r = 0
      BY <2>1, <1>1, <1>2, <1>3
    <3> QED BY <1>1, <3>1
  <2>2. ASSUME x = 0 PROVE y = 0
    <3>1. ~(q >= 1)
      <4> SUFFICES ASSUME q >= 1 PROVE FALSE
        OBVIOUS
      <4>1. q * b >= b
        BY <1>1, Z3
      <4> QED BY <1>1, <2>2, <4>1
    <3>2. q = 0
      BY <1>1, <1>3, <3>1
    <3> QED BY <1>1, <1>2, <2>2, <3>2
  <2> QED BY <2>1, <2>2
<1>6. Multiple(x - y, b - 1)
  <2>1. q * (b - 1) = q * b - q
    BY <1>1, Z3
  <2>2. x - y = q * (b - 1)
    BY <1>1, <1>2, <2>1
  <2> QED BY <1>1, <2>2 DEF Multiple
<1>7. ASSUME NEW m \in Nat, m >= 1, x <= m * (b - 1)
      PROVE  /\ y <= b - 1 \/ (m >= 2 /\ y <= (m - 1) * (b - 1))
             /\ y <= (b - 1) + (m - 1)
  <2>1. m * (b - 1) = m * b - m
    BY Z3
  <2>2. q <= m - 1
    <3> SUFFICES ASSUME q >= m PROVE FALSE
      BY <1>1
    <3>1. q * b >= m * b
      BY <1>1, Z3
    <3> QED BY <1>1, <1>7, <2>1, <3>1
  <2>3. CASE q = m - 1
    <3>1. q * b = m * b - b
      BY <2>3, Z3
    <3> QED BY <1>1, <1>2, <1>7, <2>1, <3>1
  <2>4. CASE q <= m - 2
    <3>1. m >= 2
      BY <2>4, <1>3, <1>1
    <3>2. (m - 2) * (b - 1) >= m - 2
      BY <3>1, Z3
    <3>3. (m - 1) * (b - 1) = (m - 2) * (b - 1) + (b - 1)
      BY Z3
    <3>4. (m - 1) * (b - 1) \in Int /\ (m - 2) * (b - 1) \in Int
      OBVIOUS
    <3> QED BY <1>1, <1>2, <2>4, <3>1, <3>2, <3>3, <3>4
  <2> QED BY <1>1, <2>2, <2>3, <2>4
<1> QED BY <1>4, <1>5, <1>6, <1>7

LEMMA MultipleSum ==
  ASSUME NEW m \in Nat, NEW x \in Int, NEW y \in Int, Multiple(x, m), Multiple(y, m)
  PROVE  Multiple(x + y, m) /\ Multiple(x - y, m)
<1>1. PICK p \in Int : x = p * m
  BY DEF Multiple
<1>2. PICK q \in Int : y = q * m
  BY DEF Multiple
<1>3. (p + q) * m = p * m + q * m
  BY Z3
<1>4. (p - q) * m = p * m - q * m
  BY Z3
<1>5. p * m \in Int /\ q * m \in Int
  OBVIOUS
<1>6. x + y = (p + q) * m /\ x - y = (p - q) * m
  BY <1>1, <1>2, <1>3, <1>4, <1>5, Zenon
<1>7. p + q \in Int /\ p - q \in Int
  OBVIOUS
<1> QED BY <1>6, <1>7, Zenon DEF Multiple

LEMMA MultipleMod ==
  ASSUME NEW m \in Nat, m > 0, NEW x \in Int
  PROVE  Multiple(x, m) <=> x % m = 0
<1>1. x % m \in 0..(m - 1)
  BY Quotient, Zenon
<1>2. PICK q \in Int : x = q * m + (x % m)
  BY Quotient, Zenon
<1>3. ASSUME x % m = 0 PROVE Multiple(x, m)
  BY <1>2, <1>3 DEF Multiple
<1>4. ASSUME Multiple(x, m) PROVE x % m = 0
  <2>1. PICK p \in Int : x = p * m
    BY <1>4 DEF Multiple
  <2>2. q * m + (x % m) = p * m + 0 /\ 0 \in 0..(m - 1)
    BY <1>2, <2>1
  <2> DEFINE r == x % m
  <2> HIDE DEF r
  <2>3. r \in 0..(m - 1) /\ q * m + r = p * m + 0
    BY <1>1, <2>2 DEF r
  <2>4. r = 0
    BY <2>2, <2>3, DivUnique, Zenon
  <2> QED BY <2>4 DEF r
<1> QED BY <1>3, <1>4

(* A multiple of m between 1 and m is m.                                    *)
LEMMA MultipleWithin ==
  ASSUME NEW m \in Nat, m > 0, NEW x \in Int, Multiple(x, m), x > 0, x < 2 * m
  PROVE  x = m
<1>1. PICK p \in Int : x = p * m
  BY DEF Multiple
<1>2. ~(p >= 2)
  <2> SUFFICES ASSUME p >= 2 PROVE FALSE
    OBVIOUS
  <2>1. p * m >= 2 * m
    BY Z3
  <2> QED BY <1>1, <2>1
<1>3. ~(p <= 0)
  <2> SUFFICES ASSUME p <= 0 PROVE FALSE
    OBVIOUS
  <2>1. p * m <= 0
    BY Z3
  <2> QED BY <1>1, <2>1
<1>4. p = 1
  BY <1>2, <1>3
<1> QED BY <1>1, <1>4

-----------------------------------------------------------------------------
(* The sum of a sequence of words.                                          *)
SumsTo(f, words, n) ==
    /\ f \in [0..n -> Nat] /\ f[0] = 0
    /\ \A i \in 1..n : f[i] = f[i - 1] + words[i]

IsSums(f, words) == SumsTo(f, words, Len(words))

LEMMA SumsExist ==
  ASSUME NEW words \in Seq(Nat)
  PROVE  \E f : IsSums(f, words)
<1> DEFINE n == Len(words)
           S == {k \in Nat : k <= n => \E f : SumsTo(f, words, k)}
<1>1. n \in Nat
  OBVIOUS
<1>2. 0 \in S
  <2> DEFINE f == [i \in 0..0 |-> 0]
  <2>1. SumsTo(f, words, 0)
    BY DEF SumsTo
  <2> QED BY <2>1
<1>3. ASSUME NEW k \in Nat, k \in S PROVE k + 1 \in S
  <2> SUFFICES ASSUME k + 1 <= n PROVE \E f : SumsTo(f, words, k + 1)
    OBVIOUS
  <2>1. PICK g : SumsTo(g, words, k)
    BY <1>1, <1>3
  <2> DEFINE f == [i \in 0..(k + 1) |-> IF i = k + 1 THEN g[k] + words[k + 1] ELSE g[i]]
  <2>2. words[k + 1] \in Nat
    BY <1>1
  <2>3. f \in [0..(k + 1) -> Nat] /\ f[0] = 0
    BY <2>1, <2>2 DEF SumsTo
  <2>4. ASSUME NEW i \in 1..(k + 1) PROVE f[i] = f[i - 1] + words[i]
    <3>1. i - 1 \in 0..k /\ i - 1 \in 0..(k + 1) /\ i \in 0..(k + 1)
      OBVIOUS
    <3>2. f[i - 1] = g[i - 1]
      BY <3>1
    <3>3. CASE i = k + 1
      BY <3>1, <3>2, <3>3
    <3>4. CASE i # k + 1
      <4>1. f[i] = g[i] /\ i \in 1..k
        BY <3>1, <3>4
      <4> QED BY <2>1, <3>2, <4>1 DEF SumsTo
    <3> QED BY <3>3, <3>4
  <2>5. SumsTo(f, words, k + 1)
    BY <2>3, <2>4 DEF SumsTo
  <2> QED BY <2>5
<1> HIDE DEF S
<1>4. n \in S
  BY <1>1, <1>2, <1>3, SetInduction
<1>5. PICK f : SumsTo(f, words, n)
  BY <1>1, <1>4 DEF S
<1> QED BY <1>5 DEF IsSums, SumsTo

LEMMA SumIs ==
  ASSUME NEW words \in Seq(Nat), NEW f, IsSums(f, words)
  PROVE  WordSum(words) = f[Len(words)]
<1> DEFINE n == Len(words)
           F(h) == [i \in 0..n |-> IF i = 0 THEN 0 ELSE h[i - 1] + words[i]]
           g == CHOOSE h : h = F(h)
<1>1. n \in Nat
  OBVIOUS
<1>2. WordSum(words) = g[n]
  BY DEF WordSum
<1>3. f = F(f)
  <2>1. ASSUME NEW i \in 0..n PROVE f[i] = IF i = 0 THEN 0 ELSE f[i - 1] + words[i]
    <3>1. i = 0 \/ i \in 1..n
      OBVIOUS
    <3> QED BY <3>1 DEF IsSums, SumsTo
  <2> QED BY <2>1 DEF IsSums, SumsTo
<1>4. g = F(g)
  BY <1>3
<1> HIDE DEF g
<1> DEFINE S == {i \in Nat : i \in 0..n => g[i] = f[i]}
<1>5. 0 \in S
  <2>1. g[0] = 0
    BY <1>1, <1>4
  <2> QED BY <2>1 DEF IsSums, SumsTo
<1>6. ASSUME NEW i \in Nat, i \in S PROVE i + 1 \in S
  <2> SUFFICES ASSUME i + 1 \in 0..n PROVE g[i + 1] = f[i + 1]
    OBVIOUS
  <2>1. i \in 0..n /\ i + 1 \in 1..n /\ i + 1 # 0 /\ (i + 1) - 1 = i
    BY <1>1
  <2>2. g[i + 1] = g[i] + words[i + 1]
    BY <1>4, <2>1
  <2>3. f[i + 1] = f[i] + words[i + 1]
    BY <2>1 DEF IsSums, SumsTo
  <2> QED BY <1>6, <2>1, <2>2, <2>3
<1> HIDE DEF S
<1>7. n \in S
  BY <1>1, <1>5, <1>6, SetInduction
<1> QED BY <1>1, <1>2, <1>7 DEF S

(* Its bound, for words of at most m.                                       *)
LEMMA SumBound ==
  ASSUME NEW m \in Nat, NEW words \in Seq(0..m)
  PROVE  WordSum(words) \in Nat /\ WordSum(words) <= Len(words) * m
<1> DEFINE n == Len(words)
<1>1. n \in Nat /\ words \in Seq(Nat)
  OBVIOUS
<1>2. PICK f : IsSums(f, words)
  BY <1>1, SumsExist
<1> DEFINE S == {i \in Nat : i \in 0..n => f[i] <= i * m}
<1>3. 0 \in S
  BY <1>2 DEF IsSums, SumsTo
<1>4. ASSUME NEW i \in Nat, i \in S PROVE i + 1 \in S
  <2> SUFFICES ASSUME i + 1 \in 0..n PROVE f[i + 1] <= (i + 1) * m
    OBVIOUS
  <2>1. i \in 0..n /\ i + 1 \in 1..n /\ (i + 1) - 1 = i
    BY <1>1
  <2>2. f[i + 1] = f[i] + words[i + 1] /\ f[i] \in Nat
    BY <1>2, <2>1 DEF IsSums, SumsTo
  <2>5. words[i + 1] \in 0..m
    BY <2>1
  <2>3. f[i] <= i * m
    BY <1>4, <2>1
  <2>4. (i + 1) * m = i * m + m
    BY Z3
  <2> QED BY <2>2, <2>3, <2>4, <2>5
<1> HIDE DEF S
<1>5. n \in S
  BY <1>1, <1>3, <1>4, SetInduction
<1>6. f[n] \in Nat /\ f[n] <= n * m
  BY <1>1, <1>2, <1>5 DEF S, IsSums, SumsTo
<1> QED BY <1>1, <1>2, <1>6, SumIs

LEMMA SumAppended ==
  ASSUME NEW words \in Seq(Nat), NEW c \in Nat
  PROVE  WordSum(Append(words, c)) = WordSum(words) + c
<1> DEFINE n == Len(words)
           v == Append(words, c)
<1>1. n \in Nat /\ v \in Seq(Nat) /\ Len(v) = n + 1 /\ v[n + 1] = c /\ \A i \in 1..n : v[i] = words[i]
  OBVIOUS
<1>2. PICK f : IsSums(f, words)
  BY SumsExist
<1>3. f \in [0..n -> Nat] /\ f[0] = 0 /\ \A i \in 1..n : f[i] = f[i - 1] + words[i]
  BY <1>2 DEF IsSums, SumsTo
<1> DEFINE g == [i \in 0..(n + 1) |-> IF i = n + 1 THEN f[n] + c ELSE f[i]]
<1> HIDE DEF v, n
<1>4. g \in [0..(n + 1) -> Nat] /\ g[0] = 0
  BY <1>1, <1>3, SMTT(30)
<1>5. ASSUME NEW i \in 1..(n + 1) PROVE g[i] = g[i - 1] + v[i]
  <2>1. i - 1 \in 0..n /\ i - 1 # n + 1 /\ i - 1 \in 0..(n + 1) /\ i \in 0..(n + 1)
    BY <1>1
  <2>2. g[i - 1] = f[i - 1]
    BY <2>1
  <2>3. CASE i = n + 1
    <3>1. g[i] = f[n] + c /\ i - 1 = n
      BY <1>1, <2>1, <2>3
    <3> QED BY <1>1, <2>2, <2>3, <3>1
  <2>4. CASE i # n + 1
    <3>1. g[i] = f[i] /\ i \in 1..n
      BY <1>1, <2>1, <2>4
    <3> QED BY <1>1, <1>3, <2>2, <3>1
  <2> QED BY <2>3, <2>4
<1>6. IsSums(g, v)
  BY <1>1, <1>4, <1>5 DEF IsSums, SumsTo
<1>7. WordSum(v) = g[n + 1]
  BY <1>1, <1>6, SumIs
<1>8. WordSum(words) = f[n]
  BY <1>2, SumIs DEF n
<1>9. g[n + 1] = f[n] + c
  BY <1>1
<1> QED BY <1>7, <1>8, <1>9 DEF v

(* Of two sequences that differ in one place.                               *)
Shifted(a, b, y, z) == b + y = a + z

LEMMA ShiftedBoth ==
  /\ \A a, b, x, y, z \in Nat : Shifted(a, b, y, z) => Shifted(a + x, b + x, y, z)
  /\ \A a, y, z \in Nat : Shifted(a + y, a + z, y, z)
BY DEF Shifted

LEMMA SumOther ==
  ASSUME NEW v \in Seq(Nat), NEW w \in Seq(Nat), Len(w) = Len(v), NEW k \in 1..Len(v),
         \A i \in 1..Len(v) : i # k => w[i] = v[i]
  PROVE  WordSum(w) + v[k] = WordSum(v) + w[k]
<1> DEFINE n == Len(v)
<1>1. n \in Nat
  OBVIOUS
<1>2. PICK f : IsSums(f, v)
  BY SumsExist
<1>3. PICK g : IsSums(g, w)
  BY SumsExist
<1>4. /\ f \in [0..n -> Nat] /\ f[0] = 0 /\ \A i \in 1..n : f[i] = f[i - 1] + v[i]
      /\ g \in [0..n -> Nat] /\ g[0] = 0 /\ \A i \in 1..n : g[i] = g[i - 1] + w[i]
  BY <1>2, <1>3 DEF IsSums, SumsTo
<1> DEFINE S == {i \in Nat : i \in 0..n => IF i < k THEN g[i] = f[i] ELSE Shifted(f[i], g[i], v[k], w[k])}
<1>5. 0 \in S
  BY <1>4
<1>6. ASSUME NEW i \in Nat, i \in S PROVE i + 1 \in S
  <2> SUFFICES ASSUME i + 1 \in 0..n
               PROVE  IF i + 1 < k THEN g[i + 1] = f[i + 1] ELSE Shifted(f[i + 1], g[i + 1], v[k], w[k])
    OBVIOUS
  <2>1. i \in 0..n /\ i + 1 \in 1..n /\ (i + 1) - 1 = i
    BY <1>1
  <2>2. f[i + 1] = f[i] + v[i + 1] /\ g[i + 1] = g[i] + w[i + 1]
    BY <1>4, <2>1
  <2>3. IF i < k THEN g[i] = f[i] ELSE Shifted(f[i], g[i], v[k], w[k])
    BY <1>6, <2>1
  <2>4. f[i] \in Nat /\ g[i] \in Nat
    BY <1>4, <2>1
  <2>5. v[i + 1] \in Nat /\ w[i + 1] \in Nat
    BY <2>1, SMTT(30)
  <2>6. v[k] \in Nat /\ w[k] \in Nat
    BY SMTT(30)
  <2>7. i + 1 # k => w[i + 1] = v[i + 1]
    BY <2>1
  <2>8. CASE i + 1 < k
    <3>1. g[i] = f[i] /\ w[i + 1] = v[i + 1]
      BY <2>3, <2>7, <2>8
    <3> QED BY <2>2, <2>8, <3>1
  <2>9. CASE i + 1 = k
    <3>1. f[i + 1] = f[i] + v[k] /\ g[i + 1] = f[i] + w[k]
      BY <2>2, <2>3, <2>9
    <3>2. Shifted(f[i] + v[k], f[i] + w[k], v[k], w[k])
      BY <2>4, <2>6, ShiftedBoth, Zenon
    <3>3. ~(i + 1 < k)
      BY <2>9
    <3> QED BY <3>1, <3>2, <3>3, Zenon
  <2>10. CASE i + 1 > k
    <3>1. Shifted(f[i], g[i], v[k], w[k]) /\ w[i + 1] = v[i + 1]
      BY <2>3, <2>7, <2>10
    <3>2. Shifted(f[i] + v[i + 1], g[i] + v[i + 1], v[k], w[k])
      BY <2>4, <2>5, <2>6, <3>1, ShiftedBoth, Zenon
    <3>3. ~(i + 1 < k)
      BY <1>1, <2>10
    <3> QED BY <2>2, <3>1, <3>2, <3>3, Zenon
  <2> QED BY <2>8, <2>9, <2>10
<1> HIDE DEF S
<1>7. n \in S
  BY <1>1, <1>5, <1>6, SetInduction
<1>8. g[n] + v[k] = f[n] + w[k]
  BY <1>1, <1>7 DEF S, Shifted
<1> QED BY <1>2, <1>3, <1>8, SumIs

-----------------------------------------------------------------------------
(* Checksums.  All folds of the sum leave a number below 2^Bits.            *)
FoldsTo(f, x, n) ==
    /\ f \in [0..n -> Nat] /\ f[0] = x
    /\ \A i \in 1..n : f[i] = FoldOnce(f[i - 1])

LEMMA FoldFacts ==
  ASSUME NEW x \in Nat
  PROVE  /\ FoldOnce(x) \in Nat
         /\ FoldOnce(x) = 0 <=> x = 0
         /\ Multiple(x - FoldOnce(x), 2^Bits - 1)
         /\ \A m \in Nat : m >= 1 /\ x <= m * (2^Bits - 1) =>
                /\ \/ FoldOnce(x) <= 2^Bits - 1
                   \/ m >= 2 /\ FoldOnce(x) <= (m - 1) * (2^Bits - 1)
                /\ FoldOnce(x) <= (2^Bits - 1) + (m - 1)
<1> DEFINE b == 2^Bits
           y == (x % b) + (x \div b)
<1>1. b \in Nat /\ b > 1
  BY WordFacts
<1>2. FoldOnce(x) = y
  BY DEF FoldOnce
<1> HIDE DEF b
<1>3. /\ y \in Nat
      /\ y = 0 <=> x = 0
      /\ Multiple(x - y, b - 1)
      /\ \A m \in Nat : m >= 1 /\ x <= m * (b - 1) =>
             /\ y <= b - 1 \/ (m >= 2 /\ y <= (m - 1) * (b - 1))
             /\ y <= (b - 1) + (m - 1)
  BY <1>1, FoldedOnce, Zenon
<1> HIDE DEF y
<1> QED BY <1>2, <1>3, Zenon DEF b

LEMMA FoldsExist ==
  ASSUME NEW x \in Nat, NEW n \in Nat
  PROVE  \E f : FoldsTo(f, x, n)
<1> DEFINE S == {k \in Nat : \E f : FoldsTo(f, x, k)}
<1>1. 0 \in S
  <2> DEFINE f == [i \in 0..0 |-> x]
  <2>1. FoldsTo(f, x, 0)
    BY DEF FoldsTo
  <2> QED BY <2>1
<1>2. ASSUME NEW k \in Nat, k \in S PROVE k + 1 \in S
  <2>1. PICK g : FoldsTo(g, x, k)
    BY <1>2
  <2> DEFINE f == [i \in 0..(k + 1) |-> IF i = k + 1 THEN FoldOnce(g[k]) ELSE g[i]]
  <2>2. FoldOnce(g[k]) \in Nat
    BY <2>1, FoldFacts DEF FoldsTo
  <2>3. f \in [0..(k + 1) -> Nat] /\ f[0] = x
    BY <2>1, <2>2 DEF FoldsTo
  <2>4. ASSUME NEW i \in 1..(k + 1) PROVE f[i] = FoldOnce(f[i - 1])
    <3>1. i - 1 \in 0..k /\ i - 1 \in 0..(k + 1) /\ i \in 0..(k + 1)
      OBVIOUS
    <3>2. f[i - 1] = g[i - 1]
      BY <3>1
    <3>3. CASE i = k + 1
      BY <3>1, <3>2, <3>3
    <3>4. CASE i # k + 1
      <4>1. f[i] = g[i] /\ i \in 1..k
        BY <3>1, <3>4
      <4> QED BY <2>1, <3>2, <4>1 DEF FoldsTo
    <3> QED BY <3>3, <3>4
  <2>5. FoldsTo(f, x, k + 1)
    BY <2>3, <2>4 DEF FoldsTo
  <2> QED BY <2>5
<1> HIDE DEF S
<1>3. n \in S
  BY <1>1, <1>2, SetInduction
<1> QED BY <1>3 DEF S

LEMMA FoldsAre ==
  ASSUME NEW words \in Seq(Nat), WordSum(words) \in Nat, NEW f, FoldsTo(f, WordSum(words), Len(words))
  PROVE  IpCsum(words) = Complement(f[Len(words)])
<1> DEFINE n == Len(words)
           F(h) == [i \in 0..n |-> IF i = 0 THEN WordSum(words) ELSE FoldOnce(h[i - 1])]
           g == CHOOSE h : h = F(h)
<1>1. n \in Nat
  OBVIOUS
<1>2. IpCsum(words) = Complement(g[n])
  BY DEF IpCsum
<1>3. f = F(f)
  <2>1. ASSUME NEW i \in 0..n PROVE f[i] = IF i = 0 THEN WordSum(words) ELSE FoldOnce(f[i - 1])
    <3>1. i = 0 \/ i \in 1..n
      OBVIOUS
    <3> QED BY <3>1 DEF FoldsTo
  <2> QED BY <2>1 DEF FoldsTo
<1>4. g = F(g)
  BY <1>3
<1> HIDE DEF g
<1> DEFINE S == {i \in Nat : i \in 0..n => g[i] = f[i]}
<1>5. 0 \in S
  <2>1. g[0] = WordSum(words)
    BY <1>1, <1>4
  <2> QED BY <2>1 DEF FoldsTo
<1>6. ASSUME NEW i \in Nat, i \in S PROVE i + 1 \in S
  <2> SUFFICES ASSUME i + 1 \in 0..n PROVE g[i + 1] = f[i + 1]
    OBVIOUS
  <2>1. i \in 0..n /\ i + 1 \in 1..n /\ i + 1 # 0 /\ (i + 1) - 1 = i
    BY <1>1
  <2>2. g[i + 1] = FoldOnce(g[i])
    BY <1>4, <2>1
  <2>3. f[i + 1] = FoldOnce(f[i])
    BY <2>1 DEF FoldsTo
  <2> QED BY <1>6, <2>1, <2>2, <2>3
<1> HIDE DEF S
<1>7. n \in S
  BY <1>1, <1>5, <1>6, SetInduction
<1> QED BY <1>1, <1>2, <1>7 DEF S

LEMMA CsumIs ==
  ASSUME NEW words \in Seq(Word)
  PROVE  /\ WordSum(words) \in Nat
         /\ \E x \in 0..(2^Bits - 1) : /\ IpCsum(words) = 2^Bits - 1 - x
                                       /\ x = 0 <=> WordSum(words) = 0
                                       /\ Multiple(WordSum(words) - x, 2^Bits - 1)
<1> DEFINE b == 2^Bits
           m == b - 1
           n == Len(words)
           sum == WordSum(words)
<1>1. b \in Nat /\ b > 6 /\ m \in Nat /\ m > 0 /\ n \in Nat /\ Word = 0..m
  BY WordFacts
<1>2. words \in Seq(Nat)
  BY <1>1
<1> HIDE DEF b
<1>3. sum \in Nat /\ sum <= n * m
  BY <1>1, SumBound
<1>4. PICK f : FoldsTo(f, sum, n)
  BY <1>1, <1>3, FoldsExist
<1>5. IpCsum(words) = Complement(f[n])
  BY <1>2, <1>3, <1>4, FoldsAre
<1> HIDE DEF sum, n
(* After i folds: congruent, 0 only if the sum is, and bounded.             *)
<1> DEFINE Bounded(x, i) == x <= m \/ (n - i >= 1 /\ x <= (n - i) * m)
           S == {i \in Nat : i \in 0..n => /\ f[i] = 0 <=> sum = 0
                                           /\ Multiple(sum - f[i], m)
                                           /\ Bounded(f[i], i)}
<1>6. f \in [0..n -> Nat] /\ f[0] = sum /\ \A i \in 1..n : f[i] = FoldOnce(f[i - 1])
  BY <1>4 DEF FoldsTo
<1>7. 0 \in S
  <2>1. sum - f[0] = 0 * m
    BY <1>1, <1>3, <1>6
  <2>2. Multiple(sum - f[0], m)
    BY <2>1 DEF Multiple
  <2>3. Bounded(f[0], 0)
    <3>1. CASE n = 0
      <4>1. n * m = 0
        BY <1>1, <3>1
      <4> QED BY <1>1, <1>3, <1>6, <4>1
    <3>2. CASE n # 0
      BY <1>1, <1>3, <1>6, <3>2
    <3> QED BY <3>1, <3>2
  <2> HIDE DEF Bounded
  <2> QED BY <1>6, <2>2, <2>3
<1>8. ASSUME NEW i \in Nat, i \in S PROVE i + 1 \in S
  <2> SUFFICES ASSUME i + 1 \in 0..n
               PROVE  /\ f[i + 1] = 0 <=> sum = 0
                      /\ Multiple(sum - f[i + 1], m)
                      /\ Bounded(f[i + 1], i + 1)
    OBVIOUS
  <2>1. i \in 0..n /\ i + 1 \in 1..n /\ (i + 1) - 1 = i /\ n - i \in Nat /\ n - i >= 1
    BY <1>1
  <2>2. f[i + 1] = FoldOnce(f[i]) /\ f[i] \in Nat
    BY <1>6, <2>1
  <2>3. f[i] = 0 <=> sum = 0
    BY <1>8, <2>1
  <2>4. Multiple(sum - f[i], m)
    BY <1>8, <2>1
  <2>5. Bounded(f[i], i)
    BY <1>8, <2>1
  <2> DEFINE x == f[i]
             y == FoldOnce(x)
  <2>6. x \in Nat /\ y \in Nat
    BY <2>2, FoldFacts
  <2>7. y = 0 <=> x = 0
    BY <2>2, FoldFacts
  <2>8. Multiple(x - y, m)
    BY <2>2, FoldFacts DEF b
  <2>9. \A k \in Nat : k >= 1 /\ x <= k * m => y <= m \/ (k >= 2 /\ y <= (k - 1) * m)
    BY <2>2, FoldFacts DEF b
  <2> HIDE DEF x, y
  <2>10. Multiple(sum - y, m)
    <3>1. sum - x \in Int /\ x - y \in Int /\ (sum - x) + (x - y) = sum - y
      BY <1>3, <2>6 DEF sum
    <3>2. Multiple(sum - x, m)
      BY <2>4 DEF x
    <3>3. Multiple((sum - x) + (x - y), m)
      BY <1>1, <3>1, <3>2, <2>8, MultipleSum
    <3> QED BY <3>1, <3>3
  <2>11. Bounded(y, i + 1)
    <3>1. CASE x <= m
      <4>1. x <= 1 * m
        BY <1>1, <3>1
      <4>2. y <= m \/ (1 >= 2 /\ y <= (1 - 1) * m)
        BY <2>9, <4>1
      <4> QED BY <4>2
    <3>2. CASE x <= (n - i) * m
      <4>1. y <= m \/ ((n - i) >= 2 /\ y <= ((n - i) - 1) * m)
        BY <2>1, <2>9, <3>2
      <4>2. (n - i) - 1 = n - (i + 1)
        BY <1>1
      <4> QED BY <1>1, <2>1, <4>1, <4>2
    <3> QED BY <2>5, <3>1, <3>2 DEF x
  <2> HIDE DEF Bounded
  <2> QED BY <2>2, <2>3, <2>7, <2>10, <2>11 DEF x, y
<1> HIDE DEF S
<1>9. n \in S
  BY <1>1, <1>7, <1>8, SetInduction
<1>10. f[n] \in 0..m /\ (f[n] = 0 <=> sum = 0) /\ Multiple(sum - f[n], m)
  BY <1>1, <1>6, <1>9 DEF S
<1>11. Complement(f[n]) = m - f[n]
  <2>1. f[n] \in 0..(b - 1)
    BY <1>10
  <2>2. f[n] % b = f[n]
    BY <1>1, <2>1, ModNear, SMTT(30)
  <2> QED BY <2>2 DEF Complement, b
<1> QED BY <1>3, <1>5, <1>10, <1>11 DEF sum, b

LEMMA IpCsumFacts ==
  ASSUME NEW words \in Seq(Word)
  PROVE  /\ IpCsum(words) \in Word
         /\ IpCsum(words) = 0 <=> Valid(words)
<1> DEFINE m == 2^Bits - 1
           sum == WordSum(words)
<1>1. m \in Nat /\ m > 0 /\ Word = 0..m
  BY WordFacts
<1>2. sum \in Nat
  BY CsumIs
<1>3. PICK x \in 0..m : IpCsum(words) = m - x /\ (x = 0 <=> sum = 0) /\ Multiple(sum - x, m)
  BY CsumIs
<1> HIDE DEF m, sum
<1>4. Valid(words) <=> sum # 0 /\ Multiple(sum, m)
  <2>1. Valid(words) <=> sum # 0 /\ sum % m = 0
    BY DEF Valid, sum, m
  <2>2. Multiple(sum, m) <=> sum % m = 0
    BY <1>1, <1>2, MultipleMod
  <2> QED BY <2>1, <2>2
<1>5. IpCsum(words) = 0 <=> x = m
  BY <1>1, <1>3
<1>6. ASSUME x = m PROVE sum # 0 /\ Multiple(sum, m)
  <2>1. m = 1 * m
    BY <1>1
  <2>2. Multiple(m, m)
    BY <2>1 DEF Multiple
  <2>3. Multiple((sum - m) + m, m)
    BY <1>1, <1>2, <1>3, <1>6, <2>2, MultipleSum
  <2>4. (sum - m) + m = sum
    BY <1>1, <1>2
  <2> QED BY <1>1, <1>3, <1>6, <2>3, <2>4
<1>7. ASSUME sum # 0, Multiple(sum, m) PROVE x = m
  <2>1. x # 0 /\ x \in Int /\ x > 0 /\ x < 2 * m
    BY <1>1, <1>3, <1>7
  <2>2. Multiple(sum - (sum - x), m)
    BY <1>1, <1>2, <1>3, <1>7, MultipleSum
  <2>3. sum - (sum - x) = x
    BY <1>1, <1>2, <1>3
  <2>4. Multiple(x, m)
    BY <2>2, <2>3
  <2> QED BY <1>1, <2>1, <2>4, MultipleWithin
<1>8. IpCsum(words) \in Word
  BY <1>1, <1>3
<1> QED BY <1>4, <1>5, <1>6, <1>7, <1>8

(* A sum that the complement of what is congruent to it is added to is valid. *)
LEMMA Completed ==
  ASSUME NEW m \in Nat, m > 0, NEW sum \in Nat, NEW x \in 0..m,
         x = 0 <=> sum = 0, Multiple(sum - x, m)
  PROVE  sum + (m - x) # 0 /\ Multiple(sum + (m - x), m)
<1>1. m = 1 * m
  OBVIOUS
<1>2. Multiple(m, m)
  BY <1>1 DEF Multiple
<1>3. Multiple((sum - x) + m, m)
  BY <1>2, MultipleSum
<1>4. (sum - x) + m = sum + (m - x)
  OBVIOUS
<1>5. sum + (m - x) # 0
  OBVIOUS
<1> QED BY <1>3, <1>4, <1>5

(* What is sent with the checksum of the rest is valid.                     *)
LEMMA CsumCompletes ==
  ASSUME NEW v \in Seq(Word), NEW w \in Seq(Word), Len(w) = Len(v), NEW k \in 1..Len(v),
         \A i \in 1..Len(v) : i # k => w[i] = v[i],
         v[k] = 0, w[k] = IpCsum(v)
  PROVE  Valid(w)
<1> DEFINE m == 2^Bits - 1
           sum == WordSum(v)
<1>1. m \in Nat /\ m > 0 /\ Word = 0..m
  BY WordFacts
<1>2. sum \in Nat
  BY CsumIs
<1>3. PICK x \in 0..m : IpCsum(v) = m - x /\ (x = 0 <=> sum = 0) /\ Multiple(sum - x, m)
  BY CsumIs
<1>4. WordSum(w) = sum + (m - x)
  <2>1. v \in Seq(Nat) /\ w \in Seq(Nat)
    BY <1>1
  <2>2. WordSum(w) + v[k] = sum + w[k]
    BY <2>1, SumOther
  <2>3. WordSum(w) \in Nat
    BY CsumIs
  <2> QED BY <1>1, <1>2, <1>3, <2>2, <2>3
<1> HIDE DEF m, sum
<1>5. sum + (m - x) # 0 /\ Multiple(sum + (m - x), m)
  BY <1>1, <1>2, <1>3, Completed
<1>6. WordSum(w) # 0 /\ Multiple(WordSum(w), m)
  BY <1>4, <1>5
<1>7. WordSum(w) \in Nat
  BY CsumIs
<1>8. WordSum(w) % m = 0
  BY <1>1, <1>6, <1>7, MultipleMod
<1> QED BY <1>6, <1>8 DEF Valid, m

(* UDP folds once.                                                          *)
LEMMA UdpCsumCompletes ==
  ASSUME NEW words \in Seq(Word)
  PROVE  /\ UdpCsum(words) \in Word
         /\ FoldOnce(WordSum(words)) < 2^Bits => Valid(Append(words, UdpCsum(words)))
<1> DEFINE b == 2^Bits
           m == b - 1
           sum == WordSum(words)
           x == FoldOnce(sum)
           c == UdpCsum(words)
<1>1. b \in Nat /\ b > 6 /\ m \in Nat /\ m > 0 /\ Word = 0..m
  BY WordFacts
<1>2. sum \in Nat
  BY CsumIs
<1>3. x \in Nat /\ (x = 0 <=> sum = 0) /\ Multiple(sum - x, m)
  BY <1>2, FoldFacts
<1>4. c = b - 1 - (x % b)
  BY DEF UdpCsum, Complement
<1> HIDE DEF b, sum, x, c
<1>5. x % b \in 0..(b - 1)
  BY <1>1, <1>3, Quotient
<1>6. c \in Word
  BY <1>1, <1>4, <1>5
<1>7. ASSUME x < b PROVE Valid(Append(words, c))
  <2>1. x \in 0..(b - 1)
    BY <1>1, <1>3, <1>7
  <2>8. b > 0
    BY <1>1
  <2>9. x % b = x
    BY <1>1, <2>1, <2>8, ModNear, Zenon
  <2>2. c = m - x
    BY <1>1, <1>4, <2>1, <2>9
  <2>3. words \in Seq(Nat) /\ c \in Nat
    BY <1>1, <1>6
  <2>4. WordSum(Append(words, c)) = sum + c
    BY <2>3, SumAppended DEF sum
  <2>5. sum + (m - x) # 0 /\ Multiple(sum + (m - x), m)
    BY <1>1, <1>2, <1>3, <2>1, Completed
  <2>6. sum + (m - x) \in Int
    BY <1>1, <1>2, <2>1
  <2>7. (sum + (m - x)) % m = 0
    BY <1>1, <2>5, <2>6, MultipleMod
  <2> QED BY <2>2, <2>4, <2>5, <2>7 DEF Valid, b
<1> QED BY <1>6, <1>7 DEF b, c, x, sum

LEMMA UdpCsumTakes ==
  ASSUME NEW words \in Seq(Word), Len(words) < 2^Bits, Valid(words)
  PROVE  UdpCsum(words) = 0
<1> DEFINE b == 2^Bits
           m == b - 1
           n == Len(words)
           sum == WordSum(words)
           x == FoldOnce(sum)
<1>1. b \in Nat /\ b > 6 /\ m \in Nat /\ m > 0 /\ Word = 0..m /\ n \in Nat /\ n <= m
  BY WordFacts
<1>2. sum \in Nat /\ sum <= n * m
  BY <1>1, SumBound
<1>3. /\ x \in Nat /\ (x = 0 <=> sum = 0) /\ Multiple(sum - x, m)
      /\ n >= 1 /\ sum <= n * m => x <= m + (n - 1)
  BY <1>1, <1>2, FoldFacts
<1>4. UdpCsum(words) = b - 1 - (x % b)
  BY DEF UdpCsum, Complement
<1>5. sum # 0 /\ sum % m = 0
  BY DEF Valid
<1> HIDE DEF b, sum, x, n
<1>6. n >= 1
  <2> SUFFICES ASSUME n = 0 PROVE FALSE
    BY <1>1
  <2>1. n * m = 0
    BY <1>1
  <2> QED BY <1>2, <1>5, <2>1
<1>7. x > 0 /\ x < 2 * m
  BY <1>1, <1>2, <1>3, <1>5, <1>6
<1>8. Multiple(x, m)
  <2>1. Multiple(sum, m)
    BY <1>1, <1>2, <1>5, MultipleMod
  <2>2. Multiple(sum - (sum - x), m)
    BY <1>1, <1>2, <1>3, <2>1, MultipleSum
  <2>3. sum - (sum - x) = x
    BY <1>2, <1>3
  <2> QED BY <2>2, <2>3
<1>9. x = m
  BY <1>1, <1>3, <1>7, <1>8, MultipleWithin
<1>10. x % b = m
  BY <1>1, <1>9, ModNear
<1> QED BY <1>1, <1>4, <1>10

-----------------------------------------------------------------------------
(* Routes                                                                   *)

(* Where one network is inside another, an address is no further from the start
   of the smaller one.                                                      *)
LEMMA Nested ==
  ASSUME NEW s \in Nat, s > 0, NEW t \in Nat, t > 0, t % s = 0, NEW x \in Nat
  PROVE  x % s <= x % t
<1>0. x \in Int
  OBVIOUS
<1> DEFINE y == x % t
<1>1. y \in 0..(t - 1)
  BY <1>0, Quotient, Zenon
<1>2. PICK q \in Int : x = q * t + y
  BY <1>0, Quotient, Zenon
<1>3. PICK p \in Int : t = p * s
  <2>1. Multiple(t, s)
    BY MultipleMod
  <2> QED BY <2>1 DEF Multiple
<1> DEFINE z == y % s
           r == x % s
<1>4. r \in 0..(s - 1)
  BY <1>0, Quotient, Zenon
<1>5. PICK k \in Int : x = k * s + r
  BY <1>0, Quotient, Zenon
<1> HIDE DEF y
<1>6. y \in Int
  BY <1>1
<1>7. z \in 0..(s - 1)
  BY <1>6, Quotient, Zenon
<1>8. PICK j \in Int : y = j * s + z
  BY <1>6, Quotient, Zenon
<1> HIDE DEF r, z
<1>9. r = z
  <2>1. q * t = q * (p * s)
    BY <1>3
  <2>2. q * (p * s) = (q * p) * s
    BY Z3
  <2>3. (q * p + j) * s = (q * p) * s + j * s
    BY Z3
  <2>4. x = (q * p + j) * s + z
    BY <1>1, <1>2, <1>7, <1>8, <2>1, <2>2, <2>3
  <2>5. q * p + j \in Int
    OBVIOUS
  <2>6. k * s + r = (q * p + j) * s + z
    BY <1>5, <2>4
  <2> DEFINE l == q * p + j
  <2> HIDE DEF l
  <2>7. l \in Int /\ k * s + r = l * s + z
    BY <2>5, <2>6 DEF l
  <2>8. k = l /\ r = z
    BY <1>4, <1>7, <2>7, DivUnique, Z3
  <2> QED BY <2>8
<1>10. z <= y
  <2>1. j >= 0
    <3> SUFFICES ASSUME j <= 0 - 1 PROVE FALSE
      OBVIOUS
    <3>1. j * s <= (0 - 1) * s
      BY Z3
    <3> QED BY <1>1, <1>7, <1>8, <3>1
  <2>2. j * s >= 0
    BY <2>1, Z3
  <2> QED BY <1>1, <1>7, <1>8, <2>2
<1> QED BY <1>9, <1>10 DEF r, y

LEMMA MaskedFacts ==
  ASSUME NEW ip \in Word, NEW mask \in Word
  PROVE  /\ NetSize(mask) \in Nat /\ NetSize(mask) > 0
         /\ Masked(ip, mask) \in Word
         /\ Masked(ip, mask) = ip - (ip % NetSize(mask))
         /\ Masked(ip, mask) % NetSize(mask) = 0
<1> DEFINE s == NetSize(mask)
           r == ip % s
<1>1. s \in Nat /\ s > 0 /\ ip \in Nat /\ ip \in Int /\ Word = 0..(2^Bits - 1)
  BY WordFacts DEF NetSize
<1> HIDE DEF s
<1>2. r \in 0..(s - 1)
  BY <1>1, Quotient, Zenon
<1>3. PICK q \in Int : ip = q * s + r
  BY <1>1, Quotient, Zenon
<1> HIDE DEF r
<1>4. q >= 0
  <2> SUFFICES ASSUME q <= 0 - 1 PROVE FALSE
    OBVIOUS
  <2>1. q * s <= (0 - 1) * s
    BY <1>1, Z3
  <2> QED BY <1>1, <1>2, <1>3, <2>1
<1>5. ip - r = q * s /\ q * s \in Int
  BY <1>1, <1>2, <1>3
<1>6. q * s >= 0
  BY <1>1, <1>4, Z3
<1>7. ip - r \in Word
  BY <1>1, <1>2, <1>5, <1>6, WordFacts
<1>8. Multiple(ip - r, s) /\ ip - r \in Int
  BY <1>5 DEF Multiple
<1>9. (ip - r) % s = 0
  BY <1>1, <1>8, MultipleMod
<1> QED BY <1>1, <1>7, <1>9 DEF Masked, s, r

(* A route that is put in comes before all that it goes before.             *)
LEMMA RouteOrder ==
  ASSUME NEW r \in Routes, NEW s \in Routes, NEW t \in Routes, GoesBefore(r, s)
  PROVE  ~GoesBefore(s, r) /\ (~GoesBefore(t, s) => ~GoesBefore(t, r))
<1>1. \A x \in Routes : x.base \in Nat /\ x.mask \in Nat
  BY WordFacts DEF Routes
<1> DEFINE rb == r.base
           rm == r.mask
           sb == s.base
           sm == s.mask
           tb == t.base
           tm == t.mask
<1>2. rb \in Nat /\ rm \in Nat /\ sb \in Nat /\ sm \in Nat /\ tb \in Nat /\ tm \in Nat
  BY <1>1
<1>3. /\ GoesBefore(r, s) <=> rb > sb \/ (rb = sb /\ rm > sm)
      /\ GoesBefore(s, r) <=> sb > rb \/ (sb = rb /\ sm > rm)
      /\ GoesBefore(t, s) <=> tb > sb \/ (tb = sb /\ tm > sm)
      /\ GoesBefore(t, r) <=> tb > rb \/ (tb = rb /\ tm > rm)
  BY DEF GoesBefore
<1> HIDE DEF rb, rm, sb, sm, tb, tm
<1> QED BY <1>2, <1>3

IsInsertOf(b, c, k, x) ==
    /\ Len(c) = Len(b) + 1
    /\ \A i \in 1..Len(c) : c[i] = IF i < k THEN b[i] ELSE IF i = k THEN x ELSE b[i - 1]

LEMMA Joined ==
  ASSUME NEW S, NEW l \in Seq(S), NEW r \in Seq(S)
  PROVE  /\ l \o r \in Seq(S) /\ Len(l \o r) = Len(l) + Len(r)
         /\ \A i \in 1..(Len(l) + Len(r)) : (l \o r)[i] = IF i <= Len(l) THEN l[i] ELSE r[i - Len(l)]
BY ConcatProperties

LEMMA RoutePutIn ==
  ASSUME NEW S, NEW b \in Seq(S), NEW k \in 1..(Len(b) + 1), NEW x \in S
  PROVE  InsertAt(b, k, x) \in Seq(S) /\ IsInsertOf(b, InsertAt(b, k, x), k, x)
<1> DEFINE l == SubSeq(b, 1, k - 1)
           m == <<x>>
           r == SubSeq(b, k, Len(b))
           lm == l \o m
           c == lm \o r
<1>1. /\ l \in Seq(S) /\ Len(l) = k - 1 /\ \A i \in 1..(k - 1) : l[i] = b[i]
  OBVIOUS
<1>2. /\ r \in Seq(S) /\ Len(r) = Len(b) - k + 1 /\ \A i \in 1..(Len(b) - k + 1) : r[i] = b[k + i - 1]
  OBVIOUS
<1>3. m \in Seq(S) /\ Len(m) = 1 /\ m[1] = x
  OBVIOUS
<1> HIDE DEF l, m, r
<1>4. /\ lm \in Seq(S) /\ Len(lm) = Len(l) + Len(m)
      /\ \A i \in 1..(Len(l) + Len(m)) : lm[i] = IF i <= Len(l) THEN l[i] ELSE m[i - Len(l)]
  BY <1>1, <1>3, Joined, Zenon
<1> HIDE DEF lm
<1>5. Len(lm) = k /\ \A i \in 1..k : lm[i] = IF i < k THEN b[i] ELSE x
  <2>1. Len(lm) = k
    BY <1>1, <1>3, <1>4
  <2>2. ASSUME NEW i \in 1..k, i < k PROVE lm[i] = b[i]
    <3>1. i \in 1..(Len(l) + Len(m)) /\ i <= Len(l) /\ i \in 1..(k - 1)
      BY <1>1, <1>3, <2>2
    <3> QED BY <1>1, <1>4, <3>1
  <2>3. lm[k] = x
    <3>1. k \in 1..(Len(l) + Len(m)) /\ ~(k <= Len(l)) /\ k - Len(l) = 1
      BY <1>1, <1>3
    <3> QED BY <1>3, <1>4, <3>1
  <2> QED BY <2>1, <2>2, <2>3
<1>6. /\ c \in Seq(S) /\ Len(c) = Len(lm) + Len(r)
      /\ \A i \in 1..(Len(lm) + Len(r)) : c[i] = IF i <= Len(lm) THEN lm[i] ELSE r[i - Len(lm)]
  <2>1. lm \in Seq(S) /\ r \in Seq(S)
    BY <1>2, <1>4
  <2> QED BY <2>1, Joined, ZenonT(60)
<1> HIDE DEF c
<1>7. Len(c) = Len(b) + 1
  BY <1>2, <1>5, <1>6
<1>8. ASSUME NEW i \in 1..Len(c)
      PROVE  c[i] = IF i < k THEN b[i] ELSE IF i = k THEN x ELSE b[i - 1]
  <2>1. CASE i <= k
    BY <1>5, <1>6, <1>7, <2>1
  <2>2. CASE i > k
    <3>1. c[i] = r[i - k] /\ i - k \in 1..(Len(b) - k + 1) /\ k + (i - k) - 1 = i - 1
      BY <1>5, <1>6, <1>7, <2>2
    <3> QED BY <1>2, <2>2, <3>1
  <2> QED BY <2>1, <2>2
<1>9. InsertAt(b, k, x) = c
  BY DEF l, m, r, lm, c, InsertAt
<1> QED BY <1>6, <1>7, <1>8, <1>9 DEF IsInsertOf

-----------------------------------------------------------------------------
(* The table is typed, its bases are those of networks with masks that were
   asked for, and it is in descending order.                                *)
RouteOk(r) ==
    /\ r \in Routes /\ r.base % NetSize(r.mask) = 0
    /\ \E a \in RouteArgs : a.mask = r.mask

InOrder(seq) == \A i, j \in 1..Len(seq) : i < j => ~GoesBefore(seq[j], seq[i])

RouteInv ==
    /\ rtab \in Seq(Routes) /\ \A i \in 1..Len(rtab) : RouteOk(rtab[i])
    /\ routeNew \in [Adders -> {NoRoute} \cup Routes]
    /\ \A a \in Adders : routeNew[a] = NoRoute \/ RouteOk(routeNew[a])
    /\ InOrder(rtab)

LEMMA RouteInsertInOrder ==
  ASSUME NEW b \in Seq(Routes), InOrder(b), NEW c \in Seq(Routes), NEW r \in Routes,
         NEW k \in 1..(Len(b) + 1), IsInsertOf(b, c, k, r),
         \A i \in 1..Len(b) : i < k => ~GoesBefore(r, b[i]),
         k <= Len(b) => GoesBefore(r, b[k])
  PROVE  InOrder(c)
<1> SUFFICES ASSUME NEW i \in 1..Len(c), NEW j \in 1..Len(c), i < j PROVE ~GoesBefore(c[j], c[i])
  BY DEF InOrder
<1>1. /\ Len(b) \in Nat /\ Len(c) = Len(b) + 1
      /\ c[i] = IF i < k THEN b[i] ELSE IF i = k THEN r ELSE b[i - 1]
      /\ c[j] = IF j < k THEN b[j] ELSE IF j = k THEN r ELSE b[j - 1]
  <2>1. Len(b) \in Nat
    OBVIOUS
  <2>2. /\ Len(c) = Len(b) + 1
        /\ \A l \in 1..Len(c) : c[l] = IF l < k THEN b[l] ELSE IF l = k THEN r ELSE b[l - 1]
    BY DEF IsInsertOf
  <2> QED BY <2>1, <2>2, Zenon
<1>2. \A m, n \in 1..Len(b) : m < n => ~GoesBefore(b[n], b[m])
  BY DEF InOrder
<1>3. CASE j < k
  BY <1>1, <1>2, <1>3
<1>4. CASE j = k
  BY <1>1, <1>4
<1>5. CASE j > k /\ i < k
  <2>1. c[i] = b[i] /\ c[j] = b[j - 1] /\ i \in 1..Len(b) /\ j - 1 \in 1..Len(b) /\ i < j - 1
    BY <1>1, <1>5
  <2> QED BY <1>2, <2>1
<1>6. CASE i = k
  <2>1. c[i] = r /\ c[j] = b[j - 1] /\ j - 1 \in 1..Len(b) /\ k <= j - 1 /\ k \in 1..Len(b)
    BY <1>1, <1>6
  <2>2. GoesBefore(r, b[k]) /\ b[k] \in Routes /\ b[j - 1] \in Routes
    BY <2>1
  <2>3. CASE k = j - 1
    BY <2>1, <2>2, <2>3, RouteOrder
  <2>4. CASE k < j - 1
    <3>1. ~GoesBefore(b[j - 1], b[k])
      BY <1>2, <2>1, <2>4
    <3> QED BY <2>1, <2>2, <3>1, RouteOrder
  <2> QED BY <2>1, <2>3, <2>4
<1>7. CASE i > k
  <2>1. c[i] = b[i - 1] /\ c[j] = b[j - 1] /\ i - 1 \in 1..Len(b) /\ j - 1 \in 1..Len(b) /\ i - 1 < j - 1
    BY <1>1, <1>7
  <2> QED BY <1>2, <2>1
<1> QED BY <1>3, <1>4, <1>5, <1>6, <1>7

LEMMA LeastOf ==
  ASSUME NEW T \in SUBSET Nat, T # {}
  PROVE  Min(T) \in T /\ \A m \in T : Min(T) <= m
<1>1. \E n \in T : \A m \in T : n <= m
  BY LeastExists
<1> QED BY <1>1 DEF Min

LEMMA RouteInsertKeeps ==
  ASSUME RouteInv, NEW a \in Adders, RouteInsert(a)
  PROVE  RouteInv'
<1> DEFINE r == routeNew[a]
           later == {i \in 1..Len(rtab) : GoesBefore(r, rtab[i])}
           at == IF later = {} THEN Len(rtab) + 1 ELSE Min(later)
<1>1. r \in Routes /\ RouteOk(r) /\ rtab \in Seq(Routes) /\ Len(rtab) \in Nat /\ InOrder(rtab)
  BY DEF RouteInv, RouteInsert, RouteOk
<1>2. /\ at \in 1..(Len(rtab) + 1)
      /\ \A i \in 1..Len(rtab) : i < at => ~GoesBefore(r, rtab[i])
      /\ at <= Len(rtab) => GoesBefore(r, rtab[at])
  <2>1. CASE later = {}
    BY <1>1, <2>1
  <2>2. CASE later # {}
    <3>1. later \in SUBSET Nat
      OBVIOUS
    <3>2. Min(later) \in later /\ \A m \in later : Min(later) <= m
      BY <2>2, <3>1, LeastOf
    <3> DEFINE k == Min(later)
    <3>3. at = k
      BY <2>2
    <3> HIDE DEF k, at
    <3>4. k \in 1..Len(rtab) /\ GoesBefore(r, rtab[k])
      BY <3>2 DEF k
    <3>5. ASSUME NEW i \in 1..Len(rtab), i < k PROVE ~GoesBefore(r, rtab[i])
      BY <3>2, <3>4, <3>5 DEF k
    <3> QED BY <1>1, <3>3, <3>4, <3>5
  <2> QED BY <2>1, <2>2
<1>3. rtab' = InsertAt(rtab, at, r) /\ routeNew' = [routeNew EXCEPT ![a] = NoRoute]
  BY DEF RouteInsert
<1> HIDE DEF r, at, later
<1>4. rtab' \in Seq(Routes) /\ IsInsertOf(rtab, rtab', at, r)
  BY <1>1, <1>2, <1>3, RoutePutIn
<1>5. InOrder(rtab')
  BY <1>1, <1>2, <1>4, RouteInsertInOrder
<1>6. ASSUME NEW i \in 1..Len(rtab') PROVE RouteOk(rtab'[i])
  <2>1. Len(rtab') = Len(rtab) + 1 /\ rtab'[i] = IF i < at THEN rtab[i] ELSE IF i = at THEN r ELSE rtab[i - 1]
    BY <1>4 DEF IsInsertOf
  <2>2. \A j \in 1..Len(rtab) : RouteOk(rtab[j])
    BY DEF RouteInv
  <2>3. CASE i < at
    BY <1>1, <1>2, <2>1, <2>2, <2>3
  <2>4. CASE i = at
    BY <1>1, <2>1, <2>4
  <2>5. CASE i > at
    BY <1>1, <1>2, <2>1, <2>2, <2>5
  <2> QED BY <1>2, <2>3, <2>4, <2>5
<1>7. routeNew' \in [Adders -> {NoRoute} \cup Routes]
  BY <1>3 DEF RouteInv
<1>8. ASSUME NEW c \in Adders PROVE routeNew'[c] = NoRoute \/ RouteOk(routeNew'[c])
  BY <1>3 DEF RouteInv
<1> QED BY <1>4, <1>5, <1>6, <1>7, <1>8 DEF RouteInv, InOrder, RouteOk, GoesBefore

LEMMA RouteAddKeeps ==
  ASSUME RouteInv, NEW a \in Adders, NEW arg \in RouteArgs, RouteAddTest(a, arg)
  PROVE  RouteInv'
<1> DEFINE r == [arg EXCEPT !.base = Masked(arg.base, arg.mask)]
<1>1. arg \in Routes
  BY IpAssumption
<1>2. arg.base \in Word /\ arg.mask \in Word
  BY <1>1 DEF Routes
<1>3. Masked(arg.base, arg.mask) \in Word /\ Masked(arg.base, arg.mask) % NetSize(arg.mask) = 0
  BY <1>2, MaskedFacts
<1>4. r \in Routes /\ r.base = Masked(arg.base, arg.mask) /\ r.mask = arg.mask
  BY <1>1, <1>3 DEF Routes
<1>5. RouteOk(r)
  BY <1>3, <1>4 DEF RouteOk
<1>6. routeNew' = [routeNew EXCEPT ![a] = r] /\ rtab' = rtab
  BY DEF RouteAddTest
<1> HIDE DEF r
<1> QED BY <1>4, <1>5, <1>6 DEF RouteInv, InOrder, RouteOk, GoesBefore

(* The first route that matches, in a table in descending order, is the one with
   the longest mask.                                                        *)
LEMMA RouteFindIs ==
  ASSUME RouteInv, NEW ip \in Word, RouteMatches(ip) # {}
  PROVE  \E k \in RouteMatches(ip) : /\ RouteFind(ip) = rtab[k]
                                     /\ \A j \in RouteMatches(ip) : k <= j /\ ~GoesBefore(rtab[j], rtab[k])
<1> DEFINE T == RouteMatches(ip)
<1>1. T \subseteq 1..Len(rtab) /\ Len(rtab) \in Nat
  BY DEF RouteMatches, RouteInv
<1>2. RouteFind(ip) = rtab[Min(T)]
  BY DEF RouteFind
<1> HIDE DEF T
<1>3. T \in SUBSET Nat /\ T # {}
  BY <1>1 DEF T
<1>4. Min(T) \in T /\ \A m \in T : Min(T) <= m
  BY <1>3, LeastOf
<1> DEFINE k == Min(T)
<1> HIDE DEF k
<1>5. k \in T /\ \A m \in T : k <= m
  BY <1>4 DEF k
<1>6. ASSUME NEW j \in T PROVE ~GoesBefore(rtab[j], rtab[k])
  <2>1. CASE j = k
    <3>1. rtab[k] \in Routes
      BY <1>1, <1>5 DEF RouteInv
    <3>2. rtab[k].base \in Nat /\ rtab[k].mask \in Nat
      BY <3>1, WordFacts DEF Routes
    <3> QED BY <2>1, <3>2 DEF GoesBefore
  <2>2. CASE j # k
    <3>1. k < j /\ k \in 1..Len(rtab) /\ j \in 1..Len(rtab)
      BY <1>1, <1>5, <2>2
    <3> QED BY <3>1 DEF RouteInv, InOrder
  <2> QED BY <2>1, <2>2
<1> QED BY <1>2, <1>5, <1>6 DEF T, k

LEMMA RoutesLongest ==
  ASSUME RouteInv
  PROVE  RouteLongest
<1> SUFFICES ASSUME NEW ip \in Word, NEW j \in RouteMatches(ip)
             PROVE  RouteFind(ip).mask >= rtab[j].mask
  BY DEF RouteLongest
<1>1. PICK k \in RouteMatches(ip) : RouteFind(ip) = rtab[k] /\ ~GoesBefore(rtab[j], rtab[k])
  BY RouteFindIs
<1>2. j \in 1..Len(rtab) /\ k \in 1..Len(rtab)
  BY DEF RouteMatches
<1> DEFINE rm == rtab[j].mask
           rb == rtab[j].base
           sm == rtab[k].mask
           sb == rtab[k].base
           rn == NetSize(rm)
           sn == NetSize(sm)
<1>3. rm \in Word /\ rb \in Word /\ sm \in Word /\ sb \in Word
  <2>1. rtab[j] \in Routes /\ rtab[k] \in Routes
    BY <1>2 DEF RouteInv
  <2> QED BY <2>1 DEF Routes
<1>4. rb = Masked(ip, rm) /\ sb = Masked(ip, sm)
  BY DEF RouteMatches
<1>5. ~(rb > sb \/ (rb = sb /\ rm > sm))
  BY <1>1 DEF GoesBefore
<1>6. rn % sn = 0 \/ sn % rn = 0
  <2>1. PICK a \in RouteArgs : a.mask = rm
    BY <1>2 DEF RouteInv, RouteOk
  <2>2. PICK c \in RouteArgs : c.mask = sm
    BY <1>2 DEF RouteInv, RouteOk
  <2> QED BY <2>1, <2>2, IpAssumption
<1>7. rn = 2^Bits - rm /\ sn = 2^Bits - sm
  BY DEF NetSize
<1> HIDE DEF rm, rb, sm, sb
<1>8. rn \in Nat /\ rn > 0 /\ sn \in Nat /\ sn > 0 /\ rb = ip - (ip % rn) /\ sb = ip - (ip % sn)
  BY <1>3, <1>4, MaskedFacts
<1> HIDE DEF rn, sn
<1>9. SUFFICES ASSUME sm < rm PROVE FALSE
  BY <1>1, <1>3, WordFacts DEF rm, sm
<1>10. rn < sn
  BY <1>3, <1>7, <1>9, WordFacts
<1>11. ip \in Nat
  BY WordFacts
<1>12. sn % rn = 0
  <2>1. rn \in 0..(sn - 1)
    BY <1>8, <1>10
  <2>2. rn % sn = rn
    BY <1>8, <2>1, ModNear, Zenon
  <2> QED BY <1>6, <1>8, <2>2
<1>13. ip % rn <= ip % sn
  BY <1>8, <1>11, <1>12, Nested, Zenon
<1>14. ip % rn \in Nat /\ ip % sn \in Nat
  <2>1. ip % rn \in 0..(rn - 1)
    BY <1>8, <1>11, Quotient
  <2>2. ip % sn \in 0..(sn - 1)
    BY <1>8, <1>11, Quotient
  <2> QED BY <2>1, <2>2
<1>15. rb >= sb
  BY <1>8, <1>11, <1>13, <1>14
<1> QED BY <1>3, <1>5, <1>9, <1>15, WordFacts

-----------------------------------------------------------------------------
(* Packets                                                                  *)
LEMMA FirstWord ==
  ASSUME NEW n \in Nat
  PROVE  n % 2^Bits \in Word
<1> DEFINE b == 2^Bits
<1>1. b \in Nat /\ b > 0 /\ Word = 0..(b - 1)
  BY WordFacts
<1> HIDE DEF b
<1>2. n % b \in 0..(b - 1)
  BY <1>1, Quotient
<1> QED BY <1>1, <1>2 DEF b

(* Words behind words, the first of them at l.                             *)
LEMMA WordsBehind ==
  ASSUME NEW l \in Seq(Word), NEW d \in Seq(Word)
  PROVE  /\ l \o d \in Seq(Word) /\ Len(l \o d) = Len(l) + Len(d)
         /\ \A i \in 1..Len(l) : (l \o d)[i] = l[i]
         /\ \A i \in 1..(Len(l) + Len(d)) : i > Len(l) => (l \o d)[i] = d[i - Len(l)]
<1>1. Len(d) \in Nat /\ Len(l) \in Nat
  OBVIOUS
<1>2. /\ l \o d \in Seq(Word) /\ Len(l \o d) = Len(l) + Len(d)
      /\ \A i \in 1..(Len(l) + Len(d)) : (l \o d)[i] = IF i <= Len(l) THEN l[i] ELSE d[i - Len(l)]
  BY Joined, Zenon
<1>3. ASSUME NEW i \in 1..Len(l) PROVE (l \o d)[i] = l[i]
  <2>1. i \in 1..(Len(l) + Len(d)) /\ i <= Len(l)
    BY <1>1
  <2> QED BY <1>2, <2>1
<1>4. ASSUME NEW i \in 1..(Len(l) + Len(d)), i > Len(l) PROVE (l \o d)[i] = d[i - Len(l)]
  <2>1. ~(i <= Len(l))
    BY <1>1, <1>4
  <2> QED BY <1>2, <2>1
<1> QED BY <1>2, <1>3, <1>4

(* Packets with their options.                                              *)
WholePackets ==
    {p \in Packets : Len(p.opts) = (IF p.ihl > 5 THEN p.ihl - 5 ELSE 0) /\ Len(p.after) = Len(p.opts)}

LEMMA PacketWords ==
  ASSUME NEW p \in Packets
  PROVE  /\ HdrWords(p) \in Seq(Word) /\ Len(HdrWords(p)) = 6 + Len(p.opts)
         /\ p.data \o p.after \in Seq(Word)
         /\ IcmpSummed(p) \in Seq(Word)
<1>1. /\ p.ihl \in Nat /\ p.ttl \in Word /\ p.proto \in Word /\ p.src \in Word /\ p.dst \in Word
      /\ p.csum \in Word /\ p.type \in Word /\ p.icsum \in Word /\ p.data \in Seq(Word)
      /\ p.opts \in Seq(Word) /\ p.after \in Seq(Word)
  BY DEF Packets
<1>2. p.ihl % 2^Bits \in Word
  BY <1>1, FirstWord
<1>3. PICK l : l = <<p.ihl % 2^Bits, p.ttl, p.proto, p.csum, p.src, p.dst>>
  OBVIOUS
<1>8. l \in Seq(Word) /\ Len(l) = 6 /\ HdrWords(p) = l \o p.opts
  BY <1>1, <1>2, <1>3 DEF HdrWords
<1>9. l \o p.opts \in Seq(Word) /\ Len(l \o p.opts) = Len(l) + Len(p.opts)
  BY <1>1, <1>8, WordsBehind, Zenon
<1>4. HdrWords(p) \in Seq(Word) /\ Len(HdrWords(p)) = 6 + Len(p.opts)
  BY <1>8, <1>9
<1>5. p.data \o p.after \in Seq(Word)
  BY <1>1, Joined, Zenon
<1>6. <<p.type, p.icsum>> \in Seq(Word) /\ Len(<<p.type, p.icsum>>) = 2 /\ 2 \in Nat
  BY <1>1
<1>7. IcmpSummed(p) \in Seq(Word)
  BY <1>5, <1>6, WordsBehind, Zenon DEF IcmpSummed
<1> QED BY <1>4, <1>5, <1>7

(* What the check of a header sums, and that of an ICMP message.            *)
LEMMA SummedIs ==
  ASSUME NEW p \in WholePackets
  PROVE  /\ HdrSummed(p) \in Seq(Word)
         /\ p.ihl \in 5..7 => HdrSummed(p) = HdrWords(p)
         /\ p.ihl = 5 => IcmpSummed(p) = IcmpWords(p)
<1> DEFINE w == HdrWords(p)
           k == IF p.ihl % 8 = 0 THEN 0 ELSE UnitWords[p.ihl % 8]
<1>1. /\ p \in Packets /\ p.ihl \in 0..15 /\ Len(p.opts) = (IF p.ihl > 5 THEN p.ihl - 5 ELSE 0)
      /\ Len(p.after) = Len(p.opts) /\ p.after \in Seq(Word) /\ p.data \in Seq(Word)
  BY DEF WholePackets, Packets
<1>2. w \in Seq(Word) /\ Len(w) = 6 + Len(p.opts)
  BY <1>1, PacketWords
<1>3. HdrSummed(p) = SubSeq(w, 1, k)
  BY DEF HdrSummed
<1> HIDE DEF w
<1>4. k \in Nat /\ k <= 6 + Len(p.opts) /\ (p.ihl \in 5..7 => k = 6 + Len(p.opts))
  <2> DEFINE n == p.ihl
  <2>1. n \in 0..15 /\ Len(p.opts) = IF n > 5 THEN n - 5 ELSE 0
    BY <1>1
  <2>2. k = IF n % 8 = 0 THEN 0 ELSE UnitWords[n % 8]
    OBVIOUS
  <2> HIDE DEF n, k
  <2>3. n % 8 = IF n < 8 THEN n ELSE n - 8
    BY <2>1, Z3
  <2>4. /\ UnitWords[1] = 1 /\ UnitWords[2] = 1 /\ UnitWords[3] = 4 /\ UnitWords[4] = 5
        /\ UnitWords[5] = 6 /\ UnitWords[6] = 7 /\ UnitWords[7] = 8
    BY DEF UnitWords
  <2>5. k \in Nat /\ k <= 6 + Len(p.opts) /\ (n \in 5..7 => k = 6 + Len(p.opts))
    BY <2>1, <2>2, <2>3, <2>4
  <2> QED BY <2>5 DEF n
<1> HIDE DEF k
<1>5. SubSeq(w, 1, k) \in Seq(Word) /\ (k = Len(w) => SubSeq(w, 1, k) = w)
  BY <1>2, <1>4
<1>6. ASSUME p.ihl = 5 PROVE IcmpSummed(p) = IcmpWords(p)
  <2>1. Len(p.after) = 0
    BY <1>1, <1>6
  <2>2. p.after = <<>>
    BY <1>1, <2>1
  <2>3. p.data \o p.after = p.data
    BY <1>1, <2>2
  <2> QED BY <2>3 DEF IcmpSummed, IcmpWords
<1> QED BY <1>2, <1>3, <1>4, <1>5, <1>6 DEF w

(* An answer is valid, as far as it is summed.                              *)
LEMMA EchoReplyRight ==
  ASSUME NEW p \in WholePackets
  PROVE  /\ EchoReply(p).kind = "echo" /\ EchoReply(p).dst = p.src /\ EchoReply(p).data = p.data
         /\ p.ihl \in 5..7 => Valid(HdrWords(EchoReply(p)))
         /\ Valid(IcmpSummed(EchoReply(p)))
         /\ p.ihl = 5 => Valid(IcmpWords(EchoReply(p)))
<1> DEFINE h == [p EXCEPT !.type = ECHO_REPLY, !.icsum = 0, !.ttl = 6, !.src = p.dst, !.dst = p.src, !.csum = 0]
           q == [p EXCEPT !.kind = "echo", !.type = ECHO_REPLY, !.icsum = 0, !.ttl = 6,
                          !.src = p.dst, !.dst = p.src, !.csum = 0]
           ic == IpCsum(IcmpSummed(q))
           r == [q EXCEPT !.icsum = ic]
           hc == IpCsum(HdrSummed(r))
           e == EchoReply(p)
           ihl == p.ihl % 2^Bits
           d == p.data \o p.after
<1>1. /\ p.ihl \in 0..15 /\ p.ttl \in Word /\ p.proto \in Word /\ p.src \in Word /\ p.dst \in Word
      /\ p.csum \in Word /\ p.type \in Word /\ p.icsum \in Word /\ p.data \in Seq(Word)
      /\ p.opts \in Seq(Word) /\ p.after \in Seq(Word)
      /\ p.kind = "in" /\ p.version \in Nat
      /\ p \in Packets /\ Len(p.opts) = (IF p.ihl > 5 THEN p.ihl - 5 ELSE 0) /\ Len(p.after) = Len(p.opts)
  BY DEF WholePackets, Packets
<1>2. 0 \in Word /\ 6 \in Word
  BY WordFacts
<1>3. /\ h \in Packets /\ h.data = p.data /\ h.after = p.after /\ h.type = 0 /\ h.icsum = 0
      /\ h.ihl = p.ihl /\ h.opts = p.opts
  BY <1>1, <1>2 DEF Packets, ECHO_REPLY
<1>4. IcmpSummed(q) = IcmpSummed(h) /\ q.data = p.data
  BY DEF WholePackets, Packets, IcmpSummed
<1>5. ic \in Word
  <2>1. IcmpSummed(h) \in Seq(Word)
    BY <1>3, PacketWords
  <2> QED BY <1>4, <2>1, IpCsumFacts
<1> HIDE DEF ic
<1> DEFINE h2 == [h EXCEPT !.icsum = ic]
<1>6. /\ h2 \in Packets /\ h2.data = p.data /\ h2.after = p.after /\ h2.type = 0 /\ h2.icsum = ic
      /\ h2.ihl = p.ihl /\ h2.opts = p.opts
  BY <1>1, <1>2, <1>5 DEF Packets, ECHO_REPLY
<1>7. h2 \in WholePackets
  BY <1>1, <1>6 DEF WholePackets
<1>8. /\ HdrSummed(r) = HdrSummed(h2)
      /\ HdrWords(h2) = <<ihl, 6, p.proto, 0, p.dst, p.src>> \o p.opts
  BY DEF WholePackets, Packets, HdrSummed, HdrWords
<1>9. hc \in Word
  <2>1. HdrSummed(h2) \in Seq(Word)
    BY <1>7, SummedIs
  <2> QED BY <1>8, <2>1, IpCsumFacts
<1>10. p.ihl \in 5..7 => hc = IpCsum(HdrWords(h2))
  BY <1>6, <1>7, <1>8, SummedIs
<1> HIDE DEF hc
<1>11. e = [r EXCEPT !.csum = hc]
  BY DEF EchoReply, ic, hc
<1>12. /\ e.kind = "echo" /\ e.dst = p.src /\ e.data = p.data
       /\ HdrWords(e) = <<ihl, 6, p.proto, hc, p.dst, p.src>> \o p.opts
       /\ IcmpSummed(e) = IcmpSummed(h2) /\ IcmpWords(e) = IcmpWords(h2)
  BY <1>11 DEF WholePackets, Packets, HdrWords, IcmpSummed, IcmpWords
<1>13. ASSUME p.ihl \in 5..7 PROVE Valid(HdrWords(e))
  <2> DEFINE l == <<ihl, 6, p.proto, 0, p.dst, p.src>>
             m == <<ihl, 6, p.proto, hc, p.dst, p.src>>
             v == l \o p.opts
             w == m \o p.opts
             n == Len(p.opts)
  <2>1. l \in Seq(Word) /\ m \in Seq(Word) /\ Len(l) = 6 /\ Len(m) = 6 /\ 6 \in Nat /\ n \in Nat
    BY <1>1, <1>2, <1>9, FirstWord
  <2>2. l[4] = 0 /\ m[4] = hc /\ \A i \in 1..6 : i # 4 => m[i] = l[i]
    OBVIOUS
  <2>3. hc = IpCsum(v)
    BY <1>8, <1>10, <1>13
  <2> HIDE DEF l, m
  <2>4. /\ v \in Seq(Word) /\ Len(v) = Len(l) + n
        /\ \A i \in 1..Len(l) : v[i] = l[i]
        /\ \A i \in 1..(Len(l) + n) : i > Len(l) => v[i] = p.opts[i - Len(l)]
    BY <1>1, <2>1, WordsBehind, Zenon
  <2>5. /\ w \in Seq(Word) /\ Len(w) = Len(m) + n
        /\ \A i \in 1..Len(m) : w[i] = m[i]
        /\ \A i \in 1..(Len(m) + n) : i > Len(m) => w[i] = p.opts[i - Len(m)]
    BY <1>1, <2>1, WordsBehind, Zenon
  <2> HIDE DEF v, w
  <2>6. ASSUME NEW i \in 1..Len(v), i # 4 PROVE w[i] = v[i]
    <3>1. CASE i <= 6
      BY <2>1, <2>2, <2>4, <2>5, <2>6, <3>1
    <3>2. CASE i > 6
      <4>1. i \in 1..(Len(l) + n) /\ i > Len(l) /\ Len(m) = Len(l)
        BY <2>1, <2>4, <2>6, <3>2
      <4> QED BY <2>4, <2>5, <4>1, Zenon
    <3> QED BY <2>1, <2>4, <3>1, <3>2
  <2>7. 4 \in 1..Len(v) /\ v[4] = 0 /\ w[4] = IpCsum(v) /\ Len(w) = Len(v)
    BY <2>1, <2>2, <2>3, <2>4, <2>5
  <2>8. Valid(w)
    BY <2>4, <2>5, <2>6, <2>7, CsumCompletes
  <2> QED BY <1>12, <2>8 DEF w, m
<1>14. Valid(IcmpSummed(e))
  <2> DEFINE l == <<0, 0>>
             m == <<0, ic>>
             v == l \o d
             w == m \o d
             n == Len(d)
  <2>1. /\ l \in Seq(Word) /\ m \in Seq(Word) /\ Len(l) = 2 /\ Len(m) = 2 /\ 2 \in Nat
        /\ l[1] = 0 /\ l[2] = 0 /\ m[1] = 0 /\ m[2] = ic
    BY <1>2, <1>5
  <2>2. v = IcmpSummed(h) /\ w = IcmpSummed(h2)
    BY <1>3, <1>6 DEF IcmpSummed
  <2>3. ic = IpCsum(v)
    BY <1>4, <2>2 DEF ic
  <2>4. d \in Seq(Word) /\ n \in Nat
    <3>1. d \in Seq(Word)
      BY <1>1, PacketWords
    <3> HIDE DEF d
    <3> QED BY <3>1
  <2> HIDE DEF l, m, d
  <2>5. /\ v \in Seq(Word) /\ Len(v) = Len(l) + n
        /\ \A i \in 1..Len(l) : v[i] = l[i]
        /\ \A i \in 1..(Len(l) + n) : i > Len(l) => v[i] = d[i - Len(l)]
    BY <2>1, <2>4, WordsBehind, Zenon
  <2>6. /\ w \in Seq(Word) /\ Len(w) = Len(m) + n
        /\ \A i \in 1..Len(m) : w[i] = m[i]
        /\ \A i \in 1..(Len(m) + n) : i > Len(m) => w[i] = d[i - Len(m)]
    BY <2>1, <2>4, WordsBehind, Zenon
  <2> HIDE DEF v, w, n
  <2>7. ASSUME NEW i \in 1..Len(v), i # 2 PROVE w[i] = v[i]
    <3>1. CASE i = 1
      BY <2>1, <2>5, <2>6, <3>1
    <3>2. CASE i # 1
      <4>1. i \in 1..(2 + n) /\ i > 2
        BY <2>1, <2>4, <2>5, <2>7, <3>2
      <4> QED BY <2>1, <2>5, <2>6, <4>1
    <3> QED BY <3>1, <3>2
  <2>8. 2 \in 1..Len(v) /\ v[2] = 0 /\ w[2] = IpCsum(v) /\ Len(w) = Len(v)
    BY <2>1, <2>3, <2>4, <2>5, <2>6
  <2>9. Valid(w)
    BY <2>5, <2>6, <2>7, <2>8, CsumCompletes
  <2> QED BY <1>12, <2>2, <2>9
<1>15. p.ihl = 5 => Valid(IcmpWords(e))
  BY <1>6, <1>7, <1>12, <1>14, SummedIs
<1> QED BY <1>12, <1>13, <1>14, <1>15

LEMMA EchoAnswered ==
  ASSUME NEW p \in IpPackets, IpProcess(p)
  PROVE  IpEchoRight'
<1>1. p \in WholePackets /\ p \in Packets
  BY IpAssumption DEF WholePackets
<1>2. /\ HdrSummed(p) \in Seq(Word) /\ IcmpSummed(p) \in Seq(Word)
      /\ p.ihl \in 5..7 => HdrSummed(p) = HdrWords(p)
      /\ p.ihl = 5 => IcmpSummed(p) = IcmpWords(p)
  BY <1>1, PacketWords, SummedIs
<1>3. /\ IpCsum(IcmpSummed(p)) = 0 <=> Valid(IcmpSummed(p))
      /\ IpCsum(HdrSummed(p)) = 0 <=> Valid(HdrSummed(p))
  BY <1>2, IpCsumFacts
<1>4. ipIn' = p
  BY DEF IpProcess
<1> DEFINE Answers == Accepted(p) /\ p.proto = 1 /\ IpCsum(IcmpSummed(p)) = 0 /\ p.type = ECHO_REQUEST
<1>5. CASE Answers
  <2>1. ipOut' = EchoReply(p)
    BY <1>5 DEF IpProcess
  <2>2. EchoReply(p) # Nothing
    BY <1>1, EchoReplyRight DEF Nothing
  <2>3. Valid(HdrSummed(p)) /\ Valid(IcmpSummed(p)) /\ p.dst \in OurIps \cup {BroadcastIp}
    BY <1>3, <1>5 DEF Accepted, ForUs
  <2>4. /\ p.ihl \in 5..7 => Valid(HdrWords(p))
        /\ p.ihl = 5 => Valid(IcmpWords(p))
    <3>1. p.ihl \in 5..7 => Valid(HdrWords(p))
      BY <1>2, <2>3
    <3>2. p.ihl = 5 => Valid(IcmpWords(p))
      BY <1>2, <2>3
    <3> QED BY <3>1, <3>2
  <2>5. /\ EchoReply(p).dst = p.src /\ EchoReply(p).data = p.data
        /\ p.ihl \in 5..7 => Valid(HdrWords(EchoReply(p)))
        /\ Valid(IcmpSummed(EchoReply(p)))
        /\ p.ihl = 5 => Valid(IcmpWords(EchoReply(p)))
    BY <1>1, EchoReplyRight
  <2>6. ipIn' # Nothing =>
           /\ ipIn'.ihl \in 5..7 => Valid(HdrWords(ipIn')) /\ Valid(HdrWords(ipOut'))
           /\ ipIn'.ihl = 5 => Valid(IcmpWords(ipIn')) /\ Valid(IcmpWords(ipOut'))
           /\ Valid(HdrSummed(ipIn')) /\ Valid(IcmpSummed(ipIn')) /\ Valid(IcmpSummed(ipOut'))
           /\ ipIn'.dst \in OurIps \cup {BroadcastIp}
           /\ ipOut'.dst = ipIn'.src /\ ipOut'.data = ipIn'.data
    BY <1>4, <2>1, <2>3, <2>4, <2>5, Zenon
  <2>7. ipOut' # Nothing
    BY <2>1, <2>2
  <2> QED BY <2>6, <2>7 DEF IpEchoRight
<1>6. CASE ~Answers
  <2>1. ipOut' = Nothing
    BY <1>6 DEF IpProcess
  <2> DEFINE Refusable ==
        \/ p.type # ECHO_REQUEST \/ p.proto # 1 \/ p.ihl \notin 5..7 \/ p.ttl = 0
        \/ p.version # 4 \/ p.dst \notin OurIps \cup {BroadcastIp}
        \/ ~Valid(HdrWords(p)) \/ ~Valid(IcmpSummed(p)) \/ (p.ihl = 5 /\ ~Valid(IcmpWords(p)))
  <2>2. Refusable
    <3> SUFFICES ASSUME p.type = ECHO_REQUEST, p.proto = 1, p.ihl \in 5..7, p.ttl # 0, p.version = 4,
                        p.dst \in OurIps \cup {BroadcastIp}, Valid(HdrWords(p)), Valid(IcmpSummed(p))
                 PROVE  FALSE
      OBVIOUS
    <3>1. IpCsum(HdrSummed(p)) = 0 /\ IpCsum(IcmpSummed(p)) = 0
      BY <1>2, <1>3
    <3>2. p.ihl >= 5
      OBVIOUS
    <3>3. Accepted(p)
      BY <3>1, <3>2 DEF Accepted, ForUs
    <3> QED BY <1>6, <3>1, <3>3
  <2> QED BY <1>4, <2>1, <2>2 DEF IpEchoRight
<1> QED BY <1>5, <1>6

LEMMA FrontOfAppend ==
  ASSUME NEW S, NEW s \in Seq(S), NEW c \in S
  PROVE  Front(Append(s, c)) = s
<1> DEFINE t == Append(s, c)
           n == Len(s)
<1>1. n \in Nat /\ t \in Seq(S) /\ Len(t) = n + 1 /\ \A i \in 1..n : t[i] = s[i]
  OBVIOUS
<1>2. Front(t) = SubSeq(t, 1, Len(t) - 1)
  BY DEF Front
<1> HIDE DEF t
<1>3. Front(t) = SubSeq(t, 1, n)
  BY <1>1, <1>2
<1>4. SubSeq(t, 1, n) = s
  BY <1>1
<1> QED BY <1>3, <1>4 DEF t

LEMMA UdpSent ==
  ASSUME RouteInv, NEW ip \in Word, NEW body \in UdpBodies, UdpWrite(ip, body)
  PROVE  UdpNextHopRight' /\ UdpCsumRight'
<1> DEFINE c == UdpCsum(body)
           words == Append(body, c)
<1>1. body \in Seq(Word) /\ Len(body) < 2^Bits - 1
  BY IpAssumption
<1>2. c \in Word /\ (FoldOnce(WordSum(body)) < 2^Bits => Valid(words))
  BY <1>1, UdpCsumCompletes
<1>3. /\ ipOut' = [kind |-> "udp", dst |-> ip, hop |-> NextHop(ip), words |-> words]
      /\ rtab' = rtab /\ (ip = BroadcastIp \/ RouteFind(ip) # NoRoute)
  BY DEF UdpWrite
<1> HIDE DEF c
<1>4. UdpCsumRight'
  <2>1. Front(words) = body
    BY <1>1, <1>2, FrontOfAppend
  <2>2. words \in Seq(Word) /\ Len(words) < 2^Bits
    BY <1>1, <1>2, WordFacts
  <2>3. Valid(words) => UdpCsum(words) = 0
    BY <2>2, UdpCsumTakes
  <2>4. Valid(words) \/ FoldOnce(WordSum(body)) >= 2^Bits
    <3>1. WordSum(body) \in Nat
      BY <1>1, CsumIs
    <3>2. FoldOnce(WordSum(body)) \in Nat
      BY <3>1, FoldFacts
    <3> QED BY <1>2, <3>2, WordFacts
  <2>5. ipOut'.words = words
    BY <1>3
  <2> HIDE DEF words
  <2>6. /\ Valid(ipOut'.words) \/ FoldOnce(WordSum(Front(ipOut'.words))) >= 2^Bits
        /\ Valid(ipOut'.words) => UdpCsum(ipOut'.words) = 0
    BY <2>1, <2>3, <2>4, <2>5
  <2> QED BY <2>6 DEF UdpCsumRight
<1>5. UdpNextHopRight'
  <2>1. ipOut'.dst = ip /\ ipOut'.hop = NextHop(ip)
    BY <1>3
  <2>2. RouteMatches(ip)' = RouteMatches(ip)
    BY <1>3 DEF RouteMatches
  <2>3. ASSUME ip # BroadcastIp
        PROVE  IF \E i \in RouteMatches(ip) : rtab[i].base # 0 THEN NextHop(ip) = ip
               ELSE \E i \in RouteMatches(ip) : rtab[i].base = 0 /\ NextHop(ip) = rtab[i].gateway
    <3>1. RouteMatches(ip) # {}
      BY <1>3, <2>3 DEF RouteFind
    <3>2. PICK k \in RouteMatches(ip) : /\ RouteFind(ip) = rtab[k]
                                      /\ \A j \in RouteMatches(ip) : ~GoesBefore(rtab[j], rtab[k])
      BY <3>1, RouteFindIs
    <3>3. NextHop(ip) = IF rtab[k].base = 0 THEN rtab[k].gateway ELSE ip
      BY <2>3, <3>2 DEF NextHop
    <3>4. ASSUME NEW i \in RouteMatches(ip), rtab[i].base # 0 PROVE rtab[k].base # 0
      <4>1. rtab[i] \in Routes /\ rtab[k] \in Routes
        BY DEF RouteMatches, RouteInv
      <4>2. rtab[i].base \in Nat /\ rtab[k].base \in Nat
        BY <4>1, WordFacts DEF Routes
      <4>3. ~(rtab[i].base > rtab[k].base)
        BY <3>2 DEF GoesBefore
      <4> QED BY <3>4, <4>2, <4>3
    <3>5. CASE \E i \in RouteMatches(ip) : rtab[i].base # 0
      BY <3>3, <3>4, <3>5
    <3>6. CASE ~\E i \in RouteMatches(ip) : rtab[i].base # 0
      BY <3>3, <3>6
    <3> QED BY <3>5, <3>6
  <2> QED BY <1>3, <2>1, <2>2, <2>3 DEF UdpNextHopRight, RouteMatches
<1> QED BY <1>4, <1>5

-----------------------------------------------------------------------------
IpInv ==
    /\ RouteInv
    /\ ipIn \in IpPackets \cup {Nothing} /\ ipOut.kind \in {"none", "echo", "udp"}
    /\ UdpNextHopRight /\ IpEchoRight /\ UdpCsumRight

LEMMA IpInvInit == IpInit => IpInv
<1> SUFFICES ASSUME IpInit PROVE IpInv
  OBVIOUS
<1>1. rtab = <<>> /\ Len(rtab) = 0 /\ rtab \in Seq(Routes)
  BY DEF IpInit
<1>2. RouteInv
  BY <1>1 DEF IpInit, RouteInv, InOrder
<1>3. ipIn = Nothing /\ ipOut.kind = "none"
  BY DEF IpInit, Nothing
<1> QED BY <1>2, <1>3 DEF IpInv, UdpNextHopRight, IpEchoRight, UdpCsumRight

LEMMA IpInvStep == IpInv /\ [IpNext]_ipVars => IpInv'
<1> SUFFICES ASSUME IpInv, [IpNext]_ipVars PROVE IpInv'
  OBVIOUS
<1> DEFINE FrameInv == /\ ipIn \in IpPackets \cup {Nothing} /\ ipOut.kind \in {"none", "echo", "udp"}
                       /\ UdpNextHopRight /\ IpEchoRight /\ UdpCsumRight
<1>1. ASSUME ipIn' = Nothing, ipOut' = Nothing PROVE FrameInv'
  BY <1>1 DEF Nothing, UdpNextHopRight, IpEchoRight, UdpCsumRight
<1>2. ASSUME rtab' = rtab, routeNew' = routeNew PROVE RouteInv'
  BY <1>2 DEF IpInv, RouteInv, InOrder, RouteOk, GoesBefore
<1>3. ASSUME NEW a \in Adders, RouteInsert(a) PROVE IpInv'
  <2>1. RouteInv'
    BY <1>3, RouteInsertKeeps DEF IpInv
  <2>2. FrameInv'
    BY <1>1, <1>3 DEF RouteInsert, IpIdle
  <2> QED BY <2>1, <2>2 DEF IpInv
<1>4. ASSUME NEW a \in Adders, NEW arg \in RouteArgs, RouteAddTest(a, arg) PROVE IpInv'
  <2>1. RouteInv'
    BY <1>4, RouteAddKeeps DEF IpInv
  <2>2. FrameInv'
    BY <1>1, <1>4 DEF RouteAddTest, IpIdle
  <2> QED BY <2>1, <2>2 DEF IpInv
<1>5. ASSUME NEW p \in IpPackets, IpProcess(p) PROVE IpInv'
  <2>1. RouteInv'
    BY <1>2, <1>5 DEF IpProcess
  <2>2. ipOut'.kind \in {"none", "echo"}
    <3>1. ipOut' = Nothing \/ ipOut' = EchoReply(p)
      BY <1>5 DEF IpProcess
    <3>2. EchoReply(p).kind = "echo"
      BY EchoReplyRight, IpAssumption DEF WholePackets
    <3> QED BY <3>1, <3>2 DEF Nothing
  <2>3. ipIn' \in IpPackets \cup {Nothing}
    BY <1>5 DEF IpProcess
  <2>4. IpEchoRight'
    BY <1>5, EchoAnswered
  <2>5. UdpNextHopRight' /\ UdpCsumRight'
    BY <2>2 DEF UdpNextHopRight, UdpCsumRight
  <2> QED BY <2>1, <2>2, <2>3, <2>4, <2>5 DEF IpInv
<1>6. ASSUME NEW ip \in Word, NEW body \in UdpBodies, UdpWrite(ip, body) PROVE IpInv'
  <2>1. RouteInv'
    BY <1>2, <1>6 DEF UdpWrite
  <2>2. ipIn' = Nothing /\ ipOut'.kind = "udp"
    BY <1>6 DEF UdpWrite, IpIdle
  <2>3. IpEchoRight'
    BY <2>2 DEF IpEchoRight
  <2>4. UdpNextHopRight' /\ UdpCsumRight'
    BY <1>6, UdpSent DEF IpInv
  <2> QED BY <2>1, <2>2, <2>3, <2>4 DEF IpInv
<1>7. CASE IpSent
  <2>1. RouteInv'
    BY <1>2, <1>7 DEF IpSent
  <2>2. FrameInv'
    BY <1>1, <1>7 DEF IpSent
  <2> QED BY <2>1, <2>2 DEF IpInv
<1>8. CASE UNCHANGED ipVars
  <2>1. rtab' = rtab /\ routeNew' = routeNew /\ ipIn' = ipIn /\ ipOut' = ipOut
    BY <1>8 DEF ipVars
  <2>2. RouteInv'
    BY <1>2, <2>1
  <2>3. UdpNextHopRight' /\ IpEchoRight' /\ UdpCsumRight'
    BY <2>1 DEF IpInv, UdpNextHopRight, IpEchoRight, UdpCsumRight, RouteMatches
  <2> QED BY <2>1, <2>2, <2>3 DEF IpInv
<1> QED BY <1>3, <1>4, <1>5, <1>6, <1>7, <1>8 DEF IpNext

(* The most specific route to an address is found, in whatever order routes were
   added; requests are answered when they are valid and for us, and what is sent
   has valid checksums, for any width of words, routes and packets; headers with
   options are the exceptions that IpEchoRight states.                       *)
THEOREM PacketsAnsweredRight == IpSpec => []IpSafety
<1>1. IpInit => IpInv
  BY IpInvInit
<1>2. IpInv /\ [IpNext]_ipVars => IpInv'
  BY IpInvStep
<1>3. IpInv => IpSafety
  <2> SUFFICES ASSUME IpInv PROVE IpSafety
    OBVIOUS
  <2>1. IpTypeOK
    BY DEF IpInv, RouteInv, RouteOk, IpTypeOK
  <2>2. RouteLongest
    BY RoutesLongest DEF IpInv
  <2> QED BY <2>1, <2>2 DEF IpInv, IpSafety
<1> QED BY <1>1, <1>2, <1>3, PTL DEF IpSpec
=============================================================================
