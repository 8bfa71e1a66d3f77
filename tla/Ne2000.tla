------------------------------- MODULE Ne2000 -------------------------------
(***************************************************************************)
(* The network card's driver (ne2000.c) and the queue of received frames   *)
(* (net.c): the card, which is external, the interrupt handler, the tasks  *)
(* that send, and net_task.  No task runs while the handler does; the card *)
(* goes on.                                                                *)
(*                                                                         *)
(* The card's memory is divided into pages of PgSize cells.  The received  *)
(* frames lie in pages Start..Stop-1, a ring: each begins on a new page    *)
(* with a header of HdrSize cells (4 bytes) and goes on at Start when it   *)
(* reaches Stop.                                                           *)
(***************************************************************************)
EXTENDS Naturals, Sequences, FiniteSets

CONSTANTS
    Senders,            \* tasks in ne2000_send
    RX_START, RX_STOP,  \* pages
    NE_PG_SIZE, HdrSize,
    Arrivals,           \* cells of a frame, without header, and its status
    NETQ_MAX_ITEMS,
    MaxReceived         \* bound of the frames that arrive

Nobody == "nobody"

ASSUME NeAssumption ==
    /\ RX_START \in Nat /\ RX_STOP \in Nat /\ RX_STOP > RX_START + 1
    /\ NE_PG_SIZE \in Nat /\ HdrSize \in 1..(NE_PG_SIZE - 1)
    /\ \A a \in Arrivals : a[1] \in Nat \ {0} /\ a[2] \in {"PRX", "FO", "other"}
    /\ NETQ_MAX_ITEMS \in Nat \ {0} /\ MaxReceived \in Nat
    /\ Nobody \notin Senders

VARIABLES
    neCurr, neBnry,     \* the card's registers CURR and BNRY
    neHdr,              \* the header in each page of the ring
    neIsr,              \* the interrupt status register
    neCount,            \* frames stored so far
    hPc, hIsr,          \* the handler: where it is, its local isr
    netq,               \* frames in netq->list
    ntPc,               \* where net_task is
    tx_lock,            \* spin lock of the transmit pages
    txPc,               \* where a sender is in ne2000_send
    txData,             \* whose frame is in the transmit pages
    txOn,               \* the card transmits
    neLost,             \* interrupts acknowledged without having been read, and
                        \* "killed": a task that had taken tx_lock has ended
    ntMissed,           \* netq_push found net_task about to sleep
    ntAwaken,           \* a signal has woken net_task, and no frame since
    txTorn              \* a receive interrupt came in the middle of ne2000_put

neVars == <<neCurr, neBnry, neHdr, neIsr, neCount, hPc, hIsr, netq, ntPc, tx_lock, txPc, txData,
            txOn, neLost, ntMissed, ntAwaken, txTorn>>
rxCard == <<neCurr, neBnry, neHdr, neCount>>
txCard == <<txData, txOn>>
neTasks == <<ntPc, tx_lock, txPc>>
neHistory == <<neLost, ntMissed, ntAwaken, txTorn>>

Ring == RX_START..(RX_STOP - 1)
FrameSizes == {a[1] : a \in Arrivals}
NoHdr == [id |-> 0, size |-> 0, next |-> RX_START, stat |-> "PRX"]

NeTypeOK ==
    /\ neCurr \in Ring /\ neBnry \in Ring
    /\ neHdr \in [Ring -> [id : 0..MaxReceived, size : FrameSizes \cup {0}, next : Ring,
                           stat : {"PRX", "FO", "other"}]]
    /\ neIsr \subseteq {"PRX", "PTX"} /\ hIsr \subseteq {"PRX", "PTX"}
    /\ neCount \in 0..MaxReceived
    /\ hPc \in {"out", "ack", "tx", "recv", "push"}
    /\ Len(netq) <= NETQ_MAX_ITEMS
    /\ \A i \in 1..Len(netq) : netq[i] \in [id : 1..MaxReceived, page : Ring, size : FrameSizes,
                                            exact : BOOLEAN]
    /\ ntPc \in {"test", "sleep", "asleep", "shift", "locked", "process", "null"}
    /\ tx_lock \in BOOLEAN
    /\ txPc \in [Senders -> {"out", "put", "setup", "data", "go"}]
    /\ txData \in Senders \cup {Nobody} /\ txOn \in Senders \cup {Nobody}
    /\ neLost \subseteq {"PRX", "PTX", "killed"}
    /\ ntMissed \in BOOLEAN /\ ntAwaken \in BOOLEAN
    /\ txTorn \subseteq Senders

(* ne2000_attach, ne2000_up, net_init.                                      *)
NeInit ==
    /\ neCurr = RX_START + 1 /\ neBnry = RX_START
    /\ neHdr = [p \in Ring |-> NoHdr]
    /\ neIsr = {} /\ hIsr = {} /\ neCount = 0
    /\ hPc = "out"
    /\ netq = <<>>
    /\ ntPc = "test"
    /\ tx_lock = FALSE
    /\ txPc = [s \in Senders |-> "out"]
    /\ txData = Nobody /\ txOn = Nobody
    /\ neLost = {} /\ ntMissed = FALSE /\ ntAwaken = FALSE /\ txTorn = {}

-----------------------------------------------------------------------------
(* The card (external).                                                     *)

(* Ring arithmetic in pages and in cells; the remote DMA, too, goes on at
   Start when it reaches Stop.                                              *)
RingPages == RX_STOP - RX_START
PageAfter(p, n) == RX_START + ((p - RX_START + n) % RingPages)
Cell(a) == IF a < RX_STOP * NE_PG_SIZE THEN a ELSE a - RingPages * NE_PG_SIZE
PagesOf(size) == (size + HdrSize + NE_PG_SIZE - 1) \div NE_PG_SIZE
FreePages == (neBnry - neCurr + RingPages) % RingPages

(* A frame is stored when it leaves BNRY alone; otherwise it is lost.       *)
CardReceives(size, stat) ==
    /\ neCount < MaxReceived
    /\ PagesOf(size) < FreePages
    /\ neHdr' = [neHdr EXCEPT ![neCurr] = [id |-> neCount + 1, size |-> size, stat |-> stat,
                                           next |-> PageAfter(neCurr, PagesOf(size))]]
    /\ neCurr' = PageAfter(neCurr, PagesOf(size))
    /\ neCount' = neCount + 1
    /\ neIsr' = neIsr \cup {"PRX"}
    /\ UNCHANGED <<neBnry, hPc, hIsr, netq, neTasks, txCard, neHistory>>

(* Transmission ends, with success (PTX) or an error (TXE): both release the
   transmit pages, and PTX stands for both.                                 *)
CardTransmitted ==
    /\ txOn # Nobody
    /\ txOn' = Nobody
    /\ neIsr' = neIsr \cup {"PTX"}
    /\ UNCHANGED <<rxCard, hPc, hIsr, netq, neTasks, txData, neHistory>>

-----------------------------------------------------------------------------
(* ne2000_handler.                                                          *)

HandlerEnter ==
    /\ hPc = "out" /\ neIsr # {}
    /\ hIsr' = neIsr
    /\ hPc' = "ack"
    /\ UNCHANGED <<rxCard, neIsr, netq, neTasks, txCard, neHistory>>

(* All bits are cleared, not only those that were read.                     *)
HandlerAck ==
    /\ hPc = "ack" /\ hPc' = "tx"
    /\ neLost' = neLost \cup (neIsr \ hIsr)
    /\ neIsr' = {}
    /\ UNCHANGED <<rxCard, hIsr, netq, neTasks, txCard, ntMissed, ntAwaken, txTorn>>

HandlerTx ==
    /\ hPc = "tx"
    /\ tx_lock' = IF "PTX" \in hIsr THEN FALSE ELSE tx_lock
    /\ hPc' = IF "PRX" \in hIsr THEN "recv" ELSE "out"
    /\ hIsr' = {}
    /\ UNCHANGED <<rxCard, neIsr, netq, ntPc, txPc, txCard, neHistory>>

(* ne2000_recv: BNRY is the page before the next frame.                     *)
FirstPage == PageAfter(neBnry, 1)

(* The loop begins with DMA_ABORT, which stops a transfer that ne2000_put has
   started and not finished; ne2000_get programs the remote DMA, so the
   registers that ne2000_put has written so far are lost, too.              *)
Spoil(places) == txTorn' = txTorn \cup {s \in Senders : txPc[s] \in places}
Abort == Spoil({"data"})
Tear == Spoil({"setup", "data"})

RecvDone ==
    /\ hPc = "recv" /\ FirstPage = neCurr
    /\ hPc' = "out"
    /\ Abort
    /\ UNCHANGED <<rxCard, neIsr, hIsr, netq, neTasks, txCard, neLost, ntMissed, ntAwaken>>

(* Faulty variant: BNRY is set to the next frame itself.                    *)
BoundaryNext(next) == next

Boundary(next) == IF next = RX_START THEN RX_STOP - 1 ELSE next - 1

(* The headers before the new BNRY are not read again.                      *)
Pass(next) ==
    /\ neBnry' = Boundary(next)
    /\ neHdr' = IF next = neCurr THEN [p \in Ring |-> NoHdr] ELSE [neHdr EXCEPT ![FirstPage] = NoHdr]

(* A header that is not good (size, next, FIFO overrun) drops all that the card
   has stored; a frame with another status is passed over.                  *)
RecvSkip ==
    /\ hPc = "recv" /\ FirstPage # neCurr
    /\ neHdr[FirstPage].stat # "PRX"
    /\ Pass(IF neHdr[FirstPage].stat = "FO" THEN neCurr ELSE neHdr[FirstPage].next)
    /\ Tear
    /\ UNCHANGED <<neCurr, neCount, neIsr, hPc, hIsr, netq, neTasks, txCard, neLost,
                   ntMissed, ntAwaken>>

(* ne2000_recv_frame: which cells are copied, and which hold the frame.     *)
Copied(page, size) ==
    LET size1 == (RX_STOP - page) * NE_PG_SIZE
        split == page + size \div NE_PG_SIZE >= RX_STOP
    IN [k \in 1..size |-> IF split /\ k > size1
                          THEN Cell(RX_START * NE_PG_SIZE + k - size1 - 1)
                          ELSE Cell(page * NE_PG_SIZE + HdrSize + k - 1)]
Stored(page, size) == [k \in 1..size |-> Cell(page * NE_PG_SIZE + HdrSize + k - 1)]

NetqFull == Len(netq) >= NETQ_MAX_ITEMS

(* Without a buffer (queue full) the frame is dropped.                      *)
RecvNoBuffer ==
    /\ hPc = "recv" /\ FirstPage # neCurr
    /\ neHdr[FirstPage].stat = "PRX" /\ NetqFull
    /\ Pass(neHdr[FirstPage].next)
    /\ Tear
    /\ UNCHANGED <<neCurr, neCount, neIsr, hPc, hIsr, netq, neTasks, txCard, neLost,
                   ntMissed, ntAwaken>>

(* wakeup(&netq) after the frame was added.                                 *)
WakeNetTask == ntPc' = IF ntPc = "asleep" THEN "shift" ELSE ntPc

(* netq_push in the interrupt: it would spin for ever on the lock of a net_task
   that was interrupted while it holds it.                                  *)
RecvFrame ==
    /\ hPc = "recv" /\ FirstPage # neCurr
    /\ neHdr[FirstPage].stat = "PRX" /\ ~NetqFull
    /\ ntPc # "locked"
    /\ LET h == neHdr[FirstPage] IN
       /\ netq' = Append(netq, [id |-> h.id, page |-> FirstPage, size |-> h.size,
                                exact |-> Copied(FirstPage, h.size) = Stored(FirstPage, h.size)])
       /\ Pass(h.next)
    /\ WakeNetTask
    /\ ntMissed' = (ntMissed \/ ntPc = "sleep")
    /\ Tear
    /\ UNCHANGED <<neCurr, neCount, neIsr, hPc, hIsr, tx_lock, txPc, txCard, neLost, ntAwaken>>

-----------------------------------------------------------------------------
(* net_task.  A signal that ends it, and NULL for net_process, are as if it
   were never scheduled again.                                              *)

NetTask(from, to) == hPc = "out" /\ ntPc = from /\ ntPc' = to

NetTest ==
    /\ NetTask("test", IF netq = <<>> THEN "sleep" ELSE "shift")
    /\ UNCHANGED <<rxCard, neIsr, hPc, hIsr, netq, tx_lock, txPc, txCard, neHistory>>
NetSleep ==
    /\ NetTask("sleep", "asleep")
    /\ UNCHANGED <<rxCard, neIsr, hPc, hIsr, netq, tx_lock, txPc, txCard, neHistory>>

(* process_signals, for any signal: net_task is AWAKEN, and goes on.        *)
NetSignalled ==
    /\ NetTask("asleep", "shift")
    /\ ntAwaken' = TRUE
    /\ UNCHANGED <<rxCard, neIsr, hPc, hIsr, netq, tx_lock, txPc, txCard, neLost, ntMissed, txTorn>>
NetLock ==
    /\ NetTask("shift", "locked")
    /\ UNCHANGED <<rxCard, neIsr, hPc, hIsr, netq, tx_lock, txPc, txCard, neHistory>>

(* netq_shift; net_process of NULL follows an empty queue.                  *)
NetShift ==
    /\ IF netq = <<>> THEN NetTask("locked", "null") /\ UNCHANGED netq
                      ELSE NetTask("locked", "process") /\ netq' = Tail(netq)
    /\ ntMissed' = FALSE
    /\ ntAwaken' = (ntAwaken /\ netq = <<>>)
    /\ UNCHANGED <<rxCard, neIsr, hPc, hIsr, tx_lock, txPc, txCard, neLost, txTorn>>

(* net_process, and net_buf_free unless a socket captured the buffer.       *)
NetProcess ==
    /\ NetTask("process", "test")
    /\ UNCHANGED <<rxCard, neIsr, hPc, hIsr, netq, tx_lock, txPc, txCard, neHistory>>

-----------------------------------------------------------------------------
(* ne2000_send.                                                             *)

TxStep(s, from, to) ==
    /\ hPc = "out" /\ txPc[s] = from /\ txPc' = [txPc EXCEPT ![s] = to]
    /\ UNCHANGED <<rxCard, neIsr, hPc, hIsr, netq, ntPc, ntMissed, ntAwaken>>

(* Faulty variant: the transmit pages are not locked.                       *)
TxNoLock(s) == TxStep(s, "out", "put") /\ tx_lock' = TRUE /\ UNCHANGED <<txCard, neLost, txTorn>>

TxLock(s) ==
    TxStep(s, "out", "put") /\ ~tx_lock /\ tx_lock' = TRUE /\ UNCHANGED <<txCard, neLost, txTorn>>

(* ne2000_put programs the remote DMA, register by register: in "setup" any of
   them are written; the last one starts the transfer of the frame.         *)
TxSetup(s) ==
    /\ TxStep(s, "put", "setup")
    /\ txTorn' = txTorn \ {s}
    /\ UNCHANGED <<tx_lock, txCard, neLost>>
TxStart(s) == TxStep(s, "setup", "data") /\ UNCHANGED <<tx_lock, txCard, neLost, txTorn>>
TxData(s) ==
    /\ TxStep(s, "data", "go")
    /\ txData' = IF s \in txTorn THEN Nobody ELSE s
    /\ UNCHANGED <<tx_lock, txOn, neLost, txTorn>>
TxGo(s) == TxStep(s, "go", "out") /\ txOn' = s /\ UNCHANGED <<tx_lock, txData, neLost, txTorn>>

(* A signal ends the task where it was preempted; nobody gives tx_lock back. *)
TxKilled(s) ==
    /\ txPc[s] # "out" /\ TxStep(s, txPc[s], "out")
    /\ neLost' = neLost \cup {"killed"}
    /\ UNCHANGED <<tx_lock, txCard, txTorn>>

NeNext ==
    \/ \E a \in Arrivals : CardReceives(a[1], a[2])
    \/ CardTransmitted
    \/ HandlerEnter \/ HandlerAck \/ HandlerTx
    \/ RecvDone \/ RecvSkip \/ RecvNoBuffer \/ RecvFrame
    \/ NetTest \/ NetSleep \/ NetSignalled \/ NetLock \/ NetShift \/ NetProcess
    \/ \E s \in Senders : TxLock(s) \/ TxSetup(s) \/ TxStart(s) \/ TxData(s) \/ TxGo(s) \/ TxKilled(s)

NeSpec == NeInit /\ [][NeNext]_neVars

-----------------------------------------------------------------------------
(* The pages that the headers lead to, from the page after BNRY.            *)
NeReach[n \in 0..MaxReceived] == IF n = 0 THEN FirstPage ELSE neHdr[NeReach[n - 1]].next

(* The driver's place in the ring stays on the card's chain of frames: from the
   page after BNRY, as many headers as frames are waiting lead to CURR, with
   numbers in the order of arrival up to the newest.                        *)
NeChain ==
    \E n \in 0..MaxReceived :
        /\ NeReach[n] = neCurr
        /\ \A k \in 0..(n - 1) : neHdr[NeReach[k]].id = neCount - n + k + 1

(* Frames are queued in the order of their arrival, and each one that does not
   cross the end of the ring is copied exactly.                             *)
NeFramesRight ==
    /\ \A i, j \in 1..Len(netq) : i < j => netq[i].id < netq[j].id
    /\ \A i \in 1..Len(netq) :
           netq[i].page + PagesOf(netq[i].size) <= RX_STOP => netq[i].exact

(* The transmit pages are free only when nobody fills or sends them: the lock
   that a sender takes and the interrupt releases never covers two frames.  *)
NeTxExclusive ==
    /\ ~tx_lock => txOn = Nobody /\ \A s \in Senders : txPc[s] = "out"
    /\ Cardinality({s \in Senders : txPc[s] # "out"}) <= 1

(* What the card sends is the frame of the task that started it, unless a
   receive interrupt came inside ne2000_put.                                *)
NeSentRight == txOn # Nobody => txData = txOn \/ txOn \in txTorn

(* A frame stays behind in the card only through an interrupt that was cleared
   without being read; the lock of the transmit pages stays taken through one,
   or when a task was killed in ne2000_send.                                *)
NeOnlyAckLoses ==
    hPc = "out" =>
        /\ FirstPage # neCurr /\ "PRX" \notin neIsr => "PRX" \in neLost
        /\ tx_lock /\ txOn = Nobody /\ "PTX" \notin neIsr /\ (\A s \in Senders : txPc[s] = "out")
               => neLost \cap {"PTX", "killed"} # {}

(* net_task sleeps on a queue that is not empty only when the frame came
   between its test and its sleep, and it takes NULL from the queue only when a
   signal has ended its sleep (net.c:140 does not test again).              *)
NetTaskRight ==
    /\ ntPc = "asleep" /\ netq # <<>> => ntMissed
    /\ ntPc = "null" => ntAwaken

(* From the ring of the card to net_task: the chain of frames stays intact, frames
   are copied whole, and none waits unnoticed, each but for what it excepts. *)
NeReceiveSafety ==
    /\ NeTypeOK
    /\ NeChain
    /\ NeFramesRight
    /\ NeOnlyAckLoses
    /\ NetTaskRight

(* The transmit pages belong to one sender until its frame is out, and the frame
   sent is the one that was written. *)
NeSendSafety ==
    /\ NeTxExclusive
    /\ NeSentRight
=============================================================================
