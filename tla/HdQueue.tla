------------------------------ MODULE HdQueue ------------------------------
(***************************************************************************)
(* The cache of disk blocks (hd_queue.c): get_hd_buf and put_hd_buf, called *)
(* by the file system in preemptible system calls, and hd_rw (hd.c).       *)
(*                                                                         *)
(* Buffers are numbered in list order; buffers 1..num_items exist.         *)
(***************************************************************************)
EXTENDS Naturals, FiniteSets

CONSTANTS
    DiskTasks,      \* tasks that use the file system
    NoTask,         \* an unlocked spin lock
    DiskBlocks,     \* disk blocks
    DiskValues,     \* contents of a block
    MAX_HD_BUFS     \* buffers kept in memory

ASSUME HdAssumption ==
    /\ NoTask \notin DiskTasks
    /\ IsFiniteSet(DiskTasks)
    /\ MAX_HD_BUFS \in Nat \ {0}

VARIABLES
    hdDisk,     \* the contents of the disk
    num_items,  \* buf_queue->list->num_items
    qlock,      \* who holds buf_queue->lock
    block_no, is_dirty, hdRefs, hdLock, hdBuf,  \* the fields of the buffers
    hdPc,       \* where a task is
    hdWant,     \* argument of its get_hd_buf
    hdb,        \* its buffer; 0 is NULL
    hdCount,    \* the count it has read and not written back yet; else 0
    hdLatest,   \* what was last written to a block by a task (history)
    hdRaced,    \* two tasks were between lookup and claim at once (history)
    hdTorn      \* a write to a reference count was overwritten (history)

hdFields == <<block_no, is_dirty, hdRefs, hdLock, hdBuf>>
hdVars == <<hdDisk, num_items, qlock, hdFields, hdPc, hdWant, hdb, hdCount, hdLatest, hdRaced, hdTorn>>

HdBufs == 1..MAX_HD_BUFS
HdInList == 1..num_items

(* In get_hd_buf: "found" is before hdb->ref_count++ and "incr" between its read
   and its write, "wait" before spin_lock(&hdb->lock); "miss" is before the
   second spin_lock(&buf_queue->lock), "claim" before hdb->lock = 0, "claimed"
   before spin_lock(&hdb->lock), "load" before hd_rw.  In put_hd_buf: "drop" is
   between the read and the write of hdb->ref_count--, "flush" before hd_rw.  *)
HdLocations == {"out", "found", "incr", "wait", "miss", "claim", "claimed", "load", "use",
                "drop", "flush", "unlock"}

HdTypeOK ==
    /\ hdDisk \in [DiskBlocks -> DiskValues]
    /\ num_items \in 0..MAX_HD_BUFS
    /\ qlock \in DiskTasks \cup {NoTask}
    /\ block_no \in [HdBufs -> DiskBlocks]
    /\ is_dirty \in [HdBufs -> BOOLEAN]
    /\ hdRefs \in [HdBufs -> 0..Cardinality(DiskTasks)]
    /\ hdLock \in [HdBufs -> DiskTasks \cup {NoTask}]
    /\ hdBuf \in [HdBufs -> DiskValues]
    /\ hdPc \in [DiskTasks -> HdLocations]
    /\ hdWant \in [DiskTasks -> DiskBlocks]
    /\ hdb \in [DiskTasks -> 0..MAX_HD_BUFS]
    /\ hdCount \in [DiskTasks -> 0..Cardinality(DiskTasks)]
    /\ hdLatest \in [DiskBlocks -> DiskValues]
    /\ hdRaced \in BOOLEAN
    /\ hdTorn \in BOOLEAN

(* hd_queue_init: an empty list.                                            *)
HdInit ==
    /\ \E v \in DiskValues : hdDisk = [b \in DiskBlocks |-> v] /\ hdBuf = [n \in HdBufs |-> v]
    /\ num_items = 0
    /\ qlock = NoTask
    /\ \E b \in DiskBlocks : block_no = [n \in HdBufs |-> b] /\ hdWant = [t \in DiskTasks |-> b]
    /\ is_dirty = [n \in HdBufs |-> FALSE]
    /\ hdRefs = [n \in HdBufs |-> 0]
    /\ hdLock = [n \in HdBufs |-> NoTask]
    /\ hdPc = [t \in DiskTasks |-> "out"]
    /\ hdb = [t \in DiskTasks |-> 0]
    /\ hdCount = [t \in DiskTasks |-> 0]
    /\ hdLatest = hdDisk
    /\ hdRaced = FALSE
    /\ hdTorn = FALSE

HdAt(t, l) == hdPc[t] = l
HdGoto(t, l) == hdPc' = [hdPc EXCEPT ![t] = l]

-----------------------------------------------------------------------------
(* get_hd_buf.                                                              *)

Cached(b) == {n \in HdInList : block_no[n] = b}
FirstBuf(S) == CHOOSE n \in S : \A m \in S : n <= m

(* A task that knows whether its block is cached, and has neither taken a
   reference nor claimed a buffer: what it knows may become false.          *)
InWindow(t) == hdPc[t] \in {"found", "incr", "miss", "claim"}

(* The list is searched under its lock, which is released again.            *)
HdLookup(t, b) ==
    /\ HdAt(t, "out")
    /\ qlock = NoTask
    /\ hdWant' = [hdWant EXCEPT ![t] = b]
    /\ IF Cached(b) = {}
       THEN HdGoto(t, "miss") /\ UNCHANGED hdb
       ELSE HdGoto(t, "found") /\ hdb' = [hdb EXCEPT ![t] = FirstBuf(Cached(b))]
    /\ hdRaced' = (hdRaced \/ \E u \in DiskTasks \ {t} : InWindow(u))
    /\ UNCHANGED <<hdDisk, num_items, qlock, hdFields, hdCount, hdLatest, hdTorn>>

(* Another task is at one of the places L with t's buffer.                  *)
OtherAt(t, L) == \E u \in DiskTasks \ {t} : hdb[u] = hdb[t] /\ hdPc[u] \in L

(* hdb->ref_count++ is done with no lock held: a read ...                   *)
HdReadRefs(t) ==
    /\ HdAt(t, "found")
    /\ hdCount' = [hdCount EXCEPT ![t] = hdRefs[hdb[t]]]
    /\ HdGoto(t, "incr")
    /\ UNCHANGED <<hdDisk, num_items, qlock, hdFields, hdWant, hdb, hdLatest, hdRaced, hdTorn>>

(* ... and a write.  A task that has read the count before the write, or has
   chosen the buffer as a free one, overwrites it later.                    *)
HdReference(t) ==
    /\ HdAt(t, "incr")
    /\ hdRefs' = [hdRefs EXCEPT ![hdb[t]] = hdCount[t] + 1]
    /\ hdCount' = [hdCount EXCEPT ![t] = 0]
    /\ hdTorn' = (hdTorn \/ OtherAt(t, {"incr", "drop", "claim"}))
    /\ HdGoto(t, "wait")
    /\ UNCHANGED <<hdDisk, num_items, qlock, block_no, is_dirty, hdLock, hdBuf, hdWant, hdb, hdLatest, hdRaced>>

LockBuf(t) ==
    /\ HdAt(t, "wait")
    /\ hdLock[hdb[t]] = NoTask
    /\ hdLock' = [hdLock EXCEPT ![hdb[t]] = t]
    /\ HdGoto(t, "use")
    /\ UNCHANGED <<hdDisk, num_items, qlock, block_no, is_dirty, hdRefs, hdBuf, hdWant, hdb, hdCount,
                   hdLatest, hdRaced, hdTorn>>

(* Faulty variant: a buffer that somebody waits for counts as free.         *)
HdFreeUnlocked(n) == ~is_dirty[n] /\ hdLock[n] = NoTask

(* A buffer that may be reused.                                             *)
HdFree(n) == hdRefs[n] = 0 /\ ~is_dirty[n] /\ hdLock[n] = NoTask

(* The buffer for a block that was not found: a new one, else the first free
   one, else the last of the list, because the search leaves hdb there.     *)
Victim ==
    IF num_items < MAX_HD_BUFS THEN num_items + 1
    ELSE IF \E n \in HdBufs : HdFree(n) THEN FirstBuf({n \in HdBufs : HdFree(n)})
    ELSE MAX_HD_BUFS

(* Under the lock of the list a buffer is chosen.  Nobody gives one back while
   the list is locked, so that the search is one step.                      *)
HdClaim(t) ==
    /\ HdAt(t, "miss")
    /\ qlock = NoTask
    /\ qlock' = t
    /\ hdb' = [hdb EXCEPT ![t] = Victim]
    /\ HdGoto(t, "claim")
    /\ UNCHANGED <<hdDisk, num_items, hdFields, hdWant, hdCount, hdLatest, hdRaced, hdTorn>>

(* The fields are set, whatever a task that found the buffer has done to them
   since; a new buffer is in the list from now on (nobody can search before). *)
HdReset(t) ==
    LET n == hdb[t] IN
    /\ HdAt(t, "claim")
    /\ num_items' = IF n > num_items THEN n ELSE num_items
    /\ block_no' = [block_no EXCEPT ![n] = hdWant[t]]
    /\ is_dirty' = [is_dirty EXCEPT ![n] = FALSE]
    /\ hdRefs' = [hdRefs EXCEPT ![n] = 1]
    /\ hdLock' = [hdLock EXCEPT ![n] = NoTask]
    /\ hdTorn' = (hdTorn \/ OtherAt(t, {"incr"}))
    /\ HdGoto(t, "claimed")
    /\ UNCHANGED <<hdDisk, qlock, hdBuf, hdWant, hdb, hdCount, hdLatest, hdRaced>>

(* The lock is taken with the list still locked: if a task that found the buffer
   took it first, both wait for ever, this one for the lock of the buffer and
   that one, in put_hd_buf, for the lock of the list.                       *)
HdLockClaimed(t) ==
    /\ HdAt(t, "claimed")
    /\ hdLock[hdb[t]] = NoTask
    /\ hdLock' = [hdLock EXCEPT ![hdb[t]] = t]
    /\ qlock' = NoTask
    /\ HdGoto(t, "load")
    /\ UNCHANGED <<hdDisk, num_items, block_no, is_dirty, hdRefs, hdBuf, hdWant, hdb, hdCount,
                   hdLatest, hdRaced, hdTorn>>

(* hd_rw(n): writes a dirty buffer, reads any other.                        *)
HdRw(n) ==
    \/ /\ is_dirty[n]
       /\ hdDisk' = [hdDisk EXCEPT ![block_no[n]] = hdBuf[n]]
       /\ UNCHANGED hdBuf
    \/ /\ ~is_dirty[n]
       /\ hdBuf' = [hdBuf EXCEPT ![n] = hdDisk[block_no[n]]]
       /\ UNCHANGED hdDisk

HdLoad(t) ==
    /\ HdAt(t, "load")
    /\ HdRw(hdb[t])
    /\ HdGoto(t, "use")
    /\ UNCHANGED <<num_items, qlock, block_no, is_dirty, hdRefs, hdLock, hdWant, hdb, hdCount, hdLatest, hdRaced, hdTorn>>

-----------------------------------------------------------------------------
(* Between get_hd_buf and put_hd_buf the caller (cofs.c) may write to the
   buffer; it sets is_dirty.                                                *)
HdModify(t, v) ==
    /\ HdAt(t, "use")
    /\ hdBuf' = [hdBuf EXCEPT ![hdb[t]] = v]
    /\ is_dirty' = [is_dirty EXCEPT ![hdb[t]] = TRUE]
    /\ hdLatest' = [hdLatest EXCEPT ![hdWant[t]] = v]
    /\ UNCHANGED <<hdDisk, num_items, qlock, block_no, hdRefs, hdLock, hdPc, hdWant, hdb, hdCount, hdRaced, hdTorn>>

(* put_hd_buf reads the count under buf_queue->lock; a count of 0 would be the
   panic "trying to close not opened block".                                *)
HdPut(t) ==
    /\ HdAt(t, "use")
    /\ qlock = NoTask
    /\ hdRefs[hdb[t]] > 0
    /\ qlock' = t
    /\ hdCount' = [hdCount EXCEPT ![t] = hdRefs[hdb[t]]]
    /\ HdGoto(t, "drop")
    /\ UNCHANGED <<hdDisk, num_items, hdFields, hdWant, hdb, hdLatest, hdRaced, hdTorn>>

(* Faulty variant: put_hd_buf never writes back.                            *)
KeepDirty(t) == FALSE

(* The last reference to a dirty buffer is dropped.                         *)
MustFlush(t) == is_dirty[hdb[t]] /\ hdCount[t] = 1

(* The count is written back and tested.                                    *)
HdDrop(t) ==
    /\ HdAt(t, "drop")
    /\ hdRefs' = [hdRefs EXCEPT ![hdb[t]] = hdCount[t] - 1]
    /\ hdCount' = [hdCount EXCEPT ![t] = 0]
    /\ hdTorn' = (hdTorn \/ OtherAt(t, {"incr"}))
    /\ HdGoto(t, IF MustFlush(t) THEN "flush" ELSE "unlock")
    /\ UNCHANGED <<hdDisk, num_items, qlock, block_no, is_dirty, hdLock, hdBuf, hdWant, hdb, hdLatest, hdRaced>>

HdFlush(t) ==
    /\ HdAt(t, "flush")
    /\ HdRw(hdb[t])
    /\ is_dirty' = [is_dirty EXCEPT ![hdb[t]] = FALSE]
    /\ HdGoto(t, "unlock")
    /\ UNCHANGED <<num_items, qlock, block_no, hdRefs, hdLock, hdWant, hdb, hdCount, hdLatest, hdRaced, hdTorn>>

HdUnlock(t) ==
    /\ HdAt(t, "unlock")
    /\ hdLock' = [hdLock EXCEPT ![hdb[t]] = NoTask]
    /\ qlock' = NoTask
    /\ hdb' = [hdb EXCEPT ![t] = 0]
    /\ HdGoto(t, "out")
    /\ UNCHANGED <<hdDisk, num_items, block_no, is_dirty, hdRefs, hdBuf, hdWant, hdCount, hdLatest, hdRaced, hdTorn>>

(* Behaviours end where a count is wrong: from there it grows or falls without a
   bound, and put_hd_buf panics or buffers stay dirty for ever.             *)
HdNext == ~hdTorn /\ \E t \in DiskTasks :
    \/ \E b \in DiskBlocks : HdLookup(t, b)
    \/ HdReadRefs(t) \/ HdReference(t) \/ LockBuf(t)
    \/ HdClaim(t) \/ HdReset(t) \/ HdLockClaimed(t) \/ HdLoad(t)
    \/ \E v \in DiskValues : HdModify(t, v)
    \/ HdPut(t) \/ HdDrop(t) \/ HdFlush(t) \/ HdUnlock(t)

HdSpec == HdInit /\ [][HdNext]_hdVars

-----------------------------------------------------------------------------
HdOwning == {"load", "use", "drop", "flush", "unlock"}

(* hd_queue.h: "use it in locking the buffer".  A task between get_hd_buf and
   put_hd_buf owns its buffer: nobody else does, and nobody resets its lock. *)
HdExclusive == \A t \in DiskTasks : hdPc[t] \in HdOwning => hdLock[hdb[t]] = t

(* hd_queue.h: "how many pointers to this buf".  The references of a buffer
   are the tasks that hold or wait for it, so that put_hd_buf never panics
   and a buffer with a waiting task is never reused.                        *)
HdHolding == {"wait", "claimed", "load", "use", "drop"}
HdRefsMatch == \A n \in HdBufs :
    hdRefs[n] = Cardinality({t \in DiskTasks : hdb[t] = n /\ hdPc[t] \in HdHolding})

(* "If it's already in memory, it will return it": one buffer for a block.  *)
OneBuffer == \A n, m \in HdInList : block_no[n] = block_no[m] => n = m

(* "Gets the buffer for disk block number block no".                        *)
RightBlock == \A t \in DiskTasks : hdPc[t] = "use" => block_no[hdb[t]] = hdWant[t]

(* A task sees what was last written to the block, whatever was evicted and
   read again in between.                                                   *)
SeesLatest == \A t \in DiskTasks : hdPc[t] = "use" => hdBuf[hdb[t]] = hdLatest[hdWant[t]]

(* The cache is coherent with two exceptions, both because get_hd_buf releases
   the lock of the list before it counts itself: two tasks were between the
   search and the reference or claim at once (hdRaced), or a write to a count
   was overwritten by one who had read it, or chosen the buffer, before
   (hdTorn).                                                                *)
HdCoherent == ~hdRaced /\ ~hdTorn => OneBuffer /\ RightBlock /\ SeesLatest

(* A buffer is used by one task at a time, and its count is that of the tasks which
   use it or wait for it, whoever raced for it in get_hd_buf; but not once a
   count was overwritten (hdTorn): ref_count++ is outside every lock, beside
   put_hd_buf's ref_count-- and the reset of a buffer chosen as free.       *)
HdSafety ==
    /\ HdTypeOK
    /\ ~hdTorn => HdExclusive /\ HdRefsMatch
=============================================================================
