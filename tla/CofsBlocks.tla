----------------------------- MODULE CofsBlocks -----------------------------
(***************************************************************************)
(* The blocks of cofs files (cofs.c): the bitmap, the direct, indirect and *)
(* double indirect block numbers of an inode, and reading, writing and     *)
(* truncating through them.                                                *)
(*                                                                         *)
(* Calls on different files interleave at every block.  Two calls on the   *)
(* same file do not: sys_read, sys_write and sys_ftruncate take no lock on *)
(* the node, and what happens then is outside this module.  The disk       *)
(* buffers are HdQueue's business: a block read is the block last written. *)
(*                                                                         *)
(* A block number is kept in a slot: number k of an inode or of an         *)
(* indirect block.  0 means none.                                          *)
(***************************************************************************)
EXTENDS Naturals, FiniteSets

CONSTANTS
    Files,       \* the inodes in use
    NUM_DIRECT,  \* direct blocks of an inode
    NUM_SIND,    \* block numbers in an indirect block
    BLOCK_SIZE,  \* bytes in a block
    Meta,        \* the blocks of boot sector, superblock, bitmap and inodes
    Blocks,      \* the blocks that have a bit in the bitmap
    Offsets,     \* where calls read and write, besides the end of the file
    Counts,      \* the counts given to read() and write()
    MaxCuts,     \* bound on the number of truncations
    Aligned      \* is a file truncated whose last block, past the direct ones, is full?

ASSUME CofsBlocksAssumption ==
    /\ NUM_DIRECT \in Nat \ {0} /\ NUM_SIND \in Nat \ {0} /\ BLOCK_SIZE \in Nat \ {0}
    /\ Blocks = 0..(Cardinality(Blocks) - 1) /\ IsFiniteSet(Blocks)
    /\ 0 \in Meta /\ Meta \subseteq Blocks
    /\ Offsets \subseteq Nat /\ Counts \subseteq Nat \ {0}
    /\ MaxCuts \in Nat
    /\ Aligned \in BOOLEAN

VARIABLES
    fs,     \* bitmap, the block numbers in inodes and indirect blocks, the data
    size,   \* node->size
    disk,   \* the inodes on disk: their size and block numbers
    job,    \* the call that works on a file
    cuts    \* the number of truncations so far

vars == <<fs, size, disk, job, cuts>>

NUM_DIND == NUM_SIND * NUM_SIND
SIND_IDX == NUM_DIRECT
DIND_IDX == NUM_DIRECT + 1

(* MAX_FILE_SIZE * BLOCK_SIZE, by a macro without parentheses: less than the
   blocks could hold.                                                       *)
MaxBytes == NUM_DIRECT + NUM_SIND + NUM_DIND * BLOCK_SIZE

Addrs == 0..DIND_IDX
Words == 0..(NUM_SIND - 1)
Bytes == 0..(BLOCK_SIZE - 1)

(* The byte at offset k of file f is written as <<f, k>>, so that a byte that
   is read tells where it belongs.                                          *)
Blank == <<>>

(* pos and end of the loop over bytes (read, write) or blocks (truncate), and
   the length the file is truncated to.                                     *)
Idle == [op |-> "idle", pos |-> 0, end |-> 0, length |-> 0]
Panics == {"", "no free block", "already free", "out of range"}

TypeOK ==
    /\ fs.bitmap \subseteq Blocks
    /\ fs.panic \in Panics
    /\ fs.addrs \in [Files -> [Addrs -> Blocks]]
    /\ fs.words \in [Blocks -> [Words -> Blocks]]
    /\ \A b \in Blocks, k \in Bytes :
          fs.data[b][k] = Blank \/ fs.data[b][k] \in Files \X (0..MaxBytes)
    /\ size \in [Files -> 0..MaxBytes]
    /\ \A f \in Files : job[f].op \in {"idle", "read", "write", "truncate"}
    /\ DOMAIN disk = Files
    /\ cuts \in 0..MaxCuts

(* A new file system with empty files.                                      *)
Init ==
    /\ fs = [bitmap |-> Meta,
             addrs |-> [f \in Files |-> [k \in Addrs |-> 0]],
             words |-> [b \in Blocks |-> [k \in Words |-> 0]],
             data |-> [b \in Blocks |-> [k \in Bytes |-> Blank]],
             panic |-> ""]
    /\ size = [f \in Files |-> 0]
    /\ disk = [f \in Files |-> [size |-> 0, addrs |-> [k \in Addrs |-> 0]]]
    /\ job = [f \in Files |-> Idle]
    /\ cuts = 0

-----------------------------------------------------------------------------
(* Slots.                                                                   *)
InInode(f, k) == <<"inode", f, k>>
InBlock(b, k) == <<"block", b, k>>

Get(s, slot) ==
    IF slot[1] = "inode" THEN s.addrs[slot[2]][slot[3]] ELSE s.words[slot[2]][slot[3]]
Set(s, slot, b) ==
    IF slot[1] = "inode"
    THEN [s EXCEPT !.addrs[slot[2]][slot[3]] = b]
    ELSE [s EXCEPT !.words[slot[2]][slot[3]] = b]

Panic(s, why) == [s EXCEPT !.panic = why]

(* block_alloc has found the free block b: its bit is set, it is zeroed.    *)
Alloc(s, b) ==
    [s EXCEPT !.bitmap = @ \cup {b},
              !.words[b] = [k \in Words |-> 0],
              !.data[b] = [k \in Bytes |-> Blank]]

(* A slot that holds no block yet gets the first free one.                  *)
Fill(s, slot) ==
    LET free == Blocks \ s.bitmap
    IN  IF s.panic # "" \/ Get(s, slot) # 0 THEN s
        ELSE IF free = {} THEN Panic(s, "no free block")
        ELSE LET b == CHOOSE x \in free : \A y \in free : x <= y
             IN  Set(Alloc(s, b), slot, b)

(* Faulty variant: the bit stays set.                                       *)
BlockFreeLeaky(s, b) ==
    IF s.panic = "" /\ b \notin s.bitmap THEN Panic(s, "already free") ELSE s

(* block_free.                                                              *)
BlockFree(s, b) ==
    IF s.panic # "" THEN s
    ELSE IF b \notin s.bitmap THEN Panic(s, "already free")
    ELSE [s EXCEPT !.bitmap = @ \ {b}]

(* The indices of file block n, a double indirect one.                      *)
Midx(n) == (n - NUM_DIRECT - NUM_SIND) \div NUM_SIND

Sidx(n) == (n - NUM_DIRECT - NUM_SIND) % NUM_SIND

(* block_map(f, n) fills the slots on the way to the slot of file block n.  *)
BlockMap(s, f, n) ==
    IF n < NUM_DIRECT THEN Fill(s, InInode(f, n))
    ELSE IF n < NUM_DIRECT + NUM_SIND
    THEN LET a == Fill(s, InInode(f, SIND_IDX))
         IN  Fill(a, InBlock(Get(a, InInode(f, SIND_IDX)), n - NUM_DIRECT))
    ELSE IF n < NUM_DIRECT + NUM_SIND + NUM_DIND
    THEN LET a == Fill(s, InInode(f, DIND_IDX))
             mid == InBlock(Get(a, InInode(f, DIND_IDX)), Midx(n))
             c == Fill(a, mid)
         IN  Fill(c, InBlock(Get(c, mid), Sidx(n)))
    ELSE Panic(s, "out of range")

(* The block that block_map(f, n) returns: what the last of these slots holds. *)
Address(s, f, n) ==
    IF n < NUM_DIRECT THEN Get(s, InInode(f, n))
    ELSE IF n < NUM_DIRECT + NUM_SIND
    THEN Get(s, InBlock(Get(s, InInode(f, SIND_IDX)), n - NUM_DIRECT))
    ELSE Get(s, InBlock(Get(s, InBlock(Get(s, InInode(f, DIND_IDX)), Midx(n))), Sidx(n)))

-----------------------------------------------------------------------------
(* cofs_read and cofs_write.                                                *)
Working(f, op) == fs.panic = "" /\ job[f].op = op
Start(f, op, pos, end, length) ==
    job' = [job EXCEPT ![f] = [op |-> op, pos |-> pos, end |-> end, length |-> length]]
Finish(f) == job' = [job EXCEPT ![f] = Idle]
MinOf(a, b) == IF a < b THEN a ELSE b

(* Where the loop of cofs_read or cofs_write stands after this block.       *)
Advance(j) == MinOf(j.end, (j.pos \div BLOCK_SIZE + 1) * BLOCK_SIZE)

(* cofs_update_node.                                                        *)
UpdateNode(f, len) == disk' = [disk EXCEPT ![f] = [size |-> len, addrs |-> fs.addrs[f]]]

(* A read past the end is cut; one that starts past the end returns 0.      *)
Read(f, offset, n) ==
    /\ Working(f, "idle")
    /\ offset <= size[f]
    /\ Start(f, "read", offset, MinOf(offset + n, size[f]), 0)
    /\ UNCHANGED <<fs, size, disk, cuts>>

ReadBlock(f) ==
    /\ Working(f, "read")
    /\ job[f].pos < job[f].end
    /\ fs' = BlockMap(fs, f, job[f].pos \div BLOCK_SIZE)
    /\ job' = [job EXCEPT ![f].pos = Advance(job[f])]
    /\ UNCHANGED <<size, disk, cuts>>

ReadEnd(f) ==
    /\ Working(f, "read")
    /\ job[f].pos = job[f].end
    /\ Finish(f)
    /\ UNCHANGED <<fs, size, disk, cuts>>

(* A write that leaves a gap or grows the file too far returns 0.           *)
Write(f, offset, n) ==
    /\ Working(f, "idle")
    /\ offset <= size[f]
    /\ offset + n <= MaxBytes
    /\ Start(f, "write", offset, offset + n, 0)
    /\ UNCHANGED <<fs, size, disk, cuts>>

(* The bytes of one block, from pos on, are copied into it.                 *)
Copy(s, f, j) ==
    LET b == Address(s, f, j.pos \div BLOCK_SIZE)
    IN  IF s.panic # "" THEN s
        ELSE [s EXCEPT !.data[b] = [k \in Bytes |->
                LET at == (j.pos \div BLOCK_SIZE) * BLOCK_SIZE + k
                IN  IF j.pos <= at /\ at < j.end THEN <<f, at>> ELSE @[k]]]

WriteBlock(f) ==
    /\ Working(f, "write")
    /\ job[f].pos < job[f].end
    /\ fs' = Copy(BlockMap(fs, f, job[f].pos \div BLOCK_SIZE), f, job[f])
    /\ job' = [job EXCEPT ![f].pos = Advance(job[f])]
    /\ UNCHANGED <<size, disk, cuts>>

(* The inode is updated if the file has grown.                              *)
WriteEnd(f) ==
    /\ Working(f, "write")
    /\ job[f].pos = job[f].end
    /\ \/ /\ job[f].pos > size[f]
          /\ size' = [size EXCEPT ![f] = job[f].pos]
          /\ UpdateNode(f, job[f].pos)
       \/ /\ job[f].pos <= size[f]
          /\ UNCHANGED <<size, disk>>
    /\ Finish(f)
    /\ UNCHANGED <<fs, cuts>>

-----------------------------------------------------------------------------

(* cofs_truncate(f, length): block numbers fbs to fbe - 1, where fbe is one
   more than the number of full blocks.                                     *)
Fbe(f) == size[f] \div BLOCK_SIZE + 1

(* The block numbers reach one block past the end of a file whose last block
   is full.  Past the direct blocks, that block is looked up all the same.  *)
PastEnd(f) == size[f] % BLOCK_SIZE = 0 /\ size[f] \div BLOCK_SIZE >= NUM_DIRECT

(* The two conditions on length are cofs_truncate's assertions.             *)
Truncate(f, length) ==
    /\ Working(f, "idle")
    /\ length <= size[f] /\ length % BLOCK_SIZE = 0
    /\ Aligned \/ ~PastEnd(f)
    /\ Start(f, "truncate", length \div BLOCK_SIZE, Fbe(f), length)
    /\ cuts < MaxCuts
    /\ cuts' = cuts + 1
    /\ UNCHANGED <<fs, size, disk>>

Cleared(s, b) == \A k \in Words : s.words[b][k] = 0

(* scan_block finds nothing left in the indirect block that slot holds.     *)
FreeEmpty(s, slot) ==
    IF Cleared(s, Get(s, slot)) THEN Set(BlockFree(s, Get(s, slot)), slot, 0) ELSE s

(* Frees the block that slot holds and clears the slot.                     *)
FreeSlot(s, slot) == BlockFree(Set(s, slot, 0), Get(s, slot))

(* One turn of the loop.                                                    *)
FreeFileBlock(s, f, n) ==
    LET single == InInode(f, SIND_IDX)
        double == InInode(f, DIND_IDX)
        mid == InBlock(Get(s, double), Midx(n))
    IN  IF n < NUM_DIRECT
        THEN IF Get(s, InInode(f, n)) = 0 THEN s ELSE FreeSlot(s, InInode(f, n))
        ELSE IF n < NUM_DIRECT + NUM_SIND
        THEN FreeEmpty(FreeSlot(s, InBlock(Get(s, single), n - NUM_DIRECT)), single)
        ELSE IF n < NUM_DIRECT + NUM_SIND + NUM_DIND
        THEN FreeEmpty(FreeEmpty(FreeSlot(s, InBlock(Get(s, mid), Sidx(n))), mid), double)
        ELSE s

TruncateBlock(f) ==
    /\ Working(f, "truncate")
    /\ job[f].pos < job[f].end
    /\ fs' = FreeFileBlock(fs, f, job[f].pos)
    /\ job' = [job EXCEPT ![f].pos = @ + 1]
    /\ UNCHANGED <<size, disk, cuts>>

(* Faulty variant: the inode on disk keeps its size and block numbers.      *)
TruncateEndUnsaved(f) ==
    /\ Working(f, "truncate")
    /\ job[f].pos >= job[f].end
    /\ size' = [size EXCEPT ![f] = job[f].length]
    /\ Finish(f)
    /\ UNCHANGED <<fs, disk, cuts>>

TruncateEnd(f) ==
    /\ Working(f, "truncate")
    /\ job[f].pos >= job[f].end
    /\ size' = [size EXCEPT ![f] = job[f].length]
    /\ UpdateNode(f, job[f].length)
    /\ Finish(f)
    /\ UNCHANGED <<fs, cuts>>

-----------------------------------------------------------------------------
Next ==
    \E f \in Files :
        \/ \E offset \in Offsets \cup {size[f]}, n \in Counts :
              Read(f, offset, n) \/ Write(f, offset, n)
        \/ \E length \in 0..size[f] : Truncate(f, length)
        \/ ReadBlock(f) \/ ReadEnd(f)
        \/ WriteBlock(f) \/ WriteEnd(f)
        \/ TruncateBlock(f) \/ TruncateEnd(f)

Spec == Init /\ [][Next]_vars

-----------------------------------------------------------------------------
(* Every slot of file f, those in its indirect blocks too.                  *)
SlotsIn(b) == IF b = 0 THEN {} ELSE {InBlock(b, k) : k \in Words}
Slots(f) ==
    LET inode == {InInode(f, k) : k \in Addrs}
        single == SlotsIn(fs.addrs[f][SIND_IDX])
        double == SlotsIn(fs.addrs[f][DIND_IDX])
        third == UNION {SlotsIn(Get(fs, m)) : m \in double}
    IN  inode \cup single \cup double \cup third

Used(f) == {s \in Slots(f) : Get(fs, s) # 0}
UsedSlots == UNION {Used(f) : f \in Files}

(* The blocks marked in the bitmap are those some inode or indirect block
   names, and the file system's own: none is lost, none is in use unmarked,
   also while calls on two files are half done and when the disk is full.   *)
BitmapExact == fs.bitmap = Meta \cup {Get(fs, s) : s \in UsedSlots}

(* No block is named twice: not by two files, not as data of one file and as
   block of block numbers of another, and never one of the file system's own. *)
NoSharing ==
    /\ \A s, t \in UsedSlots : Get(fs, s) = Get(fs, t) => s = t
    /\ \A s \in UsedSlots : Get(fs, s) \notin Meta

(* Every byte of a file, but of one that is just being truncated, is found by
   block_map's way where cofs_write has put it, whatever has been written,
   truncated and written again, to this file or to another.                 *)
ContentsRight ==
    \A f \in Files : job[f].op # "truncate" =>
        \A k \in 0..(size[f] - 1) :
            fs.data[Address(fs, f, k \div BLOCK_SIZE)][k % BLOCK_SIZE] = <<f, k>>

(* Between calls the inode on disk has the size and the block numbers of the
   node in memory.  cofs_write saves it only when the file has grown, and
   cofs_read, which maps blocks too, never: it rests on the file having all
   its blocks.                                                              *)
DiskAgrees ==
    \A f \in Files : job[f].op = "idle" => disk[f] = [size |-> size[f], addrs |-> fs.addrs[f]]

Ceil(a, b) == (a + b - 1) \div b

(* The blocks a file of this size needs, those of block numbers too.        *)
BlocksNeeded(bytes) ==
    LET n == Ceil(bytes, BLOCK_SIZE)
        tail == IF n > NUM_DIRECT + NUM_SIND THEN n - NUM_DIRECT - NUM_SIND ELSE 0
    IN  n + (IF n > NUM_DIRECT THEN 1 ELSE 0)
          + (IF tail > 0 THEN 1 + Ceil(tail, NUM_SIND) ELSE 0)

(* Between calls a file holds exactly the blocks that its size needs: all that
   a truncation cuts off is free again, the emptied indirect blocks too.    *)
NoSpare ==
    \A f \in Files : job[f].op = "idle" => Cardinality(Used(f)) = BlocksNeeded(size[f])

(* block_free is never given a free block: "Block %d allready free" is never
   the end.                                                                 *)
FreesAllocated == fs.panic # "already free"

(* The bitmap has exactly the blocks of files, each in one place, however calls on
   several files interleave and fail. *)
BlocksOwned ==
    /\ TypeOK
    /\ BitmapExact
    /\ NoSharing
    /\ NoSpare
    /\ FreesAllocated

(* Every byte of a file is where it was written, in memory and in the inode on the
   disk, also when the block was another file's before. *)
BlocksHold ==
    /\ ContentsRight
    /\ DiskAgrees
=============================================================================
