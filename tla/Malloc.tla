------------------------------- MODULE Malloc -------------------------------
(***************************************************************************)
(* The heap of a program, or of the kernel (lib/malloc.c): a list of blocks *)
(* that cover the memory up to the break, moved by sbrk (mem.c).           *)
(*                                                                         *)
(* Addresses and sizes count words of 4 bytes; sizes are rounded up to     *)
(* whole words.  The kernel's calls take no lock: here they do not overlap. *)
(***************************************************************************)
EXTENDS Naturals, Integers, Sequences, FiniteSets, SequencesExt, FiniteSetsExt

CONSTANTS
    PageWords,      \* PAGE_SIZE
    MetaWords,      \* sizeof(block_meta_t)
    MallocSizes,    \* sizes that programs ask for
    MaxPtrs,        \* bound of the blocks in use
    MaxBreak        \* bound of the break

ASSUME MallocAssumption ==
    /\ PageWords \in Nat \ {0} /\ MetaWords \in 1..(PageWords - 1)
    /\ MallocSizes \subseteq Nat \ {0} /\ MaxPtrs \in Nat /\ MaxBreak \in Nat

VARIABLES
    heapBlocks, \* the list from first_block on: [addr, size, free]
    heapBreak,  \* sbrk(0), from the start of the heap
    heapPtrs,   \* what the program holds: [ptr, size], the size it asked for
    heapFreed   \* was the last call free()?

heapVars == <<heapBlocks, heapBreak, heapPtrs, heapFreed>>

HeapInit == heapBlocks = <<>> /\ heapBreak = 0 /\ heapPtrs = {} /\ heapFreed = FALSE

Block(addr, size, free) == [addr |-> addr, size |-> size, free |-> free]

(* init_first_block.                                                        *)
FirstBlocks == IF heapBlocks = <<>> THEN <<Block(0, PageWords - MetaWords, TRUE)>> ELSE heapBlocks
FirstBreak == IF heapBlocks = <<>> THEN PageWords ELSE heapBreak

(* The first free block that is large enough, or the last one.              *)
Fit(blocks, size) ==
    Min({k \in 1..Len(blocks) : blocks[k].free /\ (blocks[k].size >= size + MetaWords \/ k = Len(blocks))})

(* The last block asks for pages until it is large enough.                  *)
PagesToGrow(block, size) ==
    IF block.size >= size + MetaWords THEN 0
    ELSE (size + MetaWords - block.size + PageWords - 1) \div PageWords

(* Faulty variant: the header of the rest is not accounted for.             *)
RestNoMeta(block, size) == Block(block.addr + MetaWords + size, block.size - size, TRUE)

(* What is left of a block behind the part that is taken: a free block, perhaps
   of size 0.                                                               *)
Rest(block, size) == Block(block.addr + MetaWords + size, block.size - size - MetaWords, TRUE)

(* malloc.                                                                  *)
HeapTake(blocks, brk, size) ==
    LET k == Fit(blocks, size)
        n == PagesToGrow(blocks[k], size) * PageWords
        b == [blocks[k] EXCEPT !.size = @ + n]
    IN [blocks |-> SubSeq(blocks, 1, k - 1) \o <<Block(b.addr, size, FALSE), Rest(b, size)>>
                   \o SubSeq(blocks, k + 1, Len(blocks)),
        brk |-> brk + n,
        ptr |-> b.addr + MetaWords]

(* free: the block is joined with the next one, if that is free ...         *)
JoinedNext(blocks, k) ==
    IF k < Len(blocks) /\ blocks[k + 1].free
    THEN SubSeq(blocks, 1, k - 1)
         \o <<Block(blocks[k].addr, blocks[k].size + MetaWords + blocks[k + 1].size, TRUE)>>
         \o SubSeq(blocks, k + 2, Len(blocks))
    ELSE [blocks EXCEPT ![k].free = TRUE]

(* ... then with the one before.                                            *)
Joined(blocks, k) ==
    LET b == JoinedNext(blocks, k) IN
    IF k > 1 /\ b[k - 1].free
    THEN SubSeq(b, 1, k - 2) \o <<Block(b[k - 1].addr, b[k - 1].size + MetaWords + b[k].size, TRUE)>>
         \o SubSeq(b, k + 1, Len(b))
    ELSE b

(* MIN_HEAP_CONTRACT_SIZE from the page where the last block starts.        *)
ContractEnd(start) == (start \div PageWords) * PageWords + 2 * PageWords

(* heap_contract: the end of a last block of more than a page goes back.    *)
Contracted(blocks, brk) ==
    LET n == Len(blocks)
        start == blocks[n].addr + MetaWords
    IN IF blocks[n].size > PageWords
       THEN [blocks |-> [blocks EXCEPT ![n].size = ContractEnd(start) - start], brk |-> ContractEnd(start)]
       ELSE [blocks |-> blocks, brk |-> brk]

HeapGive(blocks, brk, ptr) ==
    Contracted(Joined(blocks, CHOOSE k \in 1..Len(blocks) : blocks[k].addr + MetaWords = ptr), brk)

-----------------------------------------------------------------------------
(* malloc, and calloc, which clears what malloc returned.                   *)
HeapMalloc(size) ==
    /\ Cardinality(heapPtrs) < MaxPtrs
    /\ LET a == HeapTake(FirstBlocks, FirstBreak, size) IN
       /\ a.brk <= MaxBreak
       /\ heapBlocks' = a.blocks /\ heapBreak' = a.brk
       /\ heapPtrs' = heapPtrs \cup {[ptr |-> a.ptr, size |-> size]}
    /\ heapFreed' = FALSE

HeapFree(p) ==
    /\ LET g == HeapGive(heapBlocks, heapBreak, p.ptr) IN heapBlocks' = g.blocks /\ heapBreak' = g.brk
    /\ heapPtrs' = heapPtrs \ {p}
    /\ heapFreed' = TRUE

(* realloc: a new block, then the old one is given back.  Of a size 0 the old
   one is given back twice: programs of the model do not ask for that.      *)
HeapRealloc(p, size) ==
    /\ LET a == HeapTake(heapBlocks, heapBreak, size)
           g == HeapGive(a.blocks, a.brk, p.ptr)
       IN /\ a.brk <= MaxBreak
          /\ heapBlocks' = g.blocks /\ heapBreak' = g.brk
          /\ heapPtrs' = (heapPtrs \ {p}) \cup {[ptr |-> a.ptr, size |-> size]}
    /\ heapFreed' = TRUE

HeapNext ==
    \/ \E size \in MallocSizes : HeapMalloc(size) \/ \E p \in heapPtrs : HeapRealloc(p, size)
    \/ \E p \in heapPtrs : HeapFree(p)

HeapSpec == HeapInit /\ [][HeapNext]_heapVars

-----------------------------------------------------------------------------
(* The assertions of malloc and heap_contract, and what they rest on: the blocks
   cover the heap without gap or overlap up to the break, which sbrk has moved
   by whole pages, and the last one is free.                                *)
HeapTiled ==
    heapBlocks # <<>> =>
        LET n == Len(heapBlocks) IN
        /\ heapBlocks[1].addr = 0 /\ heapBlocks[n].free
        /\ \A k \in 1..n :
               heapBlocks[k].addr + MetaWords + heapBlocks[k].size =
                   IF k = n THEN heapBreak ELSE heapBlocks[k + 1].addr
        /\ heapBreak % PageWords = 0

(* What a program holds is what is not free, at least as large as it asked for:
   so two pointers never share memory, and none is left behind the break.   *)
HeapPointersRight ==
    /\ {heapBlocks[k].addr + MetaWords : k \in {m \in 1..Len(heapBlocks) : ~heapBlocks[m].free}}
           = {p.ptr : p \in heapPtrs}
    /\ \A p \in heapPtrs, k \in 1..Len(heapBlocks) :
           heapBlocks[k].addr + MetaWords = p.ptr => heapBlocks[k].size >= p.size

(* Free blocks are joined as soon as there are two, and after a free() the heap
   ends at most two pages behind the start of the last block: memory that was
   given back is found again.                                               *)
HeapCompact ==
    /\ \A k \in 1..(Len(heapBlocks) - 1) : ~(heapBlocks[k].free /\ heapBlocks[k + 1].free)
    /\ heapFreed => LET b == heapBlocks[Len(heapBlocks)] IN
                    heapBreak - (b.addr + MetaWords) <= 2 * PageWords

(* After any sequence of malloc, free and realloc the blocks tile the heap, what was
   given out is large enough and apart, and free neighbours are joined. *)
HeapSafety ==
    /\ HeapTiled
    /\ HeapPointersRight
    /\ HeapCompact
=============================================================================
