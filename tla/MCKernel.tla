------------------------------ MODULE MCKernel ------------------------------
(***************************************************************************)
(* Disk buffers, the blocks of files, heaps and address spaces, side by    *)
(* side: a behaviour is one of one of them.  Block 0 is the file system's. *)
(***************************************************************************)
EXTENDS HdQueue, CofsBlocks, Malloc, Memory, TLC

VARIABLE kernelPart

mcKernelVars == <<kernelPart, hdVars, vars, heapVars, memVars>>

MCKernelInit ==
    /\ kernelPart \in {"disk", "blocks", "heap", "memory"}
    /\ HdInit /\ Init /\ HeapInit /\ MemInit

MCKernelNext ==
    /\ UNCHANGED kernelPart
    /\ \/ kernelPart = "disk" /\ HdNext /\ UNCHANGED <<vars, heapVars, memVars>>
       \/ kernelPart = "blocks" /\ Next /\ UNCHANGED <<hdVars, heapVars, memVars>>
       \/ kernelPart = "heap" /\ HeapNext /\ UNCHANGED <<hdVars, vars, memVars>>
       \/ kernelPart = "memory" /\ MemNext /\ UNCHANGED <<hdVars, vars, heapVars>>

MCKernelSpec == MCKernelInit /\ [][MCKernelNext]_mcKernelVars

(* Frames are interchangeable: which uses of frames are uses of the same frame
   is all that matters of their numbers.  A behaviour ends at a stray page.*)
FramesOf(p) ==
    <<memDirs[p].frame>>
    \o [d \in 1..Cardinality(Pdes) |-> memDirs[p].pde[d - 1]]
    \o [v \in 1..NumPages |-> MappedTo(memFrames, memDirs[p], v - 1)]

MemView ==
    LET used == FlattenSeq([p \in Procs |-> FramesOf(p)])
    IN IF memFrames.stray THEN <<memEnd, kheapEnd>> ELSE
       <<[k \in DOMAIN used |-> IF used[k] = 0 THEN 0 ELSE Min({m \in 1..k : used[m] = used[k]})],
         {k \in DOMAIN used : used[k] \in memFrames.free},
         Cardinality(memFrames.free), memFrames.num, memFrames.halt, memEnd, kheapEnd, kheapLate>>

(* After a race only the states of the buffers matter: contents decide nothing. *)
HdView ==
    <<num_items, qlock, block_no, is_dirty, hdRefs, hdLock, hdPc, hdb, hdCount, hdRaced, hdTorn,
      [t \in DiskTasks |-> IF hdPc[t] = "out" THEN NoTask ELSE hdWant[t]],
      IF hdRaced THEN <<>> ELSE <<hdDisk, hdBuf, hdLatest>>>>

KernelView ==
    <<kernelPart, CASE kernelPart = "disk" -> HdView [] kernelPart = "blocks" -> vars
                    [] kernelPart = "heap" -> heapVars [] kernelPart = "memory" -> MemView>>

(* Files are interchangeable.                                               *)
FileSymmetry == Permutations(Files)

MCBlocks == 0..10
MCMeta == {0}
MCImages == {{1}, {}}
MCSbrkPages == {-1, 2}
=============================================================================
