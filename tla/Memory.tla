------------------------------- MODULE Memory -------------------------------
(***************************************************************************)
(* Frames, page tables and address spaces (mem.c), as fork, exit, exec     *)
(* (task.c, sysproc.c) and the heaps of programs and of the kernel use     *)
(* them.  Each call is one step, as if interrupts were disabled.           *)
(*                                                                         *)
(* A page directory has an entry for every TablePages pages, which is the  *)
(* frame of a table, or 0.  Pages are numbered in the order of their       *)
(* addresses: first user stack and image (from page 0), then the user heap *)
(* (UHEAP_START), the kernel heap (HEAP_START, whose tables all address    *)
(* spaces share) and the kernel stack (from HEAP_END).  What is below, and *)
(* the reserved page, never changes and is left out.  Frames are           *)
(* interchangeable: the list of free ones is a set with its count, and     *)
(* gives the smallest.                                                     *)
(***************************************************************************)
EXTENDS Naturals, Integers, FiniteSets, FiniteSetsExt

CONSTANTS
    Procs,          \* tasks, of which FirstProc is the first
    FirstProc,
    NumFrames,      \* frames that reserve_memory found
    TablePages,     \* 1024
    UHEAP_START, HEAP_START, HEAP_END, NumPages,
    Images,         \* the images of programs: sets of pages, without the stack
    SbrkPages       \* increments, in pages

ASSUME MemoryAssumption ==
    /\ FirstProc \in Procs /\ NumFrames \in Nat /\ TablePages \in Nat \ {0}
    /\ 0 < UHEAP_START /\ UHEAP_START < HEAP_START /\ HEAP_START < HEAP_END /\ HEAP_END < NumPages
    /\ \A n \in {UHEAP_START, HEAP_START, HEAP_END, NumPages} : n \in Nat /\ n % TablePages = 0
    /\ \A image \in Images : image \subseteq 1..(UHEAP_START - 1)
    /\ SbrkPages \subseteq Int

VARIABLES
    memFrames,  \* free frames, num_pages, contents of the tables, whether the
                \* kernel stopped, and whether sbrk mapped a page outside the heap
    memDirs,    \* page_directory of a task: [frame, pde], NoDir when it has none
    memEnd,     \* heap->end_addr of a task, as a page
    kheapEnd,   \* kernel_heap->end_addr
    kheapLate   \* tables of the kernel heap made when there were two tasks

memVars == <<memFrames, memDirs, memEnd, kheapEnd, kheapLate>>

Frames == 1..NumFrames
Pdes == 0..(NumPages \div TablePages - 1)
Ptes == 0..(TablePages - 1)
PdeOf(page) == page \div TablePages
PteOf(page) == page % TablePages
NoDir == [frame |-> 0, pde |-> [d \in Pdes |-> 0]]
EmptyTable == [k \in Ptes |-> 0]

MemTypeOK ==
    /\ memFrames.free \subseteq Frames /\ memFrames.num \in Nat
    /\ memFrames.table \in [Frames -> [Ptes -> 0..NumFrames]]
    /\ memFrames.halt \in BOOLEAN /\ memFrames.stray \in BOOLEAN
    /\ \A p \in Procs : memDirs[p].frame \in 0..NumFrames /\ memDirs[p].pde \in [Pdes -> 0..NumFrames]
    /\ memEnd \in [Procs -> Int] /\ kheapEnd \in Nat

-----------------------------------------------------------------------------
(* Frames.  Operations take the frames s, and a directory d where they need
   one, and give new ones.                                                  *)

(* frame_alloc and frame_calloc; without a frame an assertion fails.        *)
FrameAlloc(s) ==
    IF s.free = {} \/ s.halt THEN [s |-> [s EXCEPT !.halt = TRUE], f |-> 1]
    ELSE [s |-> [s EXCEPT !.free = @ \ {Min(s.free)}, !.num = @ - 1,
                          !.table[Min(s.free)] = EmptyTable],
          f |-> Min(s.free)]

FrameFree(s, f) == [s EXCEPT !.free = @ \cup {f}, !.num = @ + 1, !.table[f] = EmptyTable]

(* is_mapped and virt_to_phys.                                              *)
MappedTo(s, d, page) == IF d.pde[PdeOf(page)] = 0 THEN 0 ELSE s.table[d.pde[PdeOf(page)]][PteOf(page)]

(* map: of a page whose table is missing, that comes first.                 *)
MapPage(s, d, page, f) ==
    LET a == FrameAlloc(s)
        missing == d.pde[PdeOf(page)] = 0
        e == IF missing THEN [d EXCEPT !.pde[PdeOf(page)] = a.f] ELSE d
        t == IF missing THEN a.s ELSE s
    IN [s |-> [t EXCEPT !.table[e.pde[PdeOf(page)]][PteOf(page)] = f], d |-> e]

(* A new frame for a page; the frame is taken before its table.             *)
MapNew(s, d, page) == LET a == FrameAlloc(s) IN MapPage(a.s, d, page, a.f)

(* free_page, and the loop of sbrk: of a page that is not mapped, virt_to_phys
   panics.                                                                  *)
FreePage(s, d, page) ==
    LET f == MappedTo(s, d, page) IN
    IF f = 0 THEN [s EXCEPT !.halt = TRUE]
    ELSE FrameFree([s EXCEPT !.table[d.pde[PdeOf(page)]][PteOf(page)] = 0], f)

(* The entries that all directories share.                                  *)
Linked(pde) == pde >= HEAP_START \div TablePages /\ pde < HEAP_END \div TablePages

(* Faulty variant: the frame of the table is forgotten.                     *)
FreePdeKeeping(s, d, pde) ==
    LET t == d.pde[pde]
        pages == {s.table[t][k] : k \in Ptes} \ {0}
    IN IF t = 0 THEN s ELSE FoldSet(LAMBDA f, acc : FrameFree(acc, f), s, pages)

(* free_pde: the frames of the pages, then that of the table.               *)
FreePde(s, d, pde) ==
    LET t == d.pde[pde]
        pages == {s.table[t][k] : k \in Ptes} \ {0}
    IN IF t = 0 THEN s ELSE FrameFree(FoldSet(LAMBDA f, acc : FrameFree(acc, f), s, pages), t)

(* clone_pde: a table of new frames for the pages that are present.         *)
ClonePde(s, e, d, pde) ==
    LET t == FrameAlloc(s)
        ClonePage(k, acc) ==
            IF s.table[d.pde[pde]][k] = 0 THEN acc
            ELSE LET a == FrameAlloc(acc) IN [a.s EXCEPT !.table[t.f][k] = a.f]
    IN [s |-> FoldSet(ClonePage, t.s, Ptes), d |-> [e EXCEPT !.pde[pde] = t.f]]

(* clone_directory: links what is shared and clones the rest.               *)
CloneDirectory(s, d) ==
    LET a == FrameAlloc(s)
        CloneEntry(pde, acc) ==
            IF d.pde[pde] = 0 THEN acc
            ELSE IF Linked(pde) THEN [acc EXCEPT !.d.pde[pde] = d.pde[pde]]
            ELSE ClonePde(acc.s, acc.d, d, pde)
    IN FoldSet(CloneEntry, [s |-> a.s, d |-> [NoDir EXCEPT !.frame = a.f]], Pdes)

(* free_directory.                                                          *)
FreeDirectory(s, d) ==
    FrameFree(FoldSet(LAMBDA pde, acc : IF Linked(pde) THEN acc ELSE FreePde(acc, d, pde), s, Pdes),
              d.frame)

(* _sbrk for n more pages: the end is tested when the page is there, so that the
   page that reaches it is reported as a failure, and so is every later one: it
   goes behind the heap, in the place of what is there.                     *)
SbrkGrow(s, d, end, start, max, n) ==
    LET OnePage(k, acc) ==
            IF acc.failed THEN acc
            ELSE LET m == MapNew(acc.s, acc.d, acc.end)
                 IN [s |-> [m.s EXCEPT !.stray = @ \/ acc.end >= max \/ acc.end < start],
                     d |-> m.d, end |-> acc.end + 1, failed |-> acc.end + 1 >= max]
    IN FoldSet(OnePage, [s |-> s, d |-> d, end |-> end, failed |-> FALSE], 1..n)

(* ... and for n less: with more than there is, the end stays below the start. *)
SbrkShrink(s, d, end, start, n) ==
    LET OnePage(k, acc) ==
            IF acc.end < start THEN acc
            ELSE [acc EXCEPT !.end = @ - 1,
                             !.s = IF acc.end - 1 < start THEN @ ELSE FreePage(@, d, acc.end - 1)]
    IN FoldSet(OnePage, [s |-> s, d |-> d, end |-> end], 1..n)

-----------------------------------------------------------------------------
(* mem_init and move_stack_up, and the kernel heap's first page: the first task. *)
FirstMemory ==
    LET s0 == [free |-> Frames, num |-> NumFrames, table |-> [f \in Frames |-> EmptyTable],
               halt |-> FALSE, stray |-> FALSE]
        a == FrameAlloc(s0)
        stack == MapNew(a.s, [NoDir EXCEPT !.frame = a.f], HEAP_END)
    IN MapNew(stack.s, stack.d, HEAP_START)

MemInit ==
    /\ memFrames = FirstMemory.s
    /\ memDirs = [p \in Procs |-> IF p = FirstProc THEN FirstMemory.d ELSE NoDir]
    /\ memEnd = [p \in Procs |-> UHEAP_START]
    /\ kheapEnd = HEAP_START + 1
    /\ kheapLate = {}

Existing == {p \in Procs : memDirs[p].frame # 0}

(* The end of a call.  When the kernel stopped nothing else matters.        *)
MemReturns(s, dirs, end) ==
    /\ memFrames' = IF s.halt THEN [FirstMemory.s EXCEPT !.halt = TRUE] ELSE s
    /\ memDirs' = IF s.halt THEN [p \in Procs |-> NoDir] ELSE dirs
    /\ memEnd' = IF s.halt THEN [p \in Procs |-> UHEAP_START] ELSE end

MemFork(p, q) ==
    /\ q \notin Existing
    /\ LET c == CloneDirectory(memFrames, memDirs[p])
       IN MemReturns(c.s, [memDirs EXCEPT ![q] = c.d], [memEnd EXCEPT ![q] = memEnd[p]])
    /\ UNCHANGED <<kheapEnd, kheapLate>>

(* task_free, called by another task.                                       *)
MemExit(p) ==
    /\ p # FirstProc
    /\ MemReturns(FreeDirectory(memFrames, memDirs[p]), [memDirs EXCEPT ![p] = NoDir],
                  [memEnd EXCEPT ![p] = UHEAP_START])
    /\ UNCHANGED <<kheapEnd, kheapLate>>

(* sys_sbrk.                                                                *)
MemSbrk(p, n) ==
    /\ LET g == IF n >= 0 THEN SbrkGrow(memFrames, memDirs[p], memEnd[p], UHEAP_START, HEAP_START, n)
                ELSE SbrkShrink(memFrames, memDirs[p], memEnd[p], UHEAP_START, -n)
       IN MemReturns(g.s, [memDirs EXCEPT ![p] = g.d], [memEnd EXCEPT ![p] = g.end])
    /\ UNCHANGED <<kheapEnd, kheapLate>>

(* sbrk, by the kernel's malloc and free, in the address space of p; free gives
   back less than there is.                                                 *)
KernelSbrk(p, n) ==
    /\ kheapEnd + n > HEAP_START
    /\ LET g == IF n >= 0 THEN SbrkGrow(memFrames, memDirs[p], kheapEnd, HEAP_START, HEAP_END, n)
                ELSE SbrkShrink(memFrames, memDirs[p], kheapEnd, HEAP_START, -n)
       IN /\ MemReturns(g.s, [memDirs EXCEPT ![p] = g.d], memEnd)
          /\ kheapEnd' = IF g.s.halt THEN HEAP_START + 1 ELSE g.end
          /\ kheapLate' =
                IF g.s.halt \/ Cardinality(Existing) = 1 THEN kheapLate
                ELSE kheapLate \cup {d \in Pdes : g.d.pde[d] # memDirs[p].pde[d]}

(* sys_exec frees the old image up to its first hole ...                    *)
ExecFreedImage(s, d) ==
    LET hole == Min({v \in 1..UHEAP_START : v = UHEAP_START \/ MappedTo(s, d, v) = 0})
    IN FoldSet(LAMBDA v, acc : FreePage(acc, d, v), s, 1..(hole - 1))

(* ... and the heap ...                                                     *)
ExecFreed(s, d, end) ==
    FoldSet(LAMBDA v, acc : FreePage(acc, d, v), ExecFreedImage(s, d), UHEAP_START..(end - 1))

(* ... then the pages of the new image that are not there, and the stack.   *)
MemExec(p, image) ==
    /\ LET s == ExecFreed(memFrames, memDirs[p], memEnd[p])
           Need(v, acc) == IF MappedTo(acc.s, acc.d, v) # 0 THEN acc ELSE MapNew(acc.s, acc.d, v)
           m == FoldSet(Need, [s |-> s, d |-> memDirs[p]], image \cup {0})
       IN MemReturns(m.s, [memDirs EXCEPT ![p] = m.d], [memEnd EXCEPT ![p] = UHEAP_START])
    /\ UNCHANGED <<kheapEnd, kheapLate>>

(* Nothing is said of what comes after a page went outside the heap.        *)
MemNext ==
    /\ ~memFrames.halt /\ ~memFrames.stray
    /\ \E p \in Existing :
           \/ \E q \in Procs : MemFork(p, q)
           \/ MemExit(p)
           \/ \E n \in SbrkPages : MemSbrk(p, n) \/ KernelSbrk(p, n)
           \/ \E image \in Images : MemExec(p, image)

-----------------------------------------------------------------------------
(* Who uses a frame: the directory, table or page of a task, or what is shared. *)
Uses(f) ==
    LET Owner(p, d) == IF Linked(d) THEN {} ELSE {p}
    IN  {<<p, "dir">> : p \in {q \in Existing : memDirs[q].frame = f}}
        \cup UNION {{<<Owner(p, d), "table", d>> : d \in {e \in Pdes : memDirs[p].pde[e] = f}} : p \in Existing}
        \cup UNION {UNION {{<<Owner(p, d), "page", d, k>> : k \in
                {m \in Ptes : memDirs[p].pde[d] # 0 /\ memFrames.table[memDirs[p].pde[d]][m] = f}} :
             d \in Pdes} : p \in Existing}

(* frame_alloc and frame_free keep account: through forks, exits, execs and
   moving breaks, also when sbrk fails half-way, every frame is free, or has one
   use, so that no task sees the memory of another, none is lost, and num_pages is
   right.  Left out is the kernel heap when it got a table that not all tasks
   have.  The exception is sbrk after a failure: when the heap was full, or more
   was given back than there was, it puts a page outside the heap.          *)
FramesExact ==
    ~memFrames.halt /\ ~memFrames.stray /\ kheapLate = {} =>
        /\ memFrames.num = Cardinality(memFrames.free)
        /\ \A f \in Frames : Cardinality(Uses(f)) = IF f \in memFrames.free THEN 0 ELSE 1

(* "All programs will see the same linked zones of memory": every page of the
   kernel heap is mapped, to one frame, in every address space; left out are
   tables made when there were other tasks, which only one of them has.     *)
KernelHeapShared ==
    ~memFrames.halt /\ ~memFrames.stray =>
        \A v \in HEAP_START..(kheapEnd - 1) : PdeOf(v) \notin kheapLate =>
            /\ \A p \in Existing : MappedTo(memFrames, memDirs[p], v) # 0
            /\ \A p, q \in Existing :
                   MappedTo(memFrames, memDirs[p], v) = MappedTo(memFrames, memDirs[q], v)

(* A task has its heap, all of it, and nothing behind it: exec and sbrk never
   meet a page that is not mapped, also in a task that was forked.          *)
UserHeapMapped ==
    ~memFrames.halt /\ ~memFrames.stray =>
        \A p \in Existing, v \in UHEAP_START..(HEAP_START - 1) :
            (MappedTo(memFrames, memDirs[p], v) # 0) = (v < memEnd[p])

(* Through fork, exec, sbrk and exit, until memory is full: a frame has one owner or
   is free, and what tasks own or share is mapped; until sbrk, after a failure,
   puts a page outside the heap.                                            *)
MemSafety ==
    /\ MemTypeOK
    /\ FramesExact
    /\ KernelHeapShared
    /\ UserHeapMapped
=============================================================================
