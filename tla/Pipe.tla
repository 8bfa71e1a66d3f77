-------------------------------- MODULE Pipe --------------------------------
(***************************************************************************)
(* A pipe (pipe.c) and the descriptors that refer to its two ends: the     *)
(* parts of fork_int, task_exit, task_free (task.c), sys_pipe, sys_dup and *)
(* sys_close (sysfile.c) that create, copy and drop them.                  *)
(*                                                                         *)
(* System calls are preemptible: every step of one task may be followed by *)
(* a step of another, also while the first holds the spin lock.  fork_int  *)
(* runs with interrupts disabled.  held is the task that has switch_locked *)
(* set while it reaps a child: nobody else runs then.                      *)
(*                                                                         *)
(* read_pos, write_pos, readers and writers are unsigned int: all          *)
(* arithmetic on them is modulo Word.                                      *)
(***************************************************************************)
EXTENDS Integers, FiniteSets, Sequences

CONSTANTS
    Tasks,    \* bound: the tasks that ever exist
    Creator,  \* the task that called pipe()
    None,     \* no task
    Slots,    \* bound: descriptors of one task for one end
    Size,     \* pipe->size
    Word,     \* number of values of an unsigned int
    Bytes,    \* byte values
    Counts,   \* the counts given to read() and write()
    Does      \* what programs do besides read, write and close

ASSUME PipeAssumption ==
    /\ Creator \in Tasks /\ None \notin Tasks
    /\ IsFiniteSet(Tasks) /\ IsFiniteSet(Slots) /\ 1 \in Slots
    /\ Size \in Nat \ {0} /\ Word \in Nat /\ Word > Size /\ Word % Size = 0
    /\ Counts \subseteq Nat
    /\ Bytes # {}
    /\ Does \subseteq {"fork", "dup", "exit", "kill"}

VARIABLES
    buffer, read_pos, write_pos,  \* pipe->...
    readers, writers,             \* pipe->readers, pipe->writers
    lock,                         \* who holds pipe->lock
    freed,                        \* has pipe_close freed the pipe?
    ref_count,                    \* ref_count of the two fs_nodes
    open,                         \* files[]: <<task, end, slot>>
    dupped,                       \* history: ends that dup made a descriptor of
    held,                         \* who holds switch_locked
    parent,                       \* parent of a task
    pc,                           \* where a task is
    size, i,                      \* locals of pipe_read and pipe_write
    arg,                          \* the descriptor being closed
    child                         \* the child being reaped

ring == <<buffer, read_pos, write_pos>>
counts == <<readers, writers, freed, ref_count, open, dupped>>
rw == <<size, i>>
reaping == <<held, parent, arg, child>>
vars == <<ring, counts, lock, reaping, pc, rw>>

Ends == {"r", "w"}
Descriptors == Tasks \X Ends \X Slots
NoDescriptor == <<None, "r", 1>>

Reading == {"read", "rtest", "copy", "rgap", "rsleep"}
Writing == {"write", "put", "wgap", "wsleep"}
Closing == {"close", "closing", "closed", "reap"}
Locked == {"rtest", "copy", "put", "closing"}
Locations == Reading \cup Writing \cup Closing \cup {"none", "user", "zombie", "freed"}

Index(pos) == pos % Size
Used == (write_pos - read_pos) % Word
Empty == read_pos = write_pos

(* pos++ of an unsigned int.                                                *)
Inc(pos) == (pos + 1) % Word

Fds(t) == {d \in open : d[1] = t}

TypeOK ==
    /\ buffer \in [0..(Size - 1) -> Bytes]
    /\ read_pos \in 0..(Word - 1) /\ write_pos \in 0..(Word - 1)
    /\ readers \in 0..(Word - 1) /\ writers \in 0..(Word - 1)
    /\ lock \in Tasks \cup {None} /\ held \in Tasks \cup {None}
    /\ freed \in BOOLEAN
    /\ ref_count \in [Ends -> Int]
    /\ open \subseteq Descriptors /\ dupped \subseteq Ends
    /\ parent \in [Tasks -> Tasks \cup {None}]
    /\ pc \in [Tasks -> Locations]
    /\ size \in [Tasks -> Nat] /\ i \in [Tasks -> Nat]
    /\ arg \in [Tasks -> Descriptors \cup {NoDescriptor}]
    /\ child \in [Tasks -> Tasks \cup {None}]

(* sys_pipe has returned: pipe_new made the pipe, pipe_open opened each end
   once.  The contents of the buffer are whatever malloc returned.          *)
Init ==
    /\ buffer \in {[k \in 0..(Size - 1) |-> b] : b \in Bytes}
    /\ read_pos = 0 /\ write_pos = 0
    /\ readers = 1 /\ writers = 1
    /\ lock = None /\ held = None
    /\ freed = FALSE
    /\ ref_count = [e \in Ends |-> 1]
    /\ open = {<<Creator, e, 1>> : e \in Ends} /\ dupped = {}
    /\ parent = [t \in Tasks |-> None]
    /\ pc = [t \in Tasks |-> IF t = Creator THEN "user" ELSE "none"]
    /\ size = [t \in Tasks |-> 0] /\ i = [t \in Tasks |-> 0]
    /\ arg = [t \in Tasks |-> NoDescriptor]
    /\ child = [t \in Tasks |-> None]

-----------------------------------------------------------------------------
(* t executes at location l: nobody else has locked the scheduler.  Nothing
   is said of what happens after the pipe has been freed.                   *)
At(t, l) == pc[t] = l /\ held \in {None, t} /\ ~freed
Goto(t, l) == pc' = [pc EXCEPT ![t] = l]

(* The locals of a finished call are forgotten.                             *)
Forget(t) ==
    /\ size' = [size EXCEPT ![t] = 0]
    /\ i' = [i EXCEPT ![t] = 0]

(* t goes on at l after wakeup(&pipe->write_pos) or wakeup(&pipe->read_pos):
   the sleepers return from sleep_on and retry the lock.                    *)
WakeWritersAndGoto(t, l) ==
    pc' = [[u \in Tasks |-> IF pc[u] = "wsleep" THEN "write" ELSE pc[u]] EXCEPT ![t] = l]
WakeReadersAndGoto(t, l) ==
    pc' = [[u \in Tasks |-> IF pc[u] = "rsleep" THEN "read" ELSE pc[u]] EXCEPT ![t] = l]

(* spin_lock(&pipe->lock): the task spins until the lock is free.           *)
SpinLock(t) == lock = None /\ lock' = t
SpinUnlock == lock' = None

Lock(t) ==
    /\ \/ At(t, "read") /\ Goto(t, "rtest")
       \/ At(t, "write") /\ Goto(t, "put")
       \/ At(t, "close") /\ Goto(t, "closing")
    /\ SpinLock(t)
    /\ UNCHANGED <<ring, counts, reaping, rw>>

(* sleep_on(&pipe->read_pos) or sleep_on(&pipe->write_pos), with the spin
   lock already released.                                                   *)
Sleep(t) ==
    /\ \/ At(t, "rgap") /\ Goto(t, "rsleep")
       \/ At(t, "wgap") /\ Goto(t, "wsleep")
    /\ UNCHANGED <<ring, counts, lock, reaping, rw>>

(* A signal that does not terminate t makes it AWAKEN.                      *)
Awaken(t) ==
    /\ \/ At(t, "rsleep") /\ Goto(t, "read")
       \/ At(t, "wsleep") /\ Goto(t, "write")
    /\ UNCHANGED <<ring, counts, lock, reaping, rw>>

-----------------------------------------------------------------------------
(* pipe_read and pipe_write.                                                *)

(* t owns a descriptor of the end and calls read() or write() with it.      *)
Call(t, e, n) ==
    /\ At(t, "user")
    /\ \E d \in Fds(t) : d[2] = e
    /\ Goto(t, IF e = "r" THEN "read" ELSE "write")
    /\ size' = [size EXCEPT ![t] = n]
    /\ i' = [i EXCEPT ![t] = 0]
    /\ UNCHANGED <<ring, counts, lock, reaping>>

(* Faulty variant: pipe_read does not block.                                *)
NeverWaits == FALSE

(* Nothing to read and somebody may still write.                            *)
MustWait == Empty /\ writers > 0

(* The loop of pipe_read releases the lock before it sleeps.                *)
ReadWait(t) ==
    /\ At(t, "rtest")
    /\ MustWait
    /\ SpinUnlock
    /\ Goto(t, "rgap")
    /\ UNCHANGED <<ring, counts, reaping, rw>>

ReadGo(t) ==
    /\ At(t, "rtest")
    /\ ~MustWait
    /\ Goto(t, "copy")
    /\ UNCHANGED <<ring, counts, lock, reaping, rw>>

ReadByte(t) ==
    /\ At(t, "copy")
    /\ i[t] < size[t] /\ ~Empty
    /\ read_pos' = Inc(read_pos)
    /\ i' = [i EXCEPT ![t] = @ + 1]
    /\ UNCHANGED <<buffer, write_pos, counts, lock, reaping, pc, size>>

ReadReturn(t) ==
    /\ At(t, "copy")
    /\ i[t] = size[t] \/ Empty
    /\ WakeWritersAndGoto(t, "user")
    /\ SpinUnlock
    /\ Forget(t)
    /\ UNCHANGED <<ring, counts, reaping>>

(* Faulty variant: full one byte too late.                                  *)
NoRoomLate == write_pos = (read_pos + Size + 1) % Word

(* The buffer is full.                                                      *)
NoRoom == write_pos = (read_pos + Size) % Word

(* Faulty variant: ++write_pos instead of write_pos++.                      *)
PlaceAfter == Index(write_pos + 1)

(* Where the next byte is stored.                                           *)
Place == Index(write_pos)

WriteByte(t) ==
    /\ At(t, "put")
    /\ i[t] < size[t] /\ ~NoRoom
    /\ \E b \in Bytes : buffer' = [buffer EXCEPT ![Place] = b]
    /\ write_pos' = Inc(write_pos)
    /\ i' = [i EXCEPT ![t] = @ + 1]
    /\ UNCHANGED <<read_pos, counts, lock, reaping, pc, size>>

(* A full buffer that nobody will read: pipe_write returns 0.               *)
WriteBroken(t) ==
    /\ At(t, "put")
    /\ i[t] < size[t] /\ NoRoom /\ readers = 0
    /\ SpinUnlock
    /\ Goto(t, "user")
    /\ Forget(t)
    /\ UNCHANGED <<ring, counts, reaping>>

WriteWait(t) ==
    /\ At(t, "put")
    /\ i[t] < size[t] /\ NoRoom /\ readers # 0
    /\ WakeReadersAndGoto(t, "wgap")
    /\ SpinUnlock
    /\ UNCHANGED <<ring, counts, reaping, rw>>

WriteReturn(t) ==
    /\ At(t, "put")
    /\ i[t] = size[t]
    /\ WakeReadersAndGoto(t, "user")
    /\ SpinUnlock
    /\ Forget(t)
    /\ UNCHANGED <<ring, counts, reaping>>

-----------------------------------------------------------------------------
(* Descriptors.                                                             *)

Card(S) == Cardinality(S)

(* Faulty variant: the ends that a child inherits are not counted.          *)
InheritUncounted(t, e) == 0

(* What fork_int adds to pipe->readers or pipe->writers: one for each
   descriptor it copies.                                                    *)
Inherit(t, e) == Card({d \in Fds(t) : d[2] = e})

Fork(t, u) ==
    /\ "fork" \in Does
    /\ At(t, "user")
    /\ pc[u] = "none"
    /\ open' = open \cup {<<u, d[2], d[3]>> : d \in Fds(t)}
    /\ readers' = (readers + Inherit(t, "r")) % Word
    /\ writers' = (writers + Inherit(t, "w")) % Word
    /\ ref_count' = [e \in Ends |-> ref_count[e] + Card({d \in Fds(t) : d[2] = e})]
    /\ parent' = [parent EXCEPT ![u] = t]
    /\ Goto(u, "user")
    /\ UNCHANGED <<ring, freed, dupped, lock, held, arg, child, rw>>

(* sys_dup shares the struct file and counts the reference of the fs_node.  *)
Dup(t, d, s) ==
    /\ "dup" \in Does
    /\ At(t, "user")
    /\ d \in Fds(t)
    /\ <<t, d[2], s>> \notin open
    /\ open' = open \cup {<<t, d[2], s>>}
    /\ ref_count' = [ref_count EXCEPT ![d[2]] = @ + 1]
    /\ dupped' = dupped \cup {d[2]}
    /\ UNCHANGED <<ring, readers, writers, freed, lock, reaping, pc, rw>>

(* sys_close enters pipe_close.                                             *)
Close(t, d) ==
    /\ At(t, "user")
    /\ d \in Fds(t)
    /\ arg' = [arg EXCEPT ![t] = d]
    /\ Goto(t, "close")
    /\ UNCHANGED <<ring, counts, lock, held, parent, child, rw>>

(* pipe_close frees the pipe: neither readers nor writers left.             *)
LastClose(r, w) == r = 0 /\ w = 0

(* pipe_close with the lock held.  Its wakeup clears switch_locked, also
   when task_free called it.                                                *)
PipeClose(t) ==
    LET e == arg[t][2]
        r == (IF e = "r" THEN readers - 1 ELSE readers) % Word
        w == (IF e = "w" THEN writers - 1 ELSE writers) % Word
        next == IF child[t] = None THEN "closed" ELSE "reap"
    IN  /\ At(t, "closing")
        /\ readers' = r /\ writers' = w
        /\ ref_count' = [ref_count EXCEPT ![e] = @ - 1]
        /\ IF e = "r" THEN WakeWritersAndGoto(t, next) ELSE WakeReadersAndGoto(t, next)
        /\ held' = None
        /\ freed' = (freed \/ LastClose(r, w))
        /\ open' = IF child[t] = None THEN open ELSE open \ {arg[t]}
        /\ SpinUnlock
        /\ UNCHANGED <<ring, dupped, parent, arg, child, rw>>

(* sys_close clears files[fd] after pipe_close has returned.                *)
ClearFd(t) ==
    /\ At(t, "closed")
    /\ open' = open \ {arg[t]}
    /\ arg' = [arg EXCEPT ![t] = NoDescriptor]
    /\ Goto(t, "user")
    /\ UNCHANGED <<ring, readers, writers, freed, ref_count, dupped, lock, held, parent, child, rw>>

(* task_exit: the task leaves its descriptors to whoever frees it.  A
   terminating signal is handled at any switch, wherever the task is.  Only
   tasks without children exit here: Task.tla has the others.              *)
Exit(t) ==
    /\ t # Creator
    /\ \/ "exit" \in Does /\ At(t, "user")
       \/ "kill" \in Does /\ \E l \in Reading \cup Writing \cup Closing : At(t, l)
    /\ \A u \in Tasks : parent[u] # t
    /\ child[t] = None
    /\ Goto(t, "zombie")
    /\ Forget(t)
    /\ arg' = [arg EXCEPT ![t] = NoDescriptor]
    /\ UNCHANGED <<ring, counts, lock, held, parent, child>>

(* task_wait unlinks a zombie and calls task_free, scheduler locked.        *)
Reap(t, z) ==
    /\ At(t, "user")
    /\ pc[z] = "zombie" /\ parent[z] = t
    /\ child' = [child EXCEPT ![t] = z]
    /\ parent' = [parent EXCEPT ![z] = None]
    /\ held' = t
    /\ pc' = [pc EXCEPT ![t] = "reap", ![z] = "freed"]
    /\ UNCHANGED <<ring, counts, lock, arg, rw>>

(* task_free calls fs_close for each descriptor left.                       *)
ReapClose(t) ==
    /\ At(t, "reap")
    /\ \E d \in Fds(child[t]) : arg' = [arg EXCEPT ![t] = d]
    /\ Goto(t, "close")
    /\ UNCHANGED <<ring, counts, lock, held, parent, child, rw>>

ReapEnd(t) ==
    /\ At(t, "reap")
    /\ Fds(child[t]) = {}
    /\ arg' = [arg EXCEPT ![t] = NoDescriptor]
    /\ child' = [child EXCEPT ![t] = None]
    /\ held' = None
    /\ Goto(t, "user")
    /\ UNCHANGED <<ring, counts, lock, parent, rw>>

-----------------------------------------------------------------------------
KernelStep(t) ==
    \/ Lock(t) \/ Sleep(t)
    \/ ReadWait(t) \/ ReadGo(t) \/ ReadByte(t) \/ ReadReturn(t)
    \/ WriteByte(t) \/ WriteBroken(t) \/ WriteWait(t) \/ WriteReturn(t)
    \/ PipeClose(t) \/ ClearFd(t) \/ ReapClose(t) \/ ReapEnd(t)

Syscall(t) ==
    \/ \E e \in Ends, n \in Counts : Call(t, e, n)
    \/ \E u \in Tasks : Fork(t, u) \/ Reap(t, u)
    \/ \E d \in open : Close(t, d) \/ \E s \in Slots : Dup(t, d, s)
    \/ Exit(t)

Next == \E t \in Tasks : KernelStep(t) \/ Syscall(t) \/ Awaken(t)

Spec == Init /\ [][Next]_vars

(* The scheduler runs every runnable task again and again (Task.tla), and a
   spinning task finds the lock free sooner or later if it is free again and
   again.  Programs need not call, and signals need not come.               *)
FairSpec == Spec /\ \A t \in Tasks : SF_vars(KernelStep(t))

-----------------------------------------------------------------------------
(* The positions run freely and wrap at Word: the writer is never more than
   Size ahead of the reader, also after a wrap.                             *)
Window == Used <= Size

(* The bytes in the buffer, oldest first.                                   *)
Stream == [k \in 1..Used |-> buffer[Index(read_pos + k - 1)]]

B == INSTANCE ByteStream WITH stream <- Stream

(* Reads take out what writes put in, in order, nothing lost and nothing
   twice, whoever reads and writes and sleeps and dies in between.          *)
Fifo == B!Spec

(* The descriptors of an end that pipe_close has not been called for.       *)
Live(e) == {d \in open : d[2] = e /\ ~\E t \in Tasks : pc[t] = "closed" /\ arg[t] = d}

(* The ref_count of a node is the number of descriptors that pipe_close has
   not been called for, so that free(node) comes with the last one.         *)
NodeRefs == \A e \in Ends : ref_count[e] = Card(Live(e))

(* pipe.h: "we must keep track of 0".  So do the counters of the pipe, but a
   descriptor that dup makes is closed and not counted.                     *)
CountsMatch ==
    /\ "r" \notin dupped => readers = Card(Live("r"))
    /\ "w" \notin dupped => writers = Card(Live("w"))

(* The pipe is freed only when no descriptor refers to it and no task is in
   one of its functions.                                                    *)
NoUseAfterFree ==
    freed /\ dupped = {} =>
        /\ \A e \in Ends : Live(e) = {}
        /\ \A t \in Tasks : pc[t] \notin Reading \cup Writing \cup {"close", "closing"}

(* Whatever tasks fork, exit, are reaped, and close in whatever order: the counters
   of the pipe and the references of its nodes are the descriptors left, and
   the pipe is freed after its last use.                                    *)
EndsSafety ==
    /\ TypeOK
    /\ NodeRefs
    /\ CountsMatch
    /\ NoUseAfterFree

(* A step: read() returns 0 only when no writer is left, write() gives up only
   when no reader is left.                                                  *)
NoPeerAtEof ==
    \A t \in Tasks :
        /\ ReadReturn(t) /\ i[t] = 0 /\ size[t] > 0 /\ "w" \notin dupped => Live("w") = {}
        /\ WriteBroken(t) /\ "r" \notin dupped => Live("r") = {}

(* The answer to a reader or writer is right when it is given, although fork and the
   end of other tasks change the number of peers without the lock.          *)
EofMeansNoPeer == [][NoPeerAtEof]_vars

(* spin_lock "will wait until the lock is released": the task that spins does
   not keep the holder from running...                                      *)
NoSpinForever == \A t \in Tasks :
    held = t /\ pc[t] = "close" => lock = None

(* ... and the holder lives to release it.                                  *)
HolderLives == lock # None => pc[lock] \in Locked

(* bin/tpipe.c reads until the writer has closed its end: a sleeping reader
   is woken when the last writer has gone.                                  *)
ReaderSeesEof == \A t \in Tasks :
    pc[t] = "rsleep" /\ Live("w") = {} ~> pc[t] # "rsleep"
=============================================================================
