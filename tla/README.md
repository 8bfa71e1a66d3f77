# A TLA+ verification project for cOSiris

cOSiris is a small Unix-like kernel for the i386: one CPU, preemptive
multitasking, pipes, signals, a Unix-like file system (cofs) on an ATA disk, a
device and terminal layer, a UDP/IP stack, a C library and a shell.  This directory holds TLA+ models
of its parts, the TLC configurations that check them, and TLAPS proofs.
`PROJECT.json` lists components, runs, mutants, the source lines behind every
definition, findings, hazards and theorems.

    tlc -workers 2 -config MCTask_family.cfg MCTask     # one run
    tlapm TaskProofs.tla                                # one module of proofs

## 1. Inventory of the system

The concurrency is the same everywhere.  `int 0x80` enables interrupts
(int.c:138), so a system call can be preempted by the 100 Hz timer between any
two instructions; interrupt handlers, `fork_int` and `task_exit` run with
interrupts disabled.  Two devices protect shared state: the global flag
`switch_locked`, which makes the scheduler keep the current task but does not
stop interrupts, and spin locks, which stop nobody from being preempted or
killed while holding one.

| part (files) | state | operations | what is hard | what makes it correct |
|---|---|---|---|---|
| tasks, scheduler (task.c, timer.c, list.c) | `task_queue`, `current_task`, `switch_locked`, per task `state`, `ppid`, `wait_queue`, `sleep_addr`, `sleep_end_tick` | fork, exit, wait, sleep_on(ms), wakeup, switch | child exits while the parent is on its way into wait; timeouts against wakeups; orphans and zombies in any order | parents are always queued, zombies owned by exactly one wait queue, somebody can run, nobody starves |
| signals (signal.c) | `sigs_queue`, `sig_handlers`, `s_task` | kill, signal, process_signals, handler return | target exits during kill; handler runs on a copy of the task | no signal outlives its task; SIGKILL kills |
| pipes (pipe.c) | ring buffer with free-running positions, `readers`, `writers`, spin lock, two fs_nodes | open, close, read, write | wrap-around, blocked peers, last close, end-of-file | FIFO, counters = open ends, freed once and last |
| disk buffers (hd_queue.c, hd.c) | list of at most MAX_HD_BUFS buffers with block number, count, lock, dirty flag | get_hd_buf, put_hd_buf, hd_rw | lookup and claim are two critical sections, the count is changed outside both, eviction, write-back | one owner per buffer, counts exact, last write is seen |
| descriptors (sysfile.c) | `files[]`, `num_files`, `struct file` with `dup_cnt` | open, close, dup, pipe, read, write, ... | sharing by dup, copying by fork, the limit of 64, error paths | every open file closed exactly once |
| VFS (vfs.c, canonize.c, bname.c) | fs_node reference counts, mounts | namei, open with flags, mount, path normalisation | references of intermediate nodes | references balanced on every path |
| cofs (cofs.c, bmap.c) | superblock, bitmap, inodes, directories, cache of 100 nodes | create, read, write, truncate, link, unlink, rename | a block leaked or used twice, cache full, failure half-way | block allocated to one file at most; links = directory entries |
| terminals (tty.c, ring_buf.c, kbd.c, serial.c, crt.c) | input and output rings, line editor | interrupt input, read, write, ioctl | full rings, wakeups from interrupts and signals | lines delivered whole and in order |
| memory (mem.c, kheap.c, lib/malloc.c) | frame bitmap, page directories, heap blocks | frame_alloc/free, map, clone/free_directory, sbrk, malloc, free | frames of a dead task, shared kernel tables, splitting and joining blocks | a frame has one owner; blocks are disjoint |
| network queue (net.c, ne2000.c) | `netq` of 256 packets | interrupt push, net_task shift | test-then-sleep, lock taken in the interrupt | every packet processed or counted as dropped |
| ARP (arp.c) | table of entries, pending requests | resolve, reply, expiry | late replies, slot reuse, sleep after send | an address is used only while resolved |
| routes, IP, ICMP (route.c, ip.c, icmp.c) | ordered list of routes | add, find, process a packet, answer an echo | order against longest prefix, add races; headers with options | the most specific route is found; valid requests are answered |
| sockets, UDP (sock.c, udp.c) | socket list, ports, queue of 4 packets | alloc, bind, read, write, process | limits, blocking read that a signal ends, owners that are killed | ports unique, packets to the right socket |
| DHCP, DNS (dhcp.c, dns.c) | lease, answers | discover/request, query | lost answers, no timeout, other machines with the same xid | a lease only from a matching offer |
| C library (file.c, vsnprintf.c, vsscanf.c, malloc.c, list.c, bmap.c) | FILE table and buffers; heap blocks; links | getc, putc, fread, fflush, fclose; snprintf, sscanf; malloc, free | short and failed reads and writes, wrap of a buffer, argument words of a format | bytes once and in order; what is printed can be read back |
| shell (bin/cosh.c) | commands of a line, descriptors, children | parse, exec_commands, wait | who holds which end of which pipe, children in any order | programs are connected as typed; nothing is left at the prompt |
| debugger stub (kdbg.c) | packet buffers, breakpoints, current task | requests of gdb | damaged packets, retransmission | answers match requests; memory is restored |
| disk tools, boot, clocks, initrd, other programs | | | | left out (section 6) |

Interactions: system calls (sysfile.c, sysproc.c) run in the calling task and
call VFS, pipe, cofs or socket code through function pointers of the fs_node;
cofs calls the disk buffers; blocking code anywhere calls `sleep_on` and its
counterpart `wakeup`; `task_exit` leaves descriptors to the parent, whose
`task_free` calls `fs_close`; interrupts call `wakeup` and, for the timer and
the terminal, switch tasks on the way out, where `process_signals` may terminate
the task that was interrupted anywhere in the kernel.

## 2. Modules

| module | models |
|---|---|
| `Task`, `TaskProofs` | task.c, signal.c, timer.c; theorems |
| `Pipe`, `ByteStream`, `PipeProofs` | pipe.c; close, dup, pipe, read, write of sysfile.c; descriptors in fork_int, task_wait, task_free; what a pipe promises; theorems about ring and ends, and the refinement |
| `Tty`, `Crt`, `Kbd` | tty.c, ring_buf.c; crt.c, ansi.c; kbd.c |
| `HdQueue` | hd_queue.c, hd_rw, and the way cofs.c uses buffers |
| `CofsBlocks`, `CofsProofs` | bitmap and blocks of files: block_alloc to block_map, cofs_truncate, cofs_read, cofs_write; theorems |
| `Files` | sysfile.c, vfs.c and the inodes, directories and node cache of cofs.c |
| `FileOffsets` | offsets of struct files: read, write, lseek, ftruncate |
| `FilesProofs` | theorems about `Files` and `FileOffsets` |
| `Paths` | canonize.c, bname.c |
| `Memory`, `Malloc` | mem.c with fork, exec, exit; lib/malloc.c |
| `PoolProofs` | theorems about `HdQueue`, `Malloc` and `Lists` |
| `Ne2000` | ne2000.c, net.c |
| `Arp`, `IpStack`, `Udp` | arp.c; route.c, ip.c, icmp.c and sending; sock.c, udp.c |
| `NetProofs` | theorems about `Ne2000`, `Arp`, `Udp` and `IpStack` |
| `NatLemmas` | what the proofs need about numbers: least elements, induction, positions in rings |
| `Dhcp`, `Dns` | dhcp.c; dns.c |
| `Stdio`, `Printf`, `Scanf`, `Lists` | lib/file.c; lib/vsnprintf.c; lib/vsscanf.c; list.c, bmap.c |
| `Shell` | bin/cosh.c |
| `Kdbg`, `LineProofs` | kdbg.c; theorems about `Kdbg`, `Tty`, `Kbd` and `Crt` |
| `MC...` | instances for TLC |

A module's own head comment says what its state stands for and what it leaves
out.  An `MC` module that extends several components runs them side by side: a
variable (`netPart`, `part`, ...) chosen at the start says which one moves, the
others stay in one initial state.  Nothing is assumed about one by another.

### Task

`cpu` says what the CPU does: "run" executes `current_task`, "switch" is inside
`task_switch_int` before the choice of the next task, "signals" inside
`process_signals`, "halted" after `halt()`.  `pc[p]` is the position of task p in
a preemptible routine; a step of p needs `cpu = "run"` and `current_task = p`,
so every `Timer` step between two steps of p is a preemption.  What runs with
interrupts disabled (`Fork`, `TaskExit`, `PickNext`, `ProcessSignals`, `Event` for an
interrupt handler) is one step.

* `task_queue` is linked in creation order and pids only grow: the list is the
  set of its pids, scanned in pid order from the one after `current_task`
  (`ScannedBefore`).
* `task_wait` is the test of `num_items` (`Wait`), the lock of the scheduler and the
  scan for a child (`WaitNoChild`, `WaitScan`), `sleep_on` (`WaitSleep`, then `SleepAddr`,
  `SleepSwitch`), the second lock and test (`WaitLock`), `list_del` (`WaitUnlink`) and
  `task_free` (`WaitFree`).  Interrupts are on in all of them, and `process_signals` may
  terminate the parent between any two, `switch_locked` or not: `zombie[p]` is the child
  that p has unlinked and not freed, and stays so for ever if p is terminated there.
* Time is abstracted: `armed` is `sleep_end_tick > 0`, and an armed sleeper may
  time out at any switch (`TimedOut`).
* Signals are KILL (cannot be ignored), TERM (terminates unless ignored), CONT
  (stands for all whose default only prints).  `process_signals` is split by its
  outcome: `ProcessSignals` reaches the end of the list, `SignalExit` ends in
  `task_exit`, `Halt` in the fault handler.  A queued signal whose task is gone
  makes it dereference NULL, a page fault that terminates the current task.
* `KillWindow = FALSE` makes `kill()` one step, for the runs that ask about what
  happens without that fault.

### ByteStream and Pipe

`Pipe` starts when `sys_pipe` has returned.  A task is at "user" outside the
kernel and at "read", "rtest", "copy", "rgap", "rsleep" (and the same for write)
inside `pipe_read`: before `spin_lock`, at the loop test, copying, between
`spin_unlock` and `sleep_on`, asleep.  Each byte is a step.  Positions and
counters are unsigned ints: all arithmetic is modulo `Word`.  `open` is the set of
descriptors of all tasks; `held` is the task that reaps a child with
`switch_locked` set, and nobody else runs meanwhile, until `wakeup` clears the
flag as it does in the code.  The constant `Does` says which of fork, dup, exit
and kill programs do; a killed task stops wherever it is, its descriptors are
left to its parent.  `dup` of an end is not counted by the pipe, so the history
variable `dupped` names the ends it was done to: `CountsMatch`, `NoUseAfterFree` and
`NoPeerAtEof` promise nothing about their counters any more, while the references
of the nodes (`NodeRefs`) stay exact.  The part "ends" of `MCPrograms` is about programs
that use the pipe, the part "dups" about two that only duplicate and close.

`ByteStream` is a bounded FIFO of bytes with the actions `Put` and `Get`.  `Pipe`
implements it under `stream <- Stream`, the bytes between `read_pos` and
`write_pos` read modulo the size of the buffer.

### HdQueue

Buffers are numbered in list order.  `get_hd_buf` is the search under the lock of
the queue (`HdLookup`); then, for a block that was found, `ref_count++` with no lock held,
a read (`HdReadRefs`) and a write (`HdReference`), and the lock of the buffer (`LockBuf`);
for another one the choice of a buffer (`HdClaim`: a new one, a free one or the last of the
list), the reset of its fields (`HdReset`), its lock (`HdLockClaimed`), all with the list
locked, and the read (`HdLoad`).  `put_hd_buf` holds the lock of the list from `HdPut`, which
reads the count, through `HdDrop`, which writes it, and `HdFlush` to `HdUnlock`.
`HdModify` is what cofs does with a buffer it holds.  Three history variables: `hdLatest`
is what was last written to each block; `hdRaced` says that two tasks were between search
and claim (or reference) at the same time; `hdTorn` that a write to a count was overwritten,
by a task that had read it before or by the reset of a buffer that another task had
found.  Both happen in the code (hd_queue.c:73).  `HdCoherent` promises that nothing else
makes the cache incoherent.  `HdSafety` (one owner, exact counts, no reuse of a referenced
buffer) holds although lookup and claim may be interleaved (`hdRaced`), but not once
a count is wrong (`hdTorn`); behaviours end there, as from there a count grows or falls
without a bound.

### CofsBlocks

`fs` is what is on disk or in the nodes: the bitmap, the block numbers in inodes
(`addrs`) and in blocks (`words`), the contents of data blocks, and the panic that
ended everything.  A *slot* is a place that holds a block number; `block_map` is
`Fill` on the slots on the way to the last one.  `job[f]` is the call that works
on file f: every turn of the loops of read, write and truncate is a step, and
calls on different files interleave between them.  The byte at offset k of file
f is written as `<<f, k>>`, so that a byte found anywhere tells where it belongs.
Two calls on the same file at once are left out: the code does not exclude them
(no lock is taken), and the hazard is listed in `PROJECT.json`.  `Aligned` says
whether files are truncated for which `cofs_truncate` reaches past the end.

### Terminals

`Tty`: a key's interrupt is one step up to `tty_iput`'s `task_switch`, which
suspends the handler (`ttyHandlers`) so that tasks and further keys run before
`HandlerEnds`.  A signal makes a sleeping reader AWAKEN (`ReaderSignalled`), which no
wakeup of the ring sees; when it runs (`ReaderSignal`) it goes on, and stays AWAKEN, after
an ignored signal or a default that only prints, or calls its handler, behind which
it sleeps again; or it is terminated (`ReaderKilled`).  A reader that is AWAKEN from some
earlier sleep does not sleep (tty.c:277).  `ttyMeant` and `ttyExpect` are what a careful user
means by the keys typed; `ttyPast` records the known windows ("raced": a key came while a
handler was suspended; "overrun": the ring was full; a wakeup missed between test and
sleep, or by a reader made AWAKEN), and `TtySafety` promises nothing behind them.  `Crt`
follows `crt_putc` and the escape-sequence machine, with 16-bit coordinates;
`crt.outside` names who wrote behind or before the screen's buffer.  `Kbd` is the loop of
`kbd_handler` with suspended calls of it.

### Files

`Files`: calls of one process, each one step, over `cofs` (inodes, directories with
holes, the node cache with reference counts, and the panics that stop the kernel),
`fdTable` and `openFiles`.  Operations are functions from state to state that keep
the order of the code, error returns included; `leak` counts references which the
code is known not to give back.  `ValidFds` are the descriptors that `fd_is_valid` lets
through, `Behind` the one at `num_files`; what is there is 0 or anything, and a call that
takes it stops the model.  `Scarce` of `MCFiles` is a second instance whose cache of nodes
fills, where `cofs_get_node` panics.  `MkdirRight` and `RenameRight` ask, from every
reachable state, what the call would do.  `FileOffsets` is the arithmetic of offsets
modulo `Word`, with counts that wrap the sums of cofs.c:473 and 499: the loops then run to
blocks that `block_map` does not know (`OffsetsStop`); `Paths` runs `clean_path` on every path of up to six characters and
compares it with the meaning of the path (`Meaning`).

### Memory

`Memory` numbers pages and frames; a directory entry is the frame of a table.
`Uses(f)` are all places that name a frame.  `kheapLate` are tables of the kernel heap
made when there were other tasks already, which those tasks never see.  `SbrkGrow` and
`SbrkShrink` are `_sbrk` to its failures: the page that reaches the end of the heap is
mapped and reported as a failure, the end may go below the start, and the page that a
later call then maps outside the heap is `stray`, after which `MemSafety` promises
nothing.  `Malloc`
keeps the block list; `heapPtrs` is what the program holds.

### Network

`Ne2000`: the card is external and goes on while the handler runs; `neIsr` is its
interrupt register, `neLost` what an acknowledgement cleared unread.  `ne2000_put` is the
registers of the DMA (`TxSetup`), the command that starts it (`TxStart`) and the data
(`TxData`); a receive interrupt's DMA_ABORT, with or without a frame to read, and its own
transfers spoil what they interrupt (`Abort`, `Tear`, recorded in `txTorn`).  A sender may
be terminated anywhere (`TxKilled`), and `net_task` woken by a signal (`NetSignalled`) takes
what is in the queue, which may be nothing.  `Arp`: the network may deliver an answer
never, late or often.  `Udp`: sections under locks are steps, `udp_process` and the readers
interleave; a reader that is AWAKEN does not sleep, or stops sleeping (`UdpSignalled`),
and takes from an empty queue ("null"); a killed owner leaves its socket in the table for
ever.  The limit of sockets is tested before the lock, for equality.  `IpStack` has words
of `Bits` bits and compares checksums with one's-complement sums.  Headers have options:
`HdrSummed` is what `iphlen` (three of the four bits of the length) lets `ip_process` sum,
`IcmpSummed` what icmp.c sums of a message, which with options reaches behind the packet
(`after`).  `Dhcp`: servers, messages that stay on the wire for ever (so that they are late,
repeated and reordered) and messages for other clients; one of these is a cOSiris
machine too, whose messages have our xid, as it is made of a pid (dhcp.c:103, 269).
Options are cells of a message and are parsed one by one, given twice or in parts.
`Dns`: a message is a sequence of cells, so that offsets and compression pointers mean
what they mean in the code; a pointer is a signed char, so from `SignBit` on it leads
before the message (`Wild`), and `out` says that something was written behind the buffer of
a name.

### Library, shell and debugger

`Stdio` has a kernel that takes or gives any part of what is asked or fails;
`put` and `got` are what the program put in and got out; the byte whose bits are all set
is EOF as a signed char (`Getc`), not so for fread (`NextByte`).  `Printf` and `Scanf` are the
algorithms on characters, checked against what a directive means (`IntRight`, with
the flags as the comments of vsnprintf.c:45-49 say) and against each other.  `Shell` runs `exec_commands` step by step beside its children
(programs are their reads, writes and exits, external); `shLost` are descriptors whose
numbers it has overwritten.  `Kdbg` has both ends of the
line; packets are their meaning and whether their checksum is right.

## 3. Runs

A component's invariants are named parts; what a run checks is their conjunction
(`TtySafety`, `UdpSafety`, ...), defined at the end of the module, or a single formula.

| run | checks | bounds |
|---|---|---|
| `task_family` | `TypeOK`, `ParentQueued`, `ZombieOwned` | 5 pids: init, idle and three that can be grandparent, parent and child; one pending signal each; kill() and task_wait() preemptible, tasks terminated at any step of them |
| `task_sleep` | `SomeTaskRuns`, `LockHeldByCurrent`, `FreedByParent` | 4 pids, one event, TERM for pid 4, which may ignore it |
| `live` | `RunnableScheduled`, `KilledTerminates`, `ResolveReturns` | 4 pids, KILL and TERM for pid 3, the one that can be asleep in wait(), which may ignore TERM; two resolvers, two hosts, a cache of one entry; under fairness |
| `task_zombie` | violates `NoSleepWithZombie` | 4 pids, no signals |
| `streams` | `Window`, refinement `Fifo`; `TtySafety`, `CrtSafety`, `KbdSafety` | pipe: 2 tasks, buffer of 2, counts of 3, positions modulo 4, kill anywhere; terminal: ring of 2 (less than a line of 4, as 128 is less than 512), two handlers at once, two readers, signals at any time; screen of 2 x 2, so that every text wraps and scrolls; 2 scan codes waiting |
| `pipe_eof` | violates `ReaderSeesEof` | 2 tasks, under `FairSpec` |
| `cofs_end` | violates `FreesAllocated` | as "blocks" below, with `Aligned = TRUE` |
| `net` | `NeReceiveSafety`, `NeSendSafety`, `ArpSafety`, `UdpSafety`, `IpSafety`, `DhcpSafety`, `DnsSafety` | ring of 4 pages, queue of 2, 3 frames, 2 senders, killed anywhere; 2 resolvers, cache of 2; 2 owners of sockets and a limit of 1, which they meet and, racing, pass; 1 port to give out, queue of 1; 3-bit addresses with nested networks, every checksum, headers of 4 to 11 words, with and without options; 2 DHCP servers and another cOSiris machine, 3 offers, options in two parts; names of 1 to 3 labels, up to 3 answers, name buffer of 4, pointers that are negative from 16 on, which the longest question reaches |
| `files` | `ReferencesSafety`, `NamesSafety`, `OffsetsRight`, `PathsSafety` | 4 inodes, cache of 3 nodes and (`Scarce`) of 2, which fills, 2 descriptors and the one behind them, 2 names, paths of depth 2; words of 32, files of 3 blocks of 4, a fourth that `block_map` knows, counts up to 31; every path of up to 6 characters from 3 directories |
| `kernel` | `HdSafety`, `HdCoherent`, `BlocksOwned`, `BlocksHold`, `HeapSafety`, `MemSafety` | buffers: 2 disk tasks, 3 blocks, 2 values, 2 buffers; blocks: 2 files, 1 direct and 2 numbers per indirect block, 10 blocks, which two files fill; heap: 3 pointers, three sizes around a page, 6 pages; memory: 3 address spaces, 16 frames, which they fill, heaps of a few pages that grow by 2 and shrink by 1, to both ends |
| `programs` | `EndsSafety`, `EofMeansNoPeer`, `StdioSafety`, `ShellParses`, `ShellConnects`, `PrintfSafety`, `ScanfSafety`, `ListsSafety`, `KdbgSafety` | pipe: 3 tasks with 3 slots, buffer of 1, positions modulo 4; in "dups" two of them, which only dup and close; buffers of 2 bytes; bytes with 255 among them; pipelines of up to 3 commands, among them those that never end or leave a descriptor, of which at most one is left (`MaxLost`), and every line of up to 4 tokens; every combination of flags; 3 nodes; 1 breakpoint, 1 damaged request at a time |
| `kdbg_resend` | violates `ReplyMatches` | the same with a damaged reply |

`CHECK_DEADLOCK FALSE` where the system may stop: halt() after a fault or a panic,
programs that have ended, bounds that are used up.  `task_sleep` checks deadlock.

Views and symmetry.  Where several components share a run, `VIEW` keeps of a state
only the component that moves, and drops what can have no influence on the
properties any more: the numbers of frames (which are interchangeable), the
absolute positions in the rings of the terminal and of the pipe of "ends", the contents
of disk buffers after a race (`HdView`), and everything behind a recorded window after
which nothing is promised.  Symmetric are the files of `kernel` and the tasks
other than the creator of the pipe in `programs`, senders, sockets and peers in `net`; in `files`
the numbers of descriptors do not matter.  No liveness property is checked
with a view or under symmetry.

Fairness.  `Task`: the timer ticks (`WF(Timer)`), the handlers it enters run to
their end with interrupts disabled (`WF` of `PickNext` and of `process_signals`), and
a routine that has been entered gets on (`SF` of `KernelStep(p)`: 10 ms between two
ticks is always enough for the next statement, however often the task is
preempted).  Nothing is assumed of programs, of devices and of timeouts.
`Pipe`: `SF` of the kernel steps of every task, which is what `RunnableScheduled`
and a spin lock that is free again and again give.  `Arp`: a resolver's steps and the
timeout of its sleep; no answer is assumed ever to arrive.

Every property of a passing run has a mutant in `PROJECT.json`: a definition of the
model changed the way a plausible bug would change the code ("Faulty variant" in the
modules), under which TLC finds the property violated.

## 4. What the checks found

The findings of `PROJECT.json`:

* `task_zombie` (task.c:363).  `task_wait` tests its wait queue, then locks the
  scheduler.  A child that exits in between wakes nobody, and the parent goes to
  sleep beside its zombie.
* `pipe_eof` (pipe.c:78).  `pipe_read` unlocks, then sleeps.  The last writer's
  close in between wakes nobody: `bin/tpipe.c` can hang.
* `cofs_end` (cofs.c:397).  `cofs_truncate` counts `size / BLOCK_SIZE + 1` blocks.  If
  the last block is full and past the direct ones (3072 bytes is the first such
  size), the block too many is looked up through block number 0, and `block_free(0)`
  is called twice: the second call panics.
* `kdbg_resend` (kdbg.c:188).  `kdbg_put_packet` advances its pointer while it sends;
  what it sends again is an empty packet with a right checksum, which the debugger
  takes for the answer.

### Further deviations

Formulas of the modules that do not hold either, with the constants under which
TLC shows it; they are not among the runs.

| formula | constants | what happens |
|---|---|---|
| `RightBlock` (HdQueue) | 2 tasks, 2 blocks, 2 buffers | a buffer found under the lock is referenced after it, and may have become another block's (hd_queue.c:73) |
| `HdRefsMatch` (HdQueue) | 2 tasks, 2 blocks, 2 buffers | `ref_count++` overwrites `put_hd_buf`'s `ref_count--`, or is overwritten by the reset of the buffer: a dirty buffer may never be flushed, or `put_hd_buf` panic (hd_queue.c:73, 99, 122) |
| `NoEarlyWaitFailure` (Task) | as `task_zombie` | same window, only child: `wait()` returns -1 and leaves the zombie |
| `NoStraySignal` (Task) | as `task_zombie`, `Sigs = {"KILL"}`, `KillWindow = TRUE` | `kill()` queues a signal for a task that has exited meanwhile; `process_signals` dereferences NULL |
| `SomeTaskRuns` (Task) | as `task_sleep`, `Sigs = {"KILL"}`, `KillTargets <- AllButInit` | the idle task can be killed: the scheduler panics |
| `CountsMatch` (Pipe) | 2 tasks, fork and kill | a task killed inside `sys_close` after `fs_close` has its descriptor closed again by `task_free` |
| `HolderLives` (Pipe) | 2 tasks, fork and kill | a task is killed with the spin lock of the pipe held |
| `NoSpinForever` (Pipe) | 3 tasks, fork and exit | `task_free` spins on the lock with the scheduler locked |
| `OneBuffer` (HdQueue) | 2 tasks, 2 blocks, 2 buffers | two buffers for one block |
| `HdExclusive` (HdQueue) | 3 tasks, 2 buffers | no buffer free: the last one is taken from its owner, the panic is unreachable |

Where a task that found a buffer takes its lock between the reset and line 100, the
claimer waits for that lock with the list locked, and the other for the list in
`put_hd_buf`: both for ever (hd_queue.c:100, 117).

Deviations that the modules state as exceptions of a property (a history variable or
a named condition), or leave out as said in their comments:

* Task.  A parent that is terminated between `list_del` and `task_free` of task_wait
  (task.c:387-391) leaves a zombie that is on no queue and freed by nobody.
* Pipe.  `dup` of a pipe end does not count in `readers` or `writers`, its `close` does
  (sysfile.c:471): the "cosh bug" of pipe.c:56; `dupped` names the ends.
* Terminal.  A key during a suspended `tty_iput` (tty.c:109 switches before line 138
  resets the line) is lost or delivers the line twice; `rb_putc` does not test for a
  full ring; tty.c:274-278 tests, then sleeps; of two readers the second may see an
  end of file.  A task that a signal in an earlier sleep left AWAKEN reads end of file from an
  empty terminal (tty.c:277), and one that a signal's handler puts to sleep again
  misses the wakeup that came meanwhile (signal.c:100).  ESC [ 1 K erases up to `crt.x`
  (crt.c:162), which is 65535 after a backspace at (0, 0) and may be past the last
  column: all the memory behind the screen, or the next row.  The character at the end of the last row is lost on a line feed
  (crt.c:221); numbers of an aborted escape sequence stay (ansi.c:53).  `kbd_out.r` and
  `.w` are bytes compared by size: after 256 characters nothing is found (kbd.c:112).
* Files.  `fs_creat` keeps the parent's reference, `fs_unlink` both on error; a failed
  `cofs_link` leaves `num_links` too high; renaming a directory into itself or onto one
  with entries waits for its own lock (cofs.c:566, 634); `mkdir "/x"` works in the current
  directory (sysfile.c:304); freed inodes keep their permissions and are not found again
  (cofs.c:132, 300), which is why `Modes` is {0}; `fd_alloc` returns a descriptor behind
  the table (sysfile.c:41), and every call takes `num_files` for a descriptor (sysfile.c:95);
  a count that wraps `offset + size` passes the tests of read and write and ends in
  the panic of block_map (cofs.c:473, 499); MAX_FILE_SIZE has no parentheses, so that the
  limit of write is far below the largest file (cofs.h:26); a full node cache panics (cofs.c:194); `clean_path` misreads
  ".." before several slashes; `lseek` with SEEK_END sets the offset itself.
* Memory.  A kernel heap that needs a new table after a fork enters it in the current
  directory only (mem.c:418, 551); exec frees the image only up to the first hole;
  sbrk maps the page that reaches the end of the heap and reports it as a failure, and
  the next one outside the heap; shrinking leaves the end below the start (mem.c:637, 650);
  `realloc(p, 0)` frees twice; the kernel's `malloc` takes no lock.
* Network.  A sender killed after line 616 keeps `tx_lock` for ever; `net_task` woken by a
  signal dereferences NULL (net.c:143), and so does a reader of a socket, in udp.c:167,
  with the socket's lock held; sockets of killed tasks stay in the table; two
  tasks that test the limit of sockets at once pass it, and then, as the test is `==`,
  nothing stops further ones (sock.c:29).  `iphlen` takes three bits of the header's length:
  of a header of 32 bytes nothing is summed, of a longer one a part (ip.c:65); with
  options icmp.c:48 and 78 sum past the packet.  Another cOSiris machine's ACK is
  taken for ours (dhcp.c:103, 269); of a list of routers or name servers in parts the last
  replaces the beginning of the first, and the number goes past the array (dhcp.c:204,
  212).  A pointer of 128 or more leads before the message (dns.c:190), and the 0 or a dot
  behind a long label goes behind the buffer (dns.c:187, 205).  `outb(NE_ISR, 0xFF)` clears interrupts never read (ne2000.c:574); wrapped
  frames are copied wrongly (ne2000.c:637); a receive interrupt inside `ne2000_put`
  reprograms the DMA; net.c:140 tests, then sleeps; entry 0 of the ARP cache counts as a
  miss (arp.c:254); net_task looks at `captured` after the reader may have freed the
  buffer; ports are never given back; between local and remote address a socket takes
  any peer; `udp_csum` folds once; routes are tested and inserted in two sections; the
  DHCP client waits without timeout; a query without address answer returns an
  uninitialised one, a label that outgrows the name buffer twice is cut.
* Library.  O_RDONLY is 0, so `fclose` of a partly read file writes the rest back to it
  (file.c:140, 313); `_flush_buf` does not wrap: after an `fflush` inside the buffer the
  next full flush reads past it; flushing an empty stream sets F_ERR; `fgets` drops the
  byte at its limit; byte 255 is EOF for fgetc, fgets and getline (file.c:210), and `fputs`
  stops at a negative char; `%h` takes two words (vsnprintf.c:271); `%+u` prints a plus and
  `%#b` no b, against the comments of vsnprintf.c:45-49; the star of `%.*d` is taken for the
  conversion (vsnprintf.c:252); `sscanf` stops at '+' and does not count what `%[` stores
  (vsscanf.c:320-329).
  The bits of a bitmap's last partial word are never given out.
* Shell.  It keeps the reading ends until `clean_cmd`: a writer whose reader has died, failed
  or reads a file blocks for ever, and the line never ends (`Abandoned`); "a | b < f"
  leaks a descriptor (its own comment, cosh.c:267; `shLost`); an
  empty command after ";" is executed; a quote that is not closed is read past the line.
* Debugger.  A breakpoint set twice at one address stays in memory after the second
  removal; breakpoints are global to all address spaces.

## 5. Proofs

The theorems hold for every value of the constants that meets the module's named
assumption (`TaskAssumption`, `PipeAssumption`, ...) and the hypotheses in the
table.  A property that is not inductive is proved from an invariant that is.

| theorem | states | hypothesis |
|---|---|---|
| `TypeCorrect`, `ParentAlwaysQueued`, `ZombiesAlwaysOwned`, `ZombiesFreedByParent` (`TaskProofs`) | `TypeOK`, `ParentQueued`, `ZombieOwned`, the action property `FreedByParent` | |
| `LockAlwaysHeldByCurrent` | `LockHeldByCurrent` | nobody signals init: `task_exit` of init returns with the scheduler locked |
| `SomeTaskAlwaysRuns` | `SomeTaskRuns` | nobody signals the idle task; no signal is stray, which has its own theorem |
| `StraySignalsComeFromWindow` | `NoStraySignal` | `kill()` is not preempted between search and `list_add` |
| `WindowHolds`, `PipeIsFifo` (`PipeProofs`) | `Window`, the refinement `Fifo` | |
| `EndsCounted`, `EofOnlyWhenAlone` (`PipeProofs`) | `EndsSafety`, the action property `EofMeansNoPeer` | `NobodyKilled`: no task is killed inside a call; `CountersSuffice`: an unsigned int can count the tasks |
| `BuffersAlwaysOwned`, `CacheCoherentUnlessRaced` (`PoolProofs`) | `HdSafety`, `HdCoherent`, until a count is torn | a buffer for every task that uses the disk |
| `TransmitPagesExclusive`, `FramesReceivedRight`, `ResolutionRight`, `DatagramsReachOwners` (`NetProofs`) | `NeSendSafety`, `NeReceiveSafety`, `ArpSafety`, `UdpSafety` | |
| `PacketsAnsweredRight` (`NetProofs`) | `IpSafety` | of two networks whose masks are in use one's size divides the other's, as with contiguous masks; a datagram has fewer than 2^Bits - 1 words (65535, in 1500 bytes) |
| `HeapAlwaysTiled`, `ListsAlwaysLinked` (`PoolProofs`) | `HeapSafety`, `ListsSafety` | |
| `OffsetsStayInFile`, `ReferencesAlwaysCounted` (`FilesProofs`) | `OffsetsRight`, `ReferencesSafety` | |
| `BlocksStayOwned`, `ContentsStay` (`CofsProofs`) | `BlocksOwned`, `BlocksHold` | `~Aligned`: no file is truncated whose last block is full and past the direct ones (`cofs_end` shows what happens then) |
| `LinesDelivered` (`LineProofs`) | `TtySafety` | one reader per terminal: of two that are woken for a line, the second finds the ring empty and returns as at an end of file |
| `KeysDelivered` (`LineProofs`) | `KbdSafety` | `kbd_out` holds the longest escape sequence (3 characters; it has 30); no wrap of its 8-bit positions, before which behaviours end |
| `TextAlwaysShown` (`LineProofs`) | `CrtSafety` | at least two columns (80); numbers of a sequence that was given up, which stay for the next one, are not followed |
| `DebuggerAgrees` (`LineProofs`) | `KdbgSafety` | `~NoisyReplies`: only requests are damaged (`kdbg_resend` shows what a damaged reply does) |
| `NeverBothWait` | `NotBothWaiting` | none: replies may be damaged too |

The hypotheses mark known deviations of the code: section 4 says what happens without
them.  `CountersSuffice` is 2^32 against 64 tasks; with fewer buffers than tasks the last
buffer of the list is taken from its owner (`HdExclusive` in section 4).

The arguments:

* Family (`WaitInv`, `PidInv`, `FamilyInv`).  A parent that has passed the test of task_wait
  has a zombie at the head of its queue until it unlinks it, and then in hand (`WaitInv`):
  nobody but the parent takes from its queue, and a terminated parent does not come back.  `ParentQueued` needs to know that pids not handed out
  are neither queued nor anybody's parent, that the current task is queued while it
  runs, and that init is never unlinked; `ZombieOwned` needs in addition that states and
  queues agree (queued tasks are RUNNING, AWAKEN or SLEEPING, and only they have wait
  queues).  The proofs have one step per action.
* Scheduler.  Signals are queued only for `KillTargets` (`SignalInv`), so that init never
  returns from `task_exit` and the idle task is never put to sleep or killed
  (`IdleInv`: it is queued and runnable).  `WindowInv`: every queued signal, and every
  target that a `kill()` has found, is a queued task.
* Ring (`RingInv`).  Lemmas about `%` show that advancing a position modulo `Word` moves
  the window by one and that distinct positions in a window of `Size` have distinct
  indices; `StorePuts` and `TakeGets` then map `WriteByte` to `Put` and `ReadByte` to
  `Get`, and every other action to a stutter.  `Size` must divide `Word`, as 1024
  divides 2^32.
* Ends (`EndsInv`: `EndsShape`, `CountsInv`, `EndsEof`).  `EndsShape` says who may be where:
  the lock's holder is the task in a critical section (`LockersHold`), a closing task, or the
  one whose child it reaps, owns the descriptor it closes (`ClosersOwn`), a reaper keeps
  the others from running (`ReapersAlone`).  Then the set of live descriptors loses
  exactly one element, one task, in `PipeClose`, and gains exactly the child's in `Fork`;
  the counters follow by cardinality.  `EndsEof` carries what the reader saw under the
  lock to its return: no writer then, none later (`NoneStaysNone`), because only who
  has an end can pass it on.
* Buffers (`HdWhole`, `HdCoherentInv`).  The types hold for ever, the rest (`HdInv`) until a count
  is torn.  Buffers ahead of `num_items` do not exist, a task past the search has a
  buffer in the list, whoever holds the list's lock is in `put_hd_buf` or claims a
  buffer, locks and counts are those of the tasks, a count that was read is still the
  count (`HdCounts`), and a buffer that was chosen stays nobody's until it is reset
  (`HdChosen`, `ChosenApart`); a dirty buffer is held or referenced.  As there is a buffer for
  every task, a victim with no reference exists (`FreeBufExists`, counting holders).  A step
  keeps all that or tears a count, which `hdTorn` then records.  As long as nobody raced
  either: one task in the window, a miss stays a miss, nobody else comes to a buffer
  before the list is unlocked (`HdAlone`), the disk is current unless a dirty buffer has
  the block (`HdDiskCurrent`), a buffer is current unless it is being read
  (`HdBufCurrent`).
* Heap (`HeapInv`).  Before the first `malloc` there is nothing; from then on (`HeapReady`)
  the blocks tile the heap in order of address up to the break, no two free ones are
  neighbours, and the pointers the program holds are the blocks in use, one pointer each
  (`HeapWhole`, `HeapOwned`).  That the addresses grow along the list (`AddrsDiffer`) makes a
  pointer find its own block.  Taking, with or without a split, growing the heap, and the
  two joins of `free` each replace a stretch of the tiling by another of the same length.
* Lists (`ListInv`, `BmapInv`).  No node is in the list twice (`ListType`), so that a node has
  one place and the links of its neighbours are those to change: `ListLinked` follows for
  the sequence with a node appended, put in, or left out.  The bits set are those given
  out, once each, inside the words that `bmap_scan_range` looks at.
* Card (`NeTxInv`, `NeRecvInv`).  `tx_lock` follows one frame from the sender to the
  interrupt that reports it, or stays taken by a sender that was killed; whose transfer is
  interrupted between its first register and its last byte is in `txTorn`.  The frames in the receive ring form a chain from the
  boundary to `neCurr`; `NeLinked` says how long it is and how many pages it takes, the
  recursive function `NeReach` is unfolded along it (`WalkExists`, `ReachWalks`).
  `NeNoticed`: a stored frame has an interrupt, or a handler that will look, ahead of it.
  `net_task` goes for a frame when there is one or a signal has woken it (`ntAwaken`).
* Addresses (`ArpInv`).  Entries and tasks agree on who asked for what; the search takes
  the first fit (`LeastExists`).
* Sockets (`UdpInv`).  The ports of the sockets in the table differ (`UdpTable`), so what is
  sent to a port finds its socket whichever comes first; what `udp_process` has locked
  stays in the table with that port (`UdpLocked`); a buffer is in one place of one queue
  (`UdpOnce`), or freed as often as net_task and the readers say (`UdpFreed`); who goes to
  sleep beside a datagram, or does not sleep for one, is recorded (`UdpWoken`).  A task that
  has seen room for a socket is alone with it, unless two tested at once (`UdpLimit`).
* Packets (`IpInv`).  The routing table stays in descending order (`InOrder`) whoever inserts,
  so the first match has the greatest base and, the networks of all matches being nested
  (`Nested`), the longest mask.  Folding a sum keeps it modulo 2^Bits - 1 and keeps 0 apart
  (`FoldedOnce`); after as many folds as there are words it fits in a word (`CsumIs`), so
  `ip_csum` is 0 exactly for what RFC 1071 calls valid (`IpCsumFacts`), and what is sent with
  the checksum of the rest is valid (`CsumCompletes`).  `SummedIs` says which words of headers
  and messages the code sums: all of them without options.  `udp_csum` folds once: valid words
  are few enough for that (`UdpCsumTakes`), but what it computes is valid only without a
  second carry (`UdpCsumCompletes`).
* Terminal (`TtyInv`).  In a terminal where no key came while a handler was suspended and
  the ring was not overrun there is at most one handler (`TtyOneHandler`), and what is in the
  ring followed by what the handler has still to put there is what the reader should get
  (`RingSeq(ttyCin) \o ToCome = ttyExpect`); `PutAppends` and `GetTakes` say what `rb_putc` and
  `rb_getc` do to the sequence, positions being words that wrap.  A reader that is asleep or
  late, or AWAKEN by a signal, is accounted for by `TtyReaderFinds` and `TtyNoneWaits`.
* Keyboard (`KbdInv`).  Some chain of modifiers leads from the driver's state, one code in the
  controller after the other, to the user's, and gives out what was typed and not given
  on.  A key event adds a link, the handler takes the first one or a character of
  `kbd_out`; a chain is unique, so it is `PortStats` and `PortChars`.  There is one call of
  the handler for each code that waits, and one more if part of an escape sequence does.
* Blocks (`CofsInv`).  `Sound` is about the file system: the bitmap is the file system's
  own blocks and what the slots hold, no two slots hold the same, and only blocks of block
  numbers have slots that hold any, so a block that is free or just allocated names none.
  `FileInv` is about one file: it has exactly the blocks below its end, those already
  written past it, and of those being cut off the ones the loop has not reached
  (`PresentOf`); it has an indirect block if one of its blocks needs it (`Neat`); the bytes
  up to `KnownOf` are right; the inode on disk is saved unless a write has gone past the end.
  `FillStep` and `FreeStep` do one slot, `BlockMapStep` and `FreeFileBlockStep` the three
  levels, and `Kept` says that what they do to one file no other file sees, which is all
  the other files need (`FileKept`).  `NoSpare` counts: `LeafOf` numbers the slots of a
  file's blocks (`HeldCount`).
* Debugger (`Phases`, `KdbgInv`).  One request goes through nine phases, each of which fixes
  where both ends wait and what is on the two lines; every step leads from a phase to a phase,
  whatever is damaged, and in none do both ends wait with nothing on the line.  Memory and
  the table of breakpoints are `Exact` for what the debugger has set, until the stub handles
  a request; from then on for what it will have set when it gets the reply (`LearntBpts`).
  Likewise `last_pid` is the last thread the debugger was, or will be, told of (`NextAfter`).
* Screen (`CrtInv`).  The text printed in a row ends in front of the cursor and is no longer
  than the cells before it (`TextShown`), so that wrapping, which moves the cursor to the
  same cell by another name, keeps it, and only a scroll loses the character below the
  screen.  Every cell that is written is one of `Cells`, but for those of ESC [ 1 K, of
  which `outside` is all that the theorem allows.  What was written of a sequence (`Following`) is the digits of one number, or of
  two around one semicolon; `NumberOf` grows with each digit (`NumberGrows`).
* Offsets (`OffsetsInv`).  The sums of cofs wrap only for counts that take the loops past
  the blocks that `block_map` knows, because those end below the word (`Sums`): such a call
  does not return, and any other one adds without a wrap.
* References (`FilesInv`).  While the kernel runs, `Good(cofs, H, pin)` holds for the counts
  `H` of descriptors on each node: the disk is typed and no inode has more names than
  links (`DiskOk`), the cache has at most one node of an inode, the first the root's, with
  the inode's type if it is in use (`CacheOk`), and a node has as many references as `H`
  says and were leaked (`HoldOk`); the table has, for each struct, as many descriptors as
  `dup_cnt` says (`TableOk`).  The calls are sequences of operations of cofs.c and vfs.c that
  take and give references, so each operation is proved for every `H`: a lookup that
  finds node n leads from `H` to `Inc(H, n)` (`FindDirFound`, `NameiWalked`), a put the other
  way (`PutGood`), a creat, a link, an unlink back to `H` (`CreatFound`, `LinkDone`,
  `UnlinkDone`), or the kernel stops (`Done`).  `pin` is what must stay meanwhile: the inodes
  of the nodes that descriptors hold, which are not reused because they are referenced.
  A name that is removed takes a link with it, so that an inode that loses its last link
  has no name left and may be freed (`EntryRemoved`, `Emptied`).  A call with the descriptor
  behind the table fails or stops the model (`BehindStep`).  A struct for the next
  descriptor is always free, as there is one more of them (`FileFree`).

`NatLemmas` has what several of them need: least elements, and induction along numbers
with a set in place of a predicate (`SetInduction`), the form of induction that the
provers can instantiate, and positions in rings.


Only model-checked:

* liveness (`RunnableScheduled`, `KilledTerminates`, `ResolveReturns`), which is out of
  the prover's reach;
* `Printf`, `Scanf`, `Stdio` and `Shell`, which use RECURSIVE operators, about which nothing
  can be proved here: algorithms over bounded inputs; `Memory`, whose folds over
  sets would need induction over data;
* `Paths`: its state space is the inputs, and the properties compare an algorithm with its
  meaning (recursion over a path);
* `Dhcp` and `Dns`, whose steps fold or recur over the cells of a message;
* `NamesSafety` of `Files`: `MkdirRight` and `RenameRight` follow paths before and after a call
  (`Lookup` folds over the path), and `NamesRight` asks that links are exactly the names,
  where the proof has at most.

## 6. Not modelled, and the plan

Left out of the modelled parts: user signal handlers and the saved registers in
`Task`; the exit of tasks that have children in `Pipe` (`Task` has it); `hd_lock` and
the port protocol in `HdQueue`; two calls on one file, and blocks past the end of
the disk (cofs.c:76), in `CofsBlocks`; calls of several tasks at once in `Files`;
preemption inside mem.c in `Memory`; failure of `malloc`; echo and colours of
terminals; queries of the debugger that only format.  `sleep_on` sets state and
address in two statements (task.c:316): `Task` has both steps, but no property about a
wakeup between them.

Not modelled: threads (`thread_new` has no caller), the initial ramdisk (deprecated,
not mounted), device tables, clocks and delays, probing of hardware, boot, the disk
tools (host programs), kilo (a third-party editor), `mmio_remap`, `phys_block_alloc`,
`console_in` (no callers).

What would come next: user signal handlers in `Task`; two calls on one file in
`CofsBlocks`; `NamesRight` as a theorem.
