-------------------------------- MODULE Task --------------------------------
(***************************************************************************)
(* Tasks of the cOSiris kernel: fork, exit, wait, sleep/wakeup, signals    *)
(* with the dispositions SIG_DFL and SIG_IGN, and the round-robin          *)
(* scheduler (task.c, signal.c, timer.c).                                  *)
(*                                                                         *)
(* There is one CPU.  A system call runs with interrupts enabled, so the   *)
(* timer may switch tasks between any two of its statements unless         *)
(* switch_locked is set; an interrupt handler, fork_int and task_exit run  *)
(* with interrupts disabled and are single steps here.  cpu says what the  *)
(* CPU is doing, pc[p] where task p stands inside a preemptible kernel     *)
(* routine.                                                                *)
(*                                                                         *)
(* task_queue is linked in the order of creation and pids only grow, so    *)
(* the list is represented by the set of its pids, read in pid order.      *)
(***************************************************************************)
EXTENDS Naturals, Sequences, FiniteSets

CONSTANTS
    MaxPid,      \* bound: pids 1..MaxPid are ever handed out by task_new
    MaxSigs,     \* bound: signals pending for one task
    Sigs,        \* the signals that programs send
    Chans,       \* events other than wait queues: buffers, sockets, terminals
    KillTargets, \* the pids that programs send signals to
    Ignorers,    \* the pids whose programs call signal()
    KillWindow   \* may kill() be preempted between its lookup and list_add?

ASSUME TaskAssumption ==
    /\ MaxPid \in Nat /\ MaxPid >= 2
    /\ MaxSigs \in Nat \ {0}
    /\ Sigs \subseteq {"KILL", "TERM", "CONT"}
    /\ KillTargets \subseteq 1..MaxPid /\ Ignorers \subseteq 1..MaxPid
    /\ KillWindow \in BOOLEAN

VARIABLES
    cpu,           \* "run" | "switch" | "signals" | "halted"
    current_task,  \* the running task
    task_queue,    \* the pids linked from task_queue
    switch_locked, \* the global flag that stops the scheduler
    next_pid,      \* next pid to hand out
    state,         \* task->state
    ppid,          \* task->ppid
    wait_queue,    \* task->wait_queue: exited children, oldest first
    sleep_addr,    \* task->sleep_addr
    armed,         \* task->sleep_end_tick > 0
    ignored,       \* signals whose handler is SIG_IGN; the others are SIG_DFL
    sigs_queue,    \* the signals of sigs_queue for each pid, in list order
    pc,            \* position inside a kernel routine
    addr,          \* the argument of the sleep_on in progress
    sig,           \* the signal_t of the kill() in progress
    zombie         \* the child that task_wait has unlinked, 0 if none

sched == <<cpu, current_task, switch_locked>>
family == <<task_queue, next_pid, ppid, wait_queue>>
sleep == <<sleep_addr, armed>>
signals == <<ignored, sigs_queue>>
local == <<pc, addr, sig, zombie>>
vars == <<sched, family, state, sleep, signals, local>>

Pids == 1..MaxPid
InitTask == 1
IdleTask == 2

(* KILL cannot be ignored, TERM terminates by default, CONT only prints.   *)
Terminating == {"KILL", "TERM"}
States == {"none", "RUNNING", "AWAKEN", "SLEEPING", "EXITING", "freed"}
Queued == {"RUNNING", "AWAKEN", "SLEEPING"}
Runnable == {"RUNNING", "AWAKEN"}
Locations == {"run", "wait1", "wait2", "wait3", "wait4", "wait5", "sleep1", "sleep2", "kill"}

(* Addresses are compared, never dereferenced: &task->wait_queue or another
   event.                                                                   *)
NoAddr == <<"null", 0>>
WaitAddr(p) == <<"wait_queue", p>>
ChanAddr(c) == <<"chan", c>>
Addrs == {NoAddr} \cup {WaitAddr(p) : p \in Pids} \cup {ChanAddr(c) : c \in Chans}

NoSig == <<0, "none">>
SigRecords == {NoSig} \cup (Pids \X Sigs)

Elems(s) == {s[i] : i \in DOMAIN s}

TypeOK ==
    /\ cpu \in {"run", "switch", "signals", "halted"}
    /\ current_task \in Pids
    /\ task_queue \subseteq Pids
    /\ switch_locked \in BOOLEAN
    /\ next_pid \in 3..(MaxPid + 1)
    /\ state \in [Pids -> States]
    /\ ppid \in [Pids -> 0..MaxPid]
    /\ wait_queue \in [Pids -> Seq(Pids)]
    /\ sleep_addr \in [Pids -> Addrs]
    /\ armed \in [Pids -> BOOLEAN]
    /\ ignored \in [Pids -> SUBSET (Sigs \ {"KILL"})]
    /\ sigs_queue \in [Pids -> Seq(Sigs)]
    /\ pc \in [Pids -> Locations]
    /\ addr \in [Pids -> Addrs]
    /\ sig \in [Pids -> SigRecords]
    /\ zombie \in [Pids -> 0..MaxPid]

(* kmain has forked the idle task and executed /init, which ignores TERM.   *)
Init ==
    /\ cpu = "run"
    /\ current_task = InitTask
    /\ task_queue = {InitTask, IdleTask}
    /\ switch_locked = FALSE
    /\ next_pid = 3
    /\ state = [p \in Pids |-> IF p <= 2 THEN "RUNNING" ELSE "none"]
    /\ ppid = [p \in Pids |-> IF p = IdleTask THEN InitTask ELSE 0]
    /\ wait_queue = [p \in Pids |-> <<>>]
    /\ sleep_addr = [p \in Pids |-> NoAddr]
    /\ armed = [p \in Pids |-> FALSE]
    /\ ignored = [p \in Pids |-> IF p = InitTask THEN {"TERM"} \cap Sigs ELSE {}]
    /\ sigs_queue = [p \in Pids |-> <<>>]
    /\ pc = [p \in Pids |-> "run"]
    /\ addr = [p \in Pids |-> NoAddr]
    /\ sig = [p \in Pids |-> NoSig]
    /\ zombie = [p \in Pids |-> 0]

-----------------------------------------------------------------------------
(* The scheduler.                                                           *)

(* The timer interrupt: timer_handler enters task_switch_int.               *)
Timer ==
    /\ cpu = "run"
    /\ cpu' = "switch"
    /\ UNCHANGED <<current_task, switch_locked, family, state, sleep, signals, local>>

(* Faulty variant: every scan starts at the head.                           *)
ScanFromHead(n) == {m \in task_queue : m < n}

(* The tasks that task_switch_inner looks at before it reaches n: from the
   one after current_task to the tail, then from the head.                  *)
ScannedBefore(n) ==
    IF n > current_task
    THEN {m \in task_queue : current_task < m /\ m < n}
    ELSE {m \in task_queue : m > current_task \/ m < n}

(* wake_check: a sleeper whose sleep_end_tick has passed runs again.  Time is
   abstracted: an armed timeout may have passed at any switch.              *)
TimedOut(n) == state[n] = "SLEEPING" /\ armed[n]

(* task_switch_inner picks the first runnable task of the scan, or stays with
   current_task while switch_locked.  No candidate at all is the panic "All
   threads sleeping, even idle".                                            *)
PickNext ==
    /\ cpu = "switch"
    /\ \/ /\ switch_locked
          /\ UNCHANGED <<current_task, state, armed>>
       \/ /\ ~switch_locked
          /\ \E n \in task_queue :
                /\ state[n] \in Runnable \/ TimedOut(n)
                /\ \A m \in ScannedBefore(n) : state[m] \notin Runnable
                /\ current_task' = n
                /\ state' = [state EXCEPT ![n] = IF TimedOut(n) THEN "RUNNING" ELSE @]
                /\ armed' = [armed EXCEPT ![n] = IF TimedOut(n) THEN FALSE ELSE @]
    /\ cpu' = "signals"
    /\ UNCHANGED <<switch_locked, family, sleep_addr, signals, local>>

-----------------------------------------------------------------------------
(* Sleep and wakeup.                                                        *)

Running(p) == cpu = "run" /\ current_task = p

(* Faulty variant: idle_task leaves its loop.                               *)
IdleTaskReturns(p) == Running(p) /\ pc[p] = "run"

(* p may make a system call: it is outside the kernel, and not the idle task,
   which only halts the CPU until the next interrupt.                       *)
InUser(p) == Running(p) /\ p # IdleTask /\ pc[p] = "run"
Goto(p, l) == pc' = [pc EXCEPT ![p] = l]

(* The tasks wakeup(a) makes runnable.                                      *)
Sleepers(a) == {t \in task_queue : state[t] = "SLEEPING" /\ sleep_addr[t] = a}

(* wakeup(a), called by a task or by an interrupt handler.  It ends with
   switch_locked = false whoever had set the flag.                          *)
Wakeup(a) ==
    /\ state' = [t \in Pids |-> IF t \in Sleepers(a) THEN "RUNNING" ELSE state[t]]
    /\ sleep_addr' = [t \in Pids |-> IF t \in Sleepers(a) THEN NoAddr ELSE sleep_addr[t]]
    /\ armed' = [t \in Pids |-> IF t \in Sleepers(a) THEN FALSE ELSE armed[t]]
    /\ switch_locked' = FALSE

(* A device interrupt, or a task that made the event happen: kernel code
   outside this module calls wakeup on the event.                           *)
Event(c) ==
    /\ cpu = "run"
    /\ Wakeup(ChanAddr(c))
    /\ UNCHANGED <<cpu, current_task, family, signals, local>>

(* sleep_on(a), first half: the scheduler is locked and the state set.      *)
SleepBegin(p, a) ==
    /\ switch_locked' = TRUE
    /\ state' = [state EXCEPT ![p] = "SLEEPING"]
    /\ addr' = [addr EXCEPT ![p] = a]
    /\ Goto(p, "sleep1")

(* A system call that sleeps on an event: sleep_on, or sleep_onms, which
   arms sleep_end_tick first.                                               *)
SleepOn(p, c) ==
    /\ InUser(p)
    /\ SleepBegin(p, ChanAddr(c))
    /\ armed' \in {armed, [armed EXCEPT ![p] = TRUE]}
    /\ UNCHANGED <<cpu, current_task, family, sleep_addr, signals, sig, zombie>>

(* sleep_on, second half: the address, then the scheduler is unlocked.      *)
SleepAddr(p) ==
    /\ Running(p) /\ pc[p] = "sleep1"
    /\ sleep_addr' = [sleep_addr EXCEPT ![p] = addr[p]]
    /\ switch_locked' = FALSE
    /\ Goto(p, "sleep2")
    /\ UNCHANGED <<cpu, current_task, family, state, armed, signals, addr, sig, zombie>>

(* sleep_on ends with task_switch(); the caller resumes after it.           *)
SleepSwitch(p) ==
    /\ Running(p) /\ pc[p] = "sleep2"
    /\ cpu' = "switch"
    /\ Goto(p, IF addr[p] = WaitAddr(p) THEN "wait3" ELSE "run")
    /\ addr' = [addr EXCEPT ![p] = NoAddr]
    /\ UNCHANGED <<current_task, switch_locked, family, state, sleep, signals, sig, zombie>>

-----------------------------------------------------------------------------
(* Process creation and termination.                                        *)

(* Faulty variant: fork_int never starts the child.                         *)
ChildNotStarted == "CREATING"

(* The state fork_int gives the child before it links it.                   *)
ChildState == "RUNNING"

(* fork_int: a running copy of current_task is linked at the tail.          *)
Fork(p) ==
    /\ InUser(p)
    /\ next_pid <= MaxPid
    /\ next_pid' = next_pid + 1
    /\ task_queue' = task_queue \cup {next_pid}
    /\ state' = [state EXCEPT ![next_pid] = ChildState]
    /\ ppid' = [ppid EXCEPT ![next_pid] = p]
    /\ ignored' = [ignored EXCEPT ![next_pid] = ignored[p]]
    /\ switch_locked' = FALSE
    /\ UNCHANGED <<cpu, current_task, wait_queue, sleep, sigs_queue, local>>

(* Faulty variants of the three loops of task_exit.                         *)
NoReparent(p) == ppid
QueueOnInit(p) == InitTask
ZombiesForgotten(p) == {}

(* Running children of p go to init.                                        *)
Reparent(p) == [q \in Pids |-> IF q \in task_queue /\ ppid[q] = p THEN InitTask ELSE ppid[q]]

(* The task whose wait_queue p joins.  The local variable parent of task_exit is
   set only if the scan of task_queue meets ppid[p].                        *)
ExitParent(p) == ppid[p]

(* The exited children that task_exit frees with its own wait_queue.        *)
FreedZombies(p) == Elems(wait_queue[p])

(* task_exit of p, any task but init: children reparented, p unlinked, its
   zombies freed, its signals dropped, p queued on its parent, which is woken
   if it sleeps in task_wait.  W are the sleepers that process_signals made
   AWAKEN before it called task_exit.  p never runs again: its position is
   forgotten.                                                               *)
TaskExit(p, W) ==
    LET parent == ExitParent(p)
        woken == Sleepers(WaitAddr(parent)) \ (W \cup {p})
    IN  /\ p # InitTask
        /\ ppid' = Reparent(p)
        /\ task_queue' = task_queue \ {p}
        /\ wait_queue' = [t \in Pids |->
                        IF t = p THEN <<>>
                        ELSE IF t = parent THEN Append(wait_queue[t], p)
                        ELSE wait_queue[t]]
        /\ state' = [t \in Pids |->
                        IF t = p THEN "EXITING"
                        ELSE IF t \in FreedZombies(p) THEN "freed"
                        ELSE IF t \in woken THEN "RUNNING"
                        ELSE IF t \in W THEN "AWAKEN"
                        ELSE state[t]]
        /\ sleep_addr' = [t \in Pids |-> IF t \in woken THEN NoAddr ELSE sleep_addr[t]]
        /\ armed' = [t \in Pids |-> IF t \in woken THEN FALSE ELSE armed[t]]
        /\ sigs_queue' = [sigs_queue EXCEPT ![p] = <<>>]
        /\ switch_locked' = FALSE
        /\ cpu' = "switch"
        /\ Goto(p, "run")
        /\ addr' = [addr EXCEPT ![p] = NoAddr]
        /\ sig' = [sig EXCEPT ![p] = NoSig]
        /\ UNCHANGED <<current_task, next_pid, ignored, zombie>>

(* exit(), or a page fault of a program.                                    *)
Exit(p) == InUser(p) /\ TaskExit(p, {})

(* task_wait tests num_items before it locks the scheduler.                 *)
Wait(p) ==
    /\ InUser(p)
    /\ Goto(p, IF wait_queue[p] = <<>> THEN "wait1" ELSE "wait3")
    /\ UNCHANGED <<sched, family, state, sleep, signals, addr, sig, zombie>>

HasChild(p) == \E t \in task_queue : ppid[t] = p

(* Faulty variant: the early return forgets to unlock the scheduler.        *)
WaitNoChildLocked(p) ==
    /\ Running(p) /\ pc[p] = "wait1"
    /\ ~HasChild(p)
    /\ switch_locked' = TRUE
    /\ Goto(p, "run")
    /\ UNCHANGED <<cpu, current_task, family, state, sleep, signals, addr, sig, zombie>>

(* task_wait finds no child in task_queue and returns -1.                   *)
WaitNoChild(p) ==
    /\ Running(p) /\ pc[p] = "wait1"
    /\ ~HasChild(p)
    /\ switch_locked' = FALSE
    /\ Goto(p, "run")
    /\ UNCHANGED <<cpu, current_task, family, state, sleep, signals, addr, sig, zombie>>

(* task_wait finds a child: the scheduler is locked on the way to sleep_on. *)
WaitScan(p) ==
    /\ Running(p) /\ pc[p] = "wait1"
    /\ HasChild(p)
    /\ switch_locked' = TRUE
    /\ Goto(p, "wait2")
    /\ UNCHANGED <<cpu, current_task, family, state, sleep, signals, addr, sig, zombie>>

WaitSleep(p) ==
    /\ Running(p) /\ pc[p] = "wait2"
    /\ SleepBegin(p, WaitAddr(p))
    /\ UNCHANGED <<cpu, current_task, family, sleep, signals, sig, zombie>>

(* task_wait after its sleep: the scheduler is locked; -2 if it was woken too
   early.                                                                   *)
WaitLock(p) ==
    /\ Running(p) /\ pc[p] = "wait3"
    /\ switch_locked' = (wait_queue[p] # <<>>)
    /\ Goto(p, IF wait_queue[p] = <<>> THEN "run" ELSE "wait4")
    /\ UNCHANGED <<cpu, current_task, family, state, sleep, signals, addr, sig, zombie>>

(* list_del takes the first zombie from the queue.  Interrupts are on, so that
   p may be preempted before and after, locked or not, and process_signals may
   terminate it: what it has unlinked is then freed by nobody.              *)
WaitUnlink(p) ==
    /\ Running(p) /\ pc[p] = "wait4"
    /\ zombie' = [zombie EXCEPT ![p] = Head(wait_queue[p])]
    /\ wait_queue' = [wait_queue EXCEPT ![p] = Tail(@)]
    /\ Goto(p, "wait5")
    /\ UNCHANGED <<sched, task_queue, next_pid, ppid, state, sleep, signals, addr, sig>>

(* task_free, and the scheduler is unlocked.                                *)
WaitFree(p) ==
    /\ Running(p) /\ pc[p] = "wait5"
    /\ state' = [state EXCEPT ![zombie[p]] = "freed"]
    /\ zombie' = [zombie EXCEPT ![p] = 0]
    /\ switch_locked' = FALSE
    /\ Goto(p, "run")
    /\ UNCHANGED <<cpu, current_task, family, sleep, signals, addr, sig>>

-----------------------------------------------------------------------------
(* Signals.                                                                 *)

(* signal(s, SIG_IGN) and signal(s, SIG_DFL); KILL is refused.  Ignoring CONT
   differs from its default only by a message.                              *)
Signal(p, s) ==
    /\ InUser(p) /\ p \in Ignorers
    /\ s \in Terminating \ {"KILL"}
    /\ \E on \in {{}, {s}} : ignored' = [ignored EXCEPT ![p] = (@ \ {s}) \cup on]
    /\ UNCHANGED <<sched, family, state, sleep, sigs_queue, local>>

(* exec() sets the default handlers.                                        *)
Exec(p) ==
    /\ InUser(p)
    /\ ignored' = [ignored EXCEPT ![p] = {}]
    /\ UNCHANGED <<sched, family, state, sleep, sigs_queue, local>>

AddSig(t, s) == sigs_queue' = [sigs_queue EXCEPT ![t] = Append(@, s)]
Room(t) ==
    Len(sigs_queue[t]) + Cardinality({q \in task_queue : sig[q][1] = t}) < MaxSigs

(* kill() finds its target in task_queue; with KillWindow another task may
   run before the signal is queued.                                         *)
Kill(p, t, s) ==
    /\ InUser(p)
    /\ t \in task_queue \cap KillTargets
    /\ Room(t)
    /\ \/ /\ KillWindow
          /\ sig' = [sig EXCEPT ![p] = <<t, s>>]
          /\ Goto(p, "kill")
          /\ UNCHANGED sigs_queue
       \/ /\ ~KillWindow
          /\ AddSig(t, s)
          /\ UNCHANGED <<sig, pc>>
    /\ UNCHANGED <<sched, family, state, sleep, ignored, addr, zombie>>

KillAdd(p) ==
    /\ Running(p) /\ pc[p] = "kill"
    /\ AddSig(sig[p][1], sig[p][2])
    /\ sig' = [sig EXCEPT ![p] = NoSig]
    /\ Goto(p, "run")
    /\ UNCHANGED <<sched, family, state, sleep, ignored, addr, zombie>>

Pending(t) == sigs_queue[t] # <<>>
Fatal(p) == \E s \in Elems(sigs_queue[p]) \cap Terminating : s \notin ignored[p]

(* A queued signal whose task has left task_queue.                          *)
Stray == \E t \in Pids \ task_queue : Pending(t)

(* Faulty variant: a signal does not wake its task.                         *)
NobodySignalled(p) == {}

(* Sleeping tasks with a signal, which process_signals makes AWAKEN.        *)
Signalled(p) == {t \in task_queue \ {p} : Pending(t) /\ state[t] = "SLEEPING"}

(* process_signals reaches the end of the list: every signalled sleeper is
   awakened, the signals of p are dropped.  A terminating signal for init only
   has task_exit print a message and return with switch_locked set.         *)
HandleAll(p) ==
    /\ ~Stray
    /\ Fatal(p) => p = InitTask
    /\ state' = [t \in Pids |-> IF t \in Signalled(p) THEN "AWAKEN" ELSE state[t]]
    /\ sigs_queue' = [sigs_queue EXCEPT ![p] = <<>>]
    /\ switch_locked' = (switch_locked \/ Fatal(p))
    /\ cpu' = "run"
    /\ UNCHANGED <<current_task, family, sleep, ignored, local>>

ProcessSignals ==
    /\ cpu = "signals"
    /\ HandleAll(current_task)

(* process_signals ends in task_exit: at a terminating signal of the current
   task, or in the page fault of t->state where t is NULL because the task of
   a queued signal is gone.  Which sleepers were awakened before depends on
   the order of the list.                                                   *)
SignalExit ==
    /\ cpu = "signals"
    /\ (Fatal(current_task) /\ current_task # InitTask) \/ Stray
    /\ \E W \in SUBSET Signalled(current_task) : TaskExit(current_task, W)

(* The same page fault while init runs: task_exit returns, halt().          *)
Halt ==
    /\ cpu = "signals"
    /\ current_task = InitTask
    /\ Stray
    /\ cpu' = "halted"
    /\ UNCHANGED <<current_task, switch_locked, family, state, sleep, signals, local>>

-----------------------------------------------------------------------------
(* The steps of a kernel routine that has been entered, which the CPU goes on
   executing, and the system calls a program may make.                      *)
KernelStep(p) ==
    \/ SleepAddr(p) \/ SleepSwitch(p)
    \/ WaitNoChild(p) \/ WaitScan(p) \/ WaitSleep(p)
    \/ WaitLock(p) \/ WaitUnlink(p) \/ WaitFree(p)
    \/ KillAdd(p)

Syscall(p) ==
    \/ Fork(p) \/ Exit(p) \/ Wait(p) \/ Exec(p)
    \/ \E c \in Chans : SleepOn(p, c)
    \/ \E s \in Sigs : Signal(p, s)
    \/ \E t \in Pids, s \in Sigs : Kill(p, t, s)

Next ==
    \/ Timer \/ PickNext \/ ProcessSignals \/ SignalExit \/ Halt
    \/ \E c \in Chans : Event(c)
    \/ \E p \in Pids : KernelStep(p) \/ Syscall(p)

Spec == Init /\ [][Next]_vars

(* The timer keeps ticking and the CPU keeps executing kernel code.  Programs
   need not make system calls and devices need not interrupt.               *)
Fairness ==
    /\ WF_vars(Timer)
    /\ WF_vars(PickNext)
    /\ WF_vars(ProcessSignals \/ SignalExit)
    /\ \A p \in Pids : SF_vars(KernelStep(p))

FairSpec == Spec /\ Fairness

-----------------------------------------------------------------------------
(* Safety.                                                                  *)

(* task_exit reads its local variable parent, which the scan of task_queue sets
   only if it meets the task's ppid: whatever order parents and children exit
   in, the parent of a queued task is queued.                               *)
ParentQueued ==
    \A p \in task_queue \ {InitTask} : ppid[p] \in task_queue

(* task_wait of some task has taken z from its queue.                       *)
Unlinked(z) == \E p \in Pids : zombie[p] = z

(* Every task that has exited has exactly one owner: it waits on one wait queue,
   once, its parent's, and only until that parent is gone, or the parent's
   task_wait has unlinked it and is about to free it.  The one exception is a
   parent that was terminated between list_del and task_free (task.c:387 to
   391): its zombie is lost, on no queue and freed by nobody.  What task_wait
   and task_exit hand to task_free satisfies its assertions (state TASK_EXITING
   and an empty wait queue of its own).                                     *)
ZombieOwned ==
    /\ \A p \in Pids : \A i, j \in DOMAIN wait_queue[p] :
          /\ state[wait_queue[p][i]] = "EXITING"
          /\ ppid[wait_queue[p][i]] = p
          /\ wait_queue[wait_queue[p][i]] = <<>>
          /\ wait_queue[p][i] = wait_queue[p][j] => i = j
          /\ ~Unlinked(wait_queue[p][i])
    /\ \A p \in Pids : zombie[p] # 0 =>
          /\ state[zombie[p]] = "EXITING"
          /\ ppid[zombie[p]] = p
          /\ wait_queue[zombie[p]] = <<>>
          /\ pc[p] = "wait5" \/ p \notin task_queue
    /\ \A z \in Pids : state[z] = "EXITING" =>
          \/ Unlinked(z)
          \/ /\ ppid[z] \in task_queue
             /\ \E i \in DOMAIN wait_queue[ppid[z]] : wait_queue[ppid[z]][i] = z

(* The panic "All threads sleeping, even idle" of task_switch_inner: at every
   switch some queued task can run.                                         *)
SomeTaskRuns == cpu = "switch" => \E n \in task_queue : state[n] \in Runnable

(* The scheduler is locked only while the running task is inside one of the
   short sections of task_wait and sleep_on that unlock it again; it is never
   left locked by a task that was switched out, woken or killed.            *)
LockHeldByCurrent ==
    switch_locked => pc[current_task] \in {"wait2", "wait4", "wait5", "sleep1"}

(* A zombie is freed only by its parent: by the parent's task_wait or exit. *)
FreedByParent ==
    [][\A z \in Pids : state[z] = "EXITING" /\ state'[z] # "EXITING"
          => state'[z] = "freed" /\ current_task = ppid[z]]_vars

(* Liveness.                                                                *)

(* Round robin: a task that can run gets the CPU, or stops being able to.   *)
EveryTaskScheduled ==
    \A p \in Pids : state[p] \in Runnable ~> (current_task = p \/ state[p] \notin Runnable)

(* kill(pid, SIGKILL) terminates the task even if it sleeps forever.        *)
KillTerminates ==
    \A p \in Pids \ {InitTask} :
        "KILL" \in Elems(sigs_queue[p]) ~> state[p] \in {"EXITING", "freed"}

(* What task.h and the comments of task.c promise, and the code does not    *)
(* keep: see the findings.                                                  *)

(* task_wait "Suspends current process execution until one of it's children
   terminates": nobody sleeps in task_wait while an exited child waits.      *)
NoSleepWithZombie ==
    \A p \in task_queue :
        state[p] = "SLEEPING" /\ sleep_addr[p] = WaitAddr(p) => wait_queue[p] = <<>>

(* bin/test_fork.c: the wait() after a fork returns the child; -1 means that
   there is no child, running or exited.                                    *)
NoEarlyWaitFailure ==
    [][\A p \in Pids : WaitNoChild(p) => wait_queue[p] = <<>>]_vars

(* task_exit deletes "any existing signal for us": no signal outlives its
   task.                                                                    *)
NoStraySignal == ~Stray
=============================================================================
