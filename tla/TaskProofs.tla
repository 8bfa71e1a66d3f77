----------------------------- MODULE TaskProofs -----------------------------
(* Proofs about Task, for every number of tasks, signals and events.        *)
EXTENDS Task, TLAPS

USE TaskAssumption DEF Pids, InitTask, IdleTask

(* What the proofs need of sequences.                                       *)
LEMMA SeqFacts ==
  ASSUME NEW S, NEW s \in Seq(S)
  PROVE  /\ Len(s) \in Nat
         /\ DOMAIN s = 1..Len(s)
         /\ \A i \in DOMAIN s : s[i] \in S
         /\ s # <<>> => /\ 1 \in DOMAIN s
                       /\ Head(s) = s[1]
                       /\ Tail(s) \in Seq(S)
                       /\ Len(Tail(s)) = Len(s) - 1
                       /\ DOMAIN Tail(s) = 1..(Len(s) - 1)
                       /\ \A i \in 1..(Len(s) - 1) : Tail(s)[i] = s[i + 1]
  OBVIOUS

LEMMA AppendFacts ==
  ASSUME NEW S, NEW s \in Seq(S), NEW e \in S
  PROVE  /\ Append(s, e) \in Seq(S)
         /\ DOMAIN Append(s, e) = 1..(Len(s) + 1)
         /\ \A i \in 1..Len(s) : Append(s, e)[i] = s[i]
         /\ Append(s, e)[Len(s) + 1] = e
  OBVIOUS

LEMMA HeadFacts ==
  ASSUME NEW s \in Seq(Pids), s # <<>>
  PROVE  Head(s) \in Pids /\ Tail(s) \in Seq(Pids)
BY SeqFacts

LEMMA InitTypeOK == Init => TypeOK
<1> SUFFICES ASSUME Init PROVE TypeOK
  OBVIOUS
<1> USE DEF Init
<1>1. NoAddr \in Addrs /\ NoSig \in SigRecords
  BY DEF Addrs, SigRecords
<1>2. sleep_addr \in [Pids -> Addrs] /\ addr \in [Pids -> Addrs] /\ sig \in [Pids -> SigRecords]
  BY <1>1
<1>3. ignored \in [Pids -> SUBSET (Sigs \ {"KILL"})]
  OBVIOUS
<1>4. wait_queue \in [Pids -> Seq(Pids)] /\ sigs_queue \in [Pids -> Seq(Sigs)]
  OBVIOUS
<1>5. state \in [Pids -> States] /\ pc \in [Pids -> Locations] /\ ppid \in [Pids -> 0..MaxPid]
  BY DEF States, Locations
<1>6. armed \in [Pids -> BOOLEAN] /\ switch_locked \in BOOLEAN
  OBVIOUS
<1>8. zombie \in [Pids -> 0..MaxPid]
  <2>1. 0 \in 0..MaxPid
    OBVIOUS
  <2> QED BY <2>1
<1>7. /\ cpu \in {"run", "switch", "signals", "halted"}
      /\ current_task \in Pids
      /\ task_queue \subseteq Pids
      /\ next_pid \in 3..(MaxPid + 1)
  OBVIOUS
<1> QED BY <1>2, <1>3, <1>4, <1>5, <1>6, <1>7, <1>8 DEF TypeOK

(* Between its test and task_free, task_wait has a zombie at hand: at the head of
   the queue, which only its own task shortens, or unlinked.                *)
WaitInv ==
    \A p \in Pids :
        /\ pc[p] = "wait4" => wait_queue[p] # <<>>
        /\ pc[p] = "wait5" => zombie[p] # 0

LEMMA WaitStep == TypeOK /\ WaitInv /\ [Next]_vars => WaitInv'
<1> SUFFICES ASSUME TypeOK, WaitInv, [Next]_vars PROVE WaitInv'
  OBVIOUS
<1>a. pc \in [Pids -> Locations] /\ zombie \in [Pids -> 0..MaxPid]
      /\ wait_queue \in [Pids -> Seq(Pids)]
  BY DEF TypeOK
<1>b. ASSUME UNCHANGED <<wait_queue, zombie>>,
             \A q \in Pids : pc'[q] = pc[q] \/ pc'[q] \notin {"wait4", "wait5"}
      PROVE  WaitInv'
  BY <1>b DEF WaitInv
<1>1. CASE Timer \/ PickNext \/ Halt \/ ProcessSignals
  BY <1>1, <1>b DEF Timer, PickNext, Halt, ProcessSignals, HandleAll, local, family
<1>2. ASSUME NEW p \in Pids, NEW W, TaskExit(p, W) PROVE WaitInv'
  <2>1. \A t \in Pids : Append(wait_queue[t], p) # <<>>
    <3> TAKE t \in Pids
    <3> DEFINE w == wait_queue[t]
    <3>1. w \in Seq(Pids)
      BY <1>a
    <3> HIDE DEF w
    <3>2. Len(Append(w, p)) = Len(w) + 1 /\ Len(w) \in Nat
      BY <3>1
    <3>3. Append(w, p) # <<>>
      <4>1. Len(<<>>) = 0
        OBVIOUS
      <4>2. Len(w) + 1 # 0
        BY <3>2
      <4> QED BY <3>2, <4>1, <4>2, Zenon
    <3> QED BY <3>3 DEF w
  <2>2. /\ wait_queue' = [t \in Pids |-> IF t = p THEN <<>>
              ELSE IF t = ExitParent(p) THEN Append(wait_queue[t], p) ELSE wait_queue[t]]
        /\ pc' = [pc EXCEPT ![p] = "run"] /\ zombie' = zombie
    BY <1>2, Zenon DEF TaskExit, Goto
  <2>3. pc'[p] = "run" /\ \A t \in Pids : t # p => pc'[t] = pc[t]
    BY <1>a, <2>2
  <2>4. \A t \in Pids : t # p /\ wait_queue[t] # <<>> => wait_queue'[t] # <<>>
    BY <2>1, <2>2, Zenon
  <2> QED BY <2>2, <2>3, <2>4 DEF WaitInv
<1>3. CASE SignalExit
  BY <1>3, <1>2 DEF SignalExit, TypeOK
<1>4. CASE \E c \in Chans : Event(c)
  BY <1>4, <1>b DEF Event, local, family
<1>5. ASSUME NEW p \in Pids, KernelStep(p) PROVE WaitInv'
  <2>1. CASE SleepAddr(p) \/ SleepSwitch(p) \/ WaitNoChild(p) \/ WaitScan(p)
             \/ WaitSleep(p) \/ KillAdd(p)
    <3>1. \E l \in {"sleep1", "sleep2", "wait2", "wait3", "run"} : pc' = [pc EXCEPT ![p] = l]
      BY <2>1 DEF SleepAddr, SleepSwitch, WaitNoChild, WaitScan, WaitSleep, SleepBegin,
                  KillAdd, Goto
    <3>2. UNCHANGED <<wait_queue, zombie>>
      BY <2>1 DEF SleepAddr, SleepSwitch, WaitNoChild, WaitScan, WaitSleep, KillAdd, family
    <3> QED BY <1>a, <1>b, <3>1, <3>2
  <2>2. CASE WaitLock(p)
    BY <1>a, <2>2 DEF WaitLock, Goto, family, WaitInv
  <2>3. CASE WaitUnlink(p)
    <3>1. wait_queue[p] # <<>> /\ wait_queue[p] \in Seq(Pids)
      BY <1>a, <2>3 DEF WaitUnlink, WaitInv
    <3>2. Head(wait_queue[p]) \in Pids
      BY <3>1
    <3> QED BY <1>a, <2>3, <3>2 DEF WaitUnlink, Goto, WaitInv
  <2>4. CASE WaitFree(p)
    BY <1>a, <2>4 DEF WaitFree, Goto, family, WaitInv
  <2> QED BY <1>5, <2>1, <2>2, <2>3, <2>4 DEF KernelStep
<1>6. ASSUME NEW p \in Pids, Syscall(p) PROVE WaitInv'
  <2>1. CASE Exit(p)
    BY <2>1, <1>2 DEF Exit
  <2>2. CASE Fork(p) \/ Exec(p) \/ \E s \in Sigs : Signal(p, s)
    BY <2>2, <1>b DEF Fork, Exec, Signal, local, family
  <2>3. CASE Wait(p) \/ (\E c \in Chans : SleepOn(p, c)) \/ \E t \in Pids, s \in Sigs : Kill(p, t, s)
    <3>1. pc' = pc \/ \E l \in {"sleep1", "wait1", "wait3", "kill"} : pc' = [pc EXCEPT ![p] = l]
      BY <2>3 DEF Wait, SleepOn, SleepBegin, Kill, Goto
    <3>2. UNCHANGED <<wait_queue, zombie>>
      BY <2>3 DEF Wait, SleepOn, SleepBegin, Kill, family
    <3> QED BY <1>a, <1>b, <3>1, <3>2
  <2> QED BY <1>6, <2>1, <2>2, <2>3 DEF Syscall
<1>7. CASE UNCHANGED vars
  BY <1>7, <1>b DEF vars, local, family
<1> QED BY <1>1, <1>3, <1>4, <1>5, <1>6, <1>7 DEF Next

LEMMA TypeOKStep == TypeOK /\ WaitInv /\ [Next]_vars => TypeOK'
<1> SUFFICES ASSUME TypeOK, WaitInv, [Next]_vars PROVE TypeOK'
  OBVIOUS
<1> USE DEF TypeOK, sched, family, sleep, signals, local
<1>a. NoAddr \in Addrs /\ NoSig \in SigRecords /\ \A p \in Pids : WaitAddr(p) \in Addrs
  BY DEF Addrs, SigRecords
<1>1. CASE Timer
  BY <1>1 DEF Timer
<1>2. CASE PickNext
  <2>1. CASE switch_locked /\ UNCHANGED <<current_task, state, armed>>
    BY <1>2, <2>1 DEF PickNext
  <2>2. ASSUME NEW n \in task_queue, current_task' = n,
               state' = [state EXCEPT ![n] = IF TimedOut(n) THEN "RUNNING" ELSE @],
               armed' = [armed EXCEPT ![n] = IF TimedOut(n) THEN FALSE ELSE @]
        PROVE  TypeOK'
    <3>1. state' \in [Pids -> States]
      BY <2>2 DEF States
    <3>2. armed' \in [Pids -> BOOLEAN]
      BY <2>2
    <3> QED BY <1>2, <2>2, <3>1, <3>2 DEF PickNext
  <2> QED BY <1>2, <2>1, <2>2 DEF PickNext
<1>3. CASE ProcessSignals
  BY <1>3, SMTT(30) DEF ProcessSignals, HandleAll, States
<1>4. ASSUME NEW p \in Pids, NEW W \in SUBSET Pids, TaskExit(p, W) PROVE TypeOK'
  <2>1. wait_queue' \in [Pids -> Seq(Pids)]
    <3>1. \A t \in Pids : Append(wait_queue[t], p) \in Seq(Pids)
      OBVIOUS
    <3>2. wait_queue' = [t \in Pids |-> IF t = p THEN <<>>
              ELSE IF t = ExitParent(p) THEN Append(wait_queue[t], p) ELSE wait_queue[t]]
      BY <1>4, Zenon DEF TaskExit
    <3>3. \A t \in Pids : wait_queue[t] \in Seq(Pids)
      OBVIOUS
    <3>4. <<>> \in Seq(Pids)
      OBVIOUS
    <3> HIDE DEF TypeOK
    <3> QED BY <3>1, <3>2, <3>3, <3>4, Zenon
  <2>2. state' \in [Pids -> States]
    BY <1>4 DEF TaskExit, States
  <2>3. ppid' \in [Pids -> 0..MaxPid]
    BY <1>4 DEF TaskExit, Reparent
  <2>4. sleep_addr' \in [Pids -> Addrs] /\ armed' \in [Pids -> BOOLEAN]
    BY <1>4, <1>a DEF TaskExit
  <2>5. pc' \in [Pids -> Locations] /\ addr' \in [Pids -> Addrs]
        /\ sig' \in [Pids -> SigRecords] /\ sigs_queue' \in [Pids -> Seq(Sigs)]
    BY <1>4, <1>a DEF TaskExit, Goto, Locations
  <2> QED BY <1>4, <2>1, <2>2, <2>3, <2>4, <2>5 DEF TaskExit
<1>5. CASE SignalExit
  BY <1>5, <1>4 DEF SignalExit, Signalled
<1>6. CASE Halt
  BY <1>6 DEF Halt
<1>7. ASSUME NEW c \in Chans, Event(c) PROVE TypeOK'
  BY <1>7, <1>a DEF Event, Wakeup, States
<1>8. ASSUME NEW p \in Pids, KernelStep(p) PROVE TypeOK'
  <2>1. CASE SleepAddr(p)
    BY <2>1 DEF SleepAddr, Goto, Locations
  <2>2. CASE SleepSwitch(p)
    BY <2>2, <1>a DEF SleepSwitch, Goto, Locations
  <2>3. CASE WaitNoChild(p)
    BY <2>3 DEF WaitNoChild, Goto, Locations
  <2>4. CASE WaitScan(p)
    BY <2>4 DEF WaitScan, Goto, Locations
  <2>5. CASE WaitSleep(p)
    BY <2>5, <1>a DEF WaitSleep, SleepBegin, Goto, Locations, States
  <2>6. CASE WaitLock(p)
    BY <2>6 DEF WaitLock, Goto, Locations
  <2>8. CASE WaitUnlink(p)
    <3>1. wait_queue[p] # <<>> /\ wait_queue[p] \in Seq(Pids)
      BY <2>8 DEF WaitUnlink, WaitInv
    <3>2. Tail(wait_queue[p]) \in Seq(Pids) /\ Head(wait_queue[p]) \in 0..MaxPid
      <4>1. Head(wait_queue[p]) \in Pids /\ Tail(wait_queue[p]) \in Seq(Pids)
        BY <3>1, HeadFacts, Zenon
      <4>2. Pids \subseteq 0..MaxPid
        OBVIOUS
      <4> QED BY <4>1, <4>2, Zenon
    <3>3. wait_queue' \in [Pids -> Seq(Pids)] /\ zombie' \in [Pids -> 0..MaxPid]
      BY <2>8, <3>2 DEF WaitUnlink
    <3> QED BY <2>8, <3>3 DEF WaitUnlink, Goto, Locations
  <2>9. CASE WaitFree(p)
    <3>1. state' \in [Pids -> States]
      BY <2>9 DEF WaitFree, States
    <3>2. zombie' \in [Pids -> 0..MaxPid]
      <4>1. 0 \in 0..MaxPid
        OBVIOUS
      <4> QED BY <2>9, <4>1 DEF WaitFree
    <3> QED BY <2>9, <3>1, <3>2 DEF WaitFree, Goto, Locations
  <2>7. CASE KillAdd(p)
    <3>1. sigs_queue' \in [Pids -> Seq(Sigs)]
      <4>1. sig[p] = <<0, "none">> \/ sig[p] \in Pids \X Sigs
        BY DEF SigRecords, NoSig
      <4>2. CASE sig[p] = <<0, "none">>
        <5>1. sig[p][1] \notin Pids
          BY <4>2
        <5> QED BY <2>7, <5>1 DEF KillAdd, AddSig
      <4>3. CASE sig[p] \in Pids \X Sigs
        BY <2>7, <4>3 DEF KillAdd, AddSig
      <4> QED BY <4>1, <4>2, <4>3
    <3> QED BY <2>7, <3>1, <1>a DEF KillAdd, Goto, Locations
  <2> QED BY <1>8, <2>1, <2>2, <2>3, <2>4, <2>5, <2>6, <2>7, <2>8, <2>9 DEF KernelStep
<1>9. ASSUME NEW p \in Pids, Syscall(p) PROVE TypeOK'
  <2>1. CASE Fork(p)
    <3>1. next_pid \in Pids /\ next_pid' \in 3..(MaxPid + 1)
      BY <2>1 DEF Fork
    <3>2. state' \in [Pids -> States]
      BY <2>1, <3>1 DEF Fork, ChildState, States
    <3>3. ppid' \in [Pids -> 0..MaxPid]
      BY <2>1, <3>1, SMTT(30) DEF Fork
    <3>4. ignored' \in [Pids -> SUBSET (Sigs \ {"KILL"})]
      BY <2>1, <3>1 DEF Fork
    <3> QED BY <2>1, <3>1, <3>2, <3>3, <3>4 DEF Fork
  <2>2. CASE Exit(p)
    BY <2>2, <1>4 DEF Exit
  <2>3. CASE Wait(p)
    BY <2>3 DEF Wait, Goto, Locations
  <2>4. CASE Exec(p)
    BY <2>4 DEF Exec
  <2>5. ASSUME NEW c \in Chans, SleepOn(p, c) PROVE TypeOK'
    <3>1. ChanAddr(c) \in Addrs
      BY DEF Addrs
    <3> QED BY <2>5, <3>1 DEF SleepOn, SleepBegin, Goto, Locations, States
  <2>6. ASSUME NEW s \in Sigs, Signal(p, s) PROVE TypeOK'
    <3>1. PICK on \in {{}, {s}} : ignored' = [ignored EXCEPT ![p] = (@ \ {s}) \cup on]
      BY <2>6 DEF Signal
    <3>2. s # "KILL"
      BY <2>6 DEF Signal, Terminating
    <3>3. (ignored[p] \ {s}) \cup on \in SUBSET (Sigs \ {"KILL"})
      BY <3>2
    <3>4. ignored' \in [Pids -> SUBSET (Sigs \ {"KILL"})]
      BY <3>1, <3>3
    <3> QED BY <2>6, <3>4 DEF Signal
  <2>7. ASSUME NEW t \in Pids, NEW s \in Sigs, Kill(p, t, s) PROVE TypeOK'
    <3>1. <<t, s>> \in SigRecords
      BY DEF SigRecords
    <3>2. Append(sigs_queue[t], s) \in Seq(Sigs)
      OBVIOUS
    <3>3. sigs_queue' \in [Pids -> Seq(Sigs)]
      BY <2>7, <3>2, ZenonT(60) DEF Kill, AddSig
    <3>4. sig' \in [Pids -> SigRecords]
      BY <2>7, <3>1 DEF Kill
    <3>5. pc' \in [Pids -> Locations]
      BY <2>7 DEF Kill, Goto, Locations
    <3> QED BY <2>7, <3>3, <3>4, <3>5 DEF Kill
  <2> QED BY <1>9, <2>1, <2>2, <2>3, <2>4, <2>5, <2>6, <2>7 DEF Syscall
<1>10. CASE UNCHANGED vars
  BY <1>10 DEF vars
<1> QED
  BY <1>1, <1>2, <1>3, <1>5, <1>6, <1>7, <1>8, <1>9, <1>10 DEF Next

(* Every variable keeps its type: no pid beyond the ones handed out, no state
   or address that the code does not know.                                  *)
THEOREM TypeCorrect == Spec => []TypeOK
<1>1. Init => WaitInv
  BY DEF Init, WaitInv
<1> QED BY <1>1, InitTypeOK, TypeOKStep, WaitStep, PTL DEF Spec

-----------------------------------------------------------------------------
(* The inductive invariant of the task family.  Alone, ParentQueued is not
   inductive: that a task is queued exactly while its state is one of Queued,
   that parents are older than their children and that the running task is
   queued, except while the CPU leaves it at the end of task_exit, are what
   keep task_exit from orphaning anybody.                                   *)
PidInv ==
    /\ InitTask \in task_queue
    /\ \A p \in Pids : p \in task_queue <=> state[p] \in Queued
    /\ \A p \in Pids : state[p] = "none" <=> p >= next_pid
    /\ \A p \in Pids : ppid[p] < p
    /\ cpu # "switch" \/ switch_locked => current_task \in task_queue

FamilyInv == TypeOK /\ WaitInv /\ PidInv /\ ParentQueued /\ ZombieOwned

LEMMA WaitQueueType ==
  ASSUME TypeOK, NEW p \in Pids
  PROVE  /\ wait_queue[p] \in Seq(Pids)
         /\ Len(wait_queue[p]) \in Nat
         /\ DOMAIN wait_queue[p] = 1..Len(wait_queue[p])
         /\ \A i \in DOMAIN wait_queue[p] : wait_queue[p][i] \in Pids
         /\ wait_queue[p] # <<>> => /\ 1 \in DOMAIN wait_queue[p]
                                   /\ Head(wait_queue[p]) = wait_queue[p][1]
<1>1. wait_queue[p] \in Seq(Pids)
  BY DEF TypeOK
<1> QED BY <1>1, SeqFacts

LEMMA ZombieType ==
  ASSUME TypeOK, NEW p \in Pids, zombie[p] # 0 PROVE zombie[p] \in Pids
<1>1. zombie[p] \in 0..MaxPid
  BY DEF TypeOK
<1>2. \A n \in 0..MaxPid : n # 0 => n \in Pids
  OBVIOUS
<1> QED BY <1>1, <1>2

(* A step that touches only the states of queued tasks, and leaves them
   queued, keeps the family invariant.                                      *)
LEMMA NeutralStep ==
  ASSUME FamilyInv, TypeOK',
         UNCHANGED family, UNCHANGED zombie, WaitInv',
         \A t \in Pids : pc'[t] = "wait5" <=> pc[t] = "wait5",
         \A t \in Pids : state'[t] = state[t] \/ (state[t] \in Queued /\ state'[t] \in Queued),
         cpu' # "switch" \/ switch_locked' => current_task' \in task_queue
  PROVE  FamilyInv'
<1> USE DEF FamilyInv, family
<1>1. PidInv'
  BY DEF PidInv, Queued
<1>2. ParentQueued'
  BY DEF ParentQueued
<1>3. \A z \in Pids : state'[z] = "EXITING" <=> state[z] = "EXITING"
  BY DEF Queued
<1>4. \A p \in Pids : \A i \in DOMAIN wait_queue[p] : wait_queue[p][i] \in Pids
  BY WaitQueueType
<1>6. \A p \in Pids : zombie[p] # 0 => zombie[p] \in Pids
  BY ZombieType
<1>5. ZombieOwned'
  <2>1. \A z \in Pids : Unlinked(z)' <=> Unlinked(z)
    BY DEF Unlinked
  <2> QED BY <1>3, <1>4, <1>6, <2>1 DEF ZombieOwned
<1> QED BY <1>1, <1>2, <1>5

LEMMA ForkKeepsFamily ==
  ASSUME FamilyInv, TypeOK', WaitInv', NEW p \in Pids, Fork(p) PROVE FamilyInv'
<1> USE DEF FamilyInv
<1> DEFINE n == next_pid
<1>1. n \in Pids /\ state[n] = "none" /\ n \notin task_queue /\ p \in task_queue /\ p < n
  <2>1. n \in Pids
    BY DEF Fork, TypeOK
  <2>2. state[n] = "none"
    <3>1. n >= next_pid
      BY <2>1
    <3> QED BY <2>1, <3>1 DEF PidInv
  <2>5. n \notin task_queue
    BY <2>1, <2>2 DEF PidInv, Queued
  <2>3. p \in task_queue /\ state[p] # "none"
    BY DEF Fork, InUser, Running, PidInv, Queued
  <2>4. p < n
    BY <2>3 DEF PidInv, TypeOK
  <2> QED BY <2>1, <2>2, <2>3, <2>4, <2>5
<1>2. /\ state' = [state EXCEPT ![n] = "RUNNING"] /\ ppid' = [ppid EXCEPT ![n] = p]
      /\ task_queue' = task_queue \cup {n} /\ next_pid' = n + 1
      /\ UNCHANGED <<cpu, current_task, wait_queue, zombie, pc>>
  BY DEF Fork, ChildState, local
<1> HIDE DEF n
<1>3. PidInv'
  <2>1. \A q \in Pids : ppid'[q] < q
    BY <1>1, <1>2 DEF TypeOK, PidInv
  <2>2. \A q \in Pids : q \in task_queue' <=> state'[q] \in Queued
    BY <1>1, <1>2 DEF TypeOK, PidInv, Queued
  <2>3. \A q \in Pids : state'[q] = "none" <=> q >= next_pid'
    <3> TAKE q \in Pids
    <3>1. state[q] = "none" <=> q >= n
      BY DEF PidInv, n
    <3>2. CASE q = n
      BY <1>1, <1>2, <3>2 DEF TypeOK
    <3>3. CASE q # n
      <4>1. state'[q] = state[q]
        BY <1>2, <3>3 DEF TypeOK
      <4>2. q >= n <=> q >= n + 1
        BY <1>1, <3>3
      <4> QED BY <1>2, <3>1, <4>1, <4>2
    <3> QED BY <3>2, <3>3
  <2>4. current_task \in task_queue
    BY DEF Fork, InUser, Running, PidInv
  <2>5. InitTask \in task_queue'
    BY <1>2 DEF PidInv
  <2> QED BY <1>2, <2>1, <2>2, <2>3, <2>4, <2>5 DEF PidInv
<1>4. ParentQueued'
  BY <1>1, <1>2 DEF TypeOK, ParentQueued
<1>5. \A q \in Pids : \A i \in DOMAIN wait_queue[q] :
         wait_queue[q][i] \in Pids /\ wait_queue[q][i] # n
  <2> TAKE q \in Pids
  <2> TAKE i \in DOMAIN wait_queue[q]
  <2>1. wait_queue[q][i] \in Pids
    BY WaitQueueType
  <2>2. state[wait_queue[q][i]] = "EXITING"
    BY DEF ZombieOwned
  <2> QED BY <1>1, <2>1, <2>2
<1>6. \A z \in Pids : state'[z] = "EXITING" => z # n /\ state[z] = "EXITING"
  BY <1>1, <1>2 DEF TypeOK
<1>7. \A z \in Pids : z # n => state'[z] = state[z] /\ ppid'[z] = ppid[z]
  BY <1>2 DEF TypeOK
<1>9. \A q \in Pids : zombie[q] # 0 => zombie[q] \in Pids /\ zombie[q] # n /\ q # n
  <2> SUFFICES ASSUME NEW q \in Pids, zombie[q] # 0
               PROVE  zombie[q] \in Pids /\ zombie[q] # n /\ q # n
    OBVIOUS
  <2> DEFINE y == zombie[q]
  <2>1. y \in Pids
    BY ZombieType
  <2>2. state[y] = "EXITING" /\ ppid[y] = q
    BY DEF ZombieOwned
  <2> HIDE DEF y
  <2>3. q < y
    BY <2>1, <2>2 DEF PidInv
  <2>4. ~(y >= n)
    BY <2>1, <2>2 DEF PidInv, n
  <2>5. y # n /\ q # n
    BY <1>1, <2>1, <2>3, <2>4
  <2> QED BY <2>1, <2>5 DEF y
<1>8. ZombieOwned'
  <2>1. \A z \in Pids : Unlinked(z)' <=> Unlinked(z)
    BY <1>2 DEF Unlinked
  <2> QED BY <1>1, <1>2, <1>5, <1>6, <1>7, <1>9, <2>1 DEF ZombieOwned
<1> QED BY <1>3, <1>4, <1>8

LEMMA UnlinkKeepsFamily ==
  ASSUME FamilyInv, TypeOK', WaitInv', NEW p \in Pids, WaitUnlink(p) PROVE FamilyInv'
<1> USE DEF FamilyInv
<1>a. wait_queue[p] # <<>> /\ p \in task_queue /\ current_task = p /\ pc[p] = "wait4"
  BY DEF WaitUnlink, WaitInv, Running, PidInv
<1> DEFINE z == wait_queue[p][1]
<1>1. /\ z \in Pids /\ state[z] = "EXITING" /\ ppid[z] = p /\ wait_queue[z] = <<>>
      /\ ~Unlinked(z) /\ 1 \in DOMAIN wait_queue[p] /\ z # p
  BY <1>a, WaitQueueType DEF ZombieOwned, PidInv, Queued
<1>2. /\ wait_queue' = [wait_queue EXCEPT ![p] = Tail(@)]
      /\ zombie' = [zombie EXCEPT ![p] = z] /\ pc' = [pc EXCEPT ![p] = "wait5"]
      /\ UNCHANGED <<cpu, current_task, task_queue, next_pid, ppid, state, switch_locked>>
  BY <1>a, WaitQueueType DEF WaitUnlink, Goto, sched
<1>3. /\ Len(wait_queue[p]) \in Nat
      /\ DOMAIN wait_queue[p] = 1..Len(wait_queue[p])
      /\ DOMAIN wait_queue'[p] = 1..(Len(wait_queue[p]) - 1)
      /\ \A i \in 1..(Len(wait_queue[p]) - 1) : wait_queue'[p][i] = wait_queue[p][i + 1]
  <2>1. wait_queue'[p] = Tail(wait_queue[p])
    BY <1>2 DEF TypeOK
  <2>2. wait_queue[p] \in Seq(Pids)
    BY WaitQueueType
  <2> QED BY <1>a, <2>1, <2>2, SeqFacts
<1>4. \A i \in DOMAIN wait_queue'[p] :
        /\ i \in DOMAIN wait_queue[p] /\ i + 1 \in DOMAIN wait_queue[p] /\ i \in Nat
        /\ wait_queue'[p][i] = wait_queue[p][i + 1] /\ i + 1 # 1
  <2>1. \A i \in 1..(Len(wait_queue[p]) - 1) :
           i \in 1..Len(wait_queue[p]) /\ i + 1 \in 1..Len(wait_queue[p]) /\ i \in Nat /\ i + 1 # 1
    BY <1>3
  <2> QED BY <1>3, <2>1
<1>5. \A q \in Pids : q # p => /\ wait_queue'[q] = wait_queue[q] /\ zombie'[q] = zombie[q]
                              /\ pc'[q] = pc[q]
  BY <1>2 DEF TypeOK
<1>6. zombie'[p] = z /\ pc'[p] = "wait5"
  BY <1>2 DEF TypeOK
<1> HIDE DEF z
<1>7. zombie[p] = 0
  BY <1>a DEF ZombieOwned
<1>8. \A y \in Pids : Unlinked(y)' <=> Unlinked(y) \/ y = z
  <2> TAKE y \in Pids
  <2>1. Unlinked(y)' => Unlinked(y) \/ y = z
    BY <1>5, <1>6 DEF Unlinked
  <2>2. Unlinked(y) => Unlinked(y)'
    BY <1>5, <1>7 DEF Unlinked
  <2>3. y = z => Unlinked(y)'
    BY <1>6 DEF Unlinked
  <2> QED BY <2>1, <2>2, <2>3
<1>9. PidInv' /\ ParentQueued'
  BY <1>2 DEF PidInv, ParentQueued
<1>10. \A q \in Pids : \A i \in DOMAIN wait_queue'[q] :
         /\ wait_queue'[q][i] \in Pids /\ wait_queue'[q][i] # z
         /\ \E k \in DOMAIN wait_queue[q] : wait_queue'[q][i] = wait_queue[q][k]
  <2> TAKE q \in Pids
  <2> TAKE i \in DOMAIN wait_queue'[q]
  <2>1. CASE q = p
    <3>1. i + 1 # 1 /\ wait_queue'[p][i] = wait_queue[p][i + 1] /\ i + 1 \in DOMAIN wait_queue[p]
      BY <1>4, <2>1
    <3>2. wait_queue[p][i + 1] \in Pids /\ wait_queue[p][i + 1] # z
      BY <1>1, <3>1, WaitQueueType DEF ZombieOwned, z
    <3> QED BY <2>1, <3>1, <3>2
  <2>2. CASE q # p
    <3>1. wait_queue'[q] = wait_queue[q] /\ wait_queue[q][i] \in Pids
      BY <1>5, <2>2, WaitQueueType
    <3>2. ppid[wait_queue[q][i]] = q
      BY <3>1 DEF ZombieOwned
    <3> QED BY <1>1, <2>2, <3>1, <3>2
  <2> QED BY <2>1, <2>2
<1>11. \A q \in Pids : \A i, j \in DOMAIN wait_queue'[q] :
         wait_queue'[q][i] = wait_queue'[q][j] => i = j
  <2> TAKE q \in Pids
  <2>1. CASE q = p
    <3> SUFFICES ASSUME NEW i \in DOMAIN wait_queue'[p], NEW j \in DOMAIN wait_queue'[p],
                        wait_queue'[p][i] = wait_queue'[p][j]
                 PROVE  i = j
      BY <2>1
    <3>1. wait_queue[p][i + 1] = wait_queue[p][j + 1] /\ i + 1 \in DOMAIN wait_queue[p]
          /\ j + 1 \in DOMAIN wait_queue[p] /\ i \in Nat /\ j \in Nat
      BY <1>4
    <3>2. i + 1 = j + 1
      BY <3>1 DEF ZombieOwned
    <3> QED BY <3>1, <3>2
  <2>2. CASE q # p
    BY <1>5, <2>2 DEF ZombieOwned
  <2> QED BY <2>1, <2>2
<1>12. \A y \in Pids : wait_queue[y] = <<>> => wait_queue'[y] = <<>>
  BY <1>a, <1>5
<1>13. \A q \in Pids : zombie'[q] # 0 =>
         /\ state'[zombie'[q]] = "EXITING" /\ ppid'[zombie'[q]] = q
         /\ wait_queue'[zombie'[q]] = <<>> /\ (pc'[q] = "wait5" \/ q \notin task_queue')
  <2> TAKE q \in Pids
  <2>1. CASE q = p
    BY <1>1, <1>2, <1>6, <1>12, <2>1
  <2>2. CASE q # p
    <3>1. zombie[q] # 0 => zombie[q] \in Pids
      BY ZombieType
    <3> QED BY <1>2, <1>5, <1>12, <2>2, <3>1 DEF ZombieOwned
  <2> QED BY <2>1, <2>2
<1>14. \A y \in Pids : state'[y] = "EXITING" =>
         \/ Unlinked(y)'
         \/ /\ ppid'[y] \in task_queue'
            /\ \E i \in DOMAIN wait_queue'[ppid'[y]] : wait_queue'[ppid'[y]][i] = y
  <2> SUFFICES ASSUME NEW y \in Pids, state[y] = "EXITING", ~Unlinked(y), y # z
               PROVE  /\ ppid[y] \in task_queue
                      /\ \E i \in DOMAIN wait_queue'[ppid[y]] : wait_queue'[ppid[y]][i] = y
    BY <1>2, <1>8
  <2>1. ppid[y] \in task_queue /\ ppid[y] \in Pids
    BY DEF ZombieOwned, TypeOK
  <2>2. PICK k \in DOMAIN wait_queue[ppid[y]] : wait_queue[ppid[y]][k] = y
    BY DEF ZombieOwned
  <2>3. CASE ppid[y] = p
    <3>1. k \in 1..Len(wait_queue[p]) /\ k # 1
      BY <1>3, <2>2, <2>3 DEF z
    <3>2. k - 1 \in DOMAIN wait_queue'[p] /\ (k - 1) + 1 = k
      BY <1>3, <3>1
    <3>3. wait_queue'[p][k - 1] = y
      BY <1>4, <2>2, <2>3, <3>2
    <3> QED BY <2>1, <2>3, <3>2, <3>3
  <2>4. CASE ppid[y] # p
    BY <1>5, <2>1, <2>2, <2>4
  <2> QED BY <2>3, <2>4
<1>15. \A q \in Pids : \A i \in DOMAIN wait_queue'[q] :
         /\ state'[wait_queue'[q][i]] = "EXITING" /\ ppid'[wait_queue'[q][i]] = q
         /\ wait_queue'[wait_queue'[q][i]] = <<>>
         /\ \A r \in Pids : zombie'[r] # wait_queue'[q][i]
  <2> TAKE q \in Pids
  <2> TAKE i \in DOMAIN wait_queue'[q]
  <2> DEFINE y == wait_queue'[q][i]
  <2>1. y \in Pids /\ y # z /\ state[y] = "EXITING" /\ ppid[y] = q /\ wait_queue[y] = <<>>
        /\ ~Unlinked(y)
    BY <1>10 DEF ZombieOwned
  <2> HIDE DEF y
  <2>2. state'[y] = "EXITING" /\ ppid'[y] = q /\ wait_queue'[y] = <<>>
    BY <1>2, <1>12, <2>1
  <2>3. \A r \in Pids : zombie'[r] # y
    BY <1>5, <1>6, <2>1 DEF Unlinked
  <2> QED BY <2>2, <2>3 DEF y
<1>16. ZombieOwned'
  BY <1>11, <1>13, <1>14, <1>15 DEF ZombieOwned, Unlinked
<1> QED BY <1>9, <1>16

LEMMA FreeKeepsFamily ==
  ASSUME FamilyInv, TypeOK', WaitInv', NEW p \in Pids, WaitFree(p) PROVE FamilyInv'
<1> USE DEF FamilyInv
<1> DEFINE z == zombie[p]
<1>1. p \in task_queue /\ current_task = p /\ pc[p] = "wait5" /\ z # 0 /\ z \in Pids
  BY DEF WaitFree, WaitInv, Running, PidInv, TypeOK
<1>2. state[z] = "EXITING" /\ ppid[z] = p /\ wait_queue[z] = <<>>
  BY <1>1 DEF ZombieOwned
<1>3. /\ state' = [state EXCEPT ![z] = "freed"] /\ zombie' = [zombie EXCEPT ![p] = 0]
      /\ pc' = [pc EXCEPT ![p] = "run"]
      /\ UNCHANGED <<cpu, current_task, task_queue, next_pid, ppid, wait_queue>>
  BY DEF WaitFree, Goto, family
<1> HIDE DEF z
<1>4. /\ state'[z] = "freed" /\ \A y \in Pids : y # z => state'[y] = state[y]
      /\ zombie'[p] = 0 /\ \A q \in Pids : q # p => zombie'[q] = zombie[q] /\ pc'[q] = pc[q]
  BY <1>1, <1>3 DEF TypeOK
<1>5. \A q \in Pids : q # p => zombie[q] # z
  BY <1>1, <1>2 DEF ZombieOwned
<1>6. \A y \in Pids : Unlinked(y)' <=> Unlinked(y) /\ y # z
  <2> TAKE y \in Pids
  <2>1. Unlinked(y)' => Unlinked(y) /\ y # z
    BY <1>4, <1>5 DEF Unlinked
  <2>2. Unlinked(y) /\ y # z => Unlinked(y)'
    BY <1>4 DEF Unlinked, z
  <2> QED BY <2>1, <2>2
<1>7. Unlinked(z)
  BY DEF Unlinked, z
<1>8. PidInv' /\ ParentQueued'
  <2>1. \A q \in Pids : (state'[q] \in Queued <=> state[q] \in Queued)
                        /\ (state'[q] = "none" <=> state[q] = "none")
    BY <1>1, <1>2, <1>4 DEF Queued
  <2>2. PidInv'
    BY <1>1, <1>3, <2>1 DEF PidInv
  <2> QED BY <1>3, <2>2 DEF ParentQueued
<1>9. \A q \in Pids : \A i \in DOMAIN wait_queue[q] :
         wait_queue[q][i] \in Pids /\ wait_queue[q][i] # z
  BY <1>7, WaitQueueType DEF ZombieOwned
<1>10. \A q \in Pids : zombie'[q] # 0 =>
         /\ state'[zombie'[q]] = "EXITING" /\ ppid'[zombie'[q]] = q
         /\ wait_queue'[zombie'[q]] = <<>> /\ (pc'[q] = "wait5" \/ q \notin task_queue')
  <2> SUFFICES ASSUME NEW q \in Pids, q # p, zombie[q] # 0
               PROVE  /\ state'[zombie[q]] = "EXITING" /\ ppid[zombie[q]] = q
                      /\ wait_queue[zombie[q]] = <<>> /\ (pc[q] = "wait5" \/ q \notin task_queue)
    BY <1>3, <1>4
  <2>1. zombie[q] \in Pids /\ zombie[q] # z
    BY <1>5, ZombieType
  <2> QED BY <1>4, <2>1 DEF ZombieOwned
<1>11. \A y \in Pids : state'[y] = "EXITING" => state[y] = "EXITING" /\ y # z
  BY <1>4
<1>13. \A q \in Pids : \A i \in DOMAIN wait_queue'[q] :
         /\ state'[wait_queue'[q][i]] = "EXITING" /\ ppid'[wait_queue'[q][i]] = q
         /\ wait_queue'[wait_queue'[q][i]] = <<>>
         /\ \A r \in Pids : zombie'[r] # wait_queue'[q][i]
  <2> SUFFICES ASSUME NEW q \in Pids, NEW i \in DOMAIN wait_queue[q]
               PROVE  /\ state'[wait_queue[q][i]] = "EXITING" /\ ppid[wait_queue[q][i]] = q
                      /\ wait_queue[wait_queue[q][i]] = <<>>
                      /\ \A r \in Pids : zombie'[r] # wait_queue[q][i]
    BY <1>3
  <2> DEFINE y == wait_queue[q][i]
  <2>1. y \in Pids /\ y # z /\ state[y] = "EXITING" /\ ppid[y] = q /\ wait_queue[y] = <<>>
        /\ ~Unlinked(y)
    BY <1>9 DEF ZombieOwned
  <2> HIDE DEF y
  <2>2. state'[y] = "EXITING"
    BY <1>4, <2>1
  <2>3. \A r \in Pids : zombie'[r] # y
    BY <1>4, <2>1 DEF Unlinked
  <2> QED BY <2>1, <2>2, <2>3 DEF y
<1>14. \A y \in Pids : state'[y] = "EXITING" =>
         \/ Unlinked(y)'
         \/ /\ ppid'[y] \in task_queue'
            /\ \E i \in DOMAIN wait_queue'[ppid'[y]] : wait_queue'[ppid'[y]][i] = y
  BY <1>3, <1>6, <1>11 DEF ZombieOwned
<1>15. \A q \in Pids : \A i, j \in DOMAIN wait_queue'[q] :
         wait_queue'[q][i] = wait_queue'[q][j] => i = j
  BY <1>3 DEF ZombieOwned
<1>12. ZombieOwned'
  BY <1>10, <1>13, <1>14, <1>15 DEF ZombieOwned, Unlinked
<1> QED BY <1>8, <1>12

LEMMA ExitKeepsFamily ==
  ASSUME FamilyInv, TypeOK', WaitInv', NEW p \in task_queue,
         NEW W \in SUBSET {t \in task_queue : state[t] = "SLEEPING"}, TaskExit(p, W)
  PROVE  FamilyInv'
<1> USE DEF FamilyInv
<1> DEFINE parent == ppid[p]
           Woken == Sleepers(WaitAddr(parent)) \ (W \cup {p})
<1>1. p \in Pids /\ p # InitTask /\ parent \in task_queue /\ parent \in Pids /\ parent # p
  <2>1. p \in Pids
    BY DEF TypeOK
  <2>2. p # InitTask
    BY DEF TaskExit
  <2>3. parent \in task_queue
    BY <2>2 DEF ParentQueued
  <2>4. parent \in Pids
    BY <2>3 DEF TypeOK
  <2>5. parent < p
    BY <2>1 DEF PidInv
  <2> QED BY <2>1, <2>2, <2>3, <2>4, <2>5
<1>2. /\ ppid' = Reparent(p)
      /\ task_queue' = task_queue \ {p}
      /\ wait_queue' = [t \in Pids |-> IF t = p THEN <<>>
                          ELSE IF t = parent THEN Append(wait_queue[t], p)
                          ELSE wait_queue[t]]
      /\ state' = [t \in Pids |-> IF t = p THEN "EXITING"
                          ELSE IF t \in Elems(wait_queue[p]) THEN "freed"
                          ELSE IF t \in Woken THEN "RUNNING"
                          ELSE IF t \in W THEN "AWAKEN"
                          ELSE state[t]]
      /\ cpu' = "switch" /\ switch_locked' = FALSE
      /\ next_pid' = next_pid /\ zombie' = zombie /\ pc' = [pc EXCEPT ![p] = "run"]
  BY Zenon DEF TaskExit, ExitParent, FreedZombies, Goto
<1>3. \A t \in Woken \cup W : t \in task_queue /\ state[t] = "SLEEPING"
  BY DEF Sleepers
<1> HIDE DEF Woken, parent
<1>4. \A t \in Pids : t \in Elems(wait_queue[p])
                       <=> state[t] = "EXITING" /\ ppid[t] = p /\ ~Unlinked(t)
  <2> TAKE t \in Pids
  <2>1. ASSUME t \in Elems(wait_queue[p])
        PROVE  state[t] = "EXITING" /\ ppid[t] = p /\ ~Unlinked(t)
    BY <1>1, <2>1 DEF Elems, ZombieOwned
  <2>2. ASSUME state[t] = "EXITING", ppid[t] = p, ~Unlinked(t) PROVE t \in Elems(wait_queue[p])
    BY <2>2 DEF Elems, ZombieOwned
  <2> QED BY <2>1, <2>2
<1>5. \A t \in Pids : state[t] = "EXITING" => t \notin task_queue
  BY DEF PidInv, Queued
<1>6. \A t \in Pids : state'[t] = "EXITING" <=>
          t = p \/ (state[t] = "EXITING" /\ (Unlinked(t) \/ ppid[t] # p))
  BY <1>2, <1>3, <1>4, <1>5
<1>7. \A t \in Pids : ppid'[t] = IF t \in task_queue /\ ppid[t] = p THEN 1 ELSE ppid[t]
  BY <1>2 DEF Reparent
<1>8. PidInv'
  <2>1. InitTask \in task_queue'
    BY <1>1, <1>2 DEF PidInv
  <2>2. \A t \in Pids : t \in task_queue' <=> state'[t] \in Queued
    <3> TAKE t \in Pids
    <3>1. CASE t = p
      BY <1>2, <3>1 DEF Queued
    <3>2. CASE t # p /\ t \in Elems(wait_queue[p])
      BY <1>2, <1>4, <1>5, <3>2 DEF Queued
    <3>3. CASE t # p /\ t \notin Elems(wait_queue[p]) /\ t \in Woken \cup W
      BY <1>2, <1>3, <3>3 DEF Queued
    <3>4. CASE t # p /\ t \notin Elems(wait_queue[p]) /\ t \notin Woken \cup W
      BY <1>2, <3>4 DEF PidInv
    <3> QED BY <3>1, <3>2, <3>3, <3>4
  <2>3. \A t \in Pids : state'[t] = "none" <=> state[t] = "none"
    BY <1>1, <1>2, <1>3, <1>4 DEF PidInv, Queued
  <2>4. \A t \in Pids : ppid'[t] < t
    <3> TAKE t \in Pids
    <3>1. CASE t \in task_queue /\ ppid[t] = p
      <4>1. p < t /\ p > 1
        BY <1>1, <3>1 DEF PidInv
      <4> QED BY <1>7, <3>1, <4>1, <1>1
    <3>2. CASE ~(t \in task_queue /\ ppid[t] = p)
      BY <1>7, <3>2 DEF PidInv
    <3> QED BY <3>1, <3>2
  <2> QED BY <1>2, <2>1, <2>2, <2>3, <2>4 DEF PidInv
<1>9. ParentQueued'
  <2> SUFFICES ASSUME NEW t \in task_queue', t # InitTask PROVE ppid'[t] \in task_queue'
    BY DEF ParentQueued
  <2>1. t \in task_queue /\ t \in Pids /\ ppid[t] \in task_queue
    BY <1>2 DEF ParentQueued, TypeOK
  <2>2. CASE ppid[t] = p
    BY <1>1, <1>2, <1>7, <2>1, <2>2 DEF PidInv
  <2>3. CASE ppid[t] # p
    BY <1>2, <1>7, <2>1, <2>3
  <2> QED BY <2>2, <2>3
<1>10. \A t \in Pids : state[t] = "EXITING" \/ t = p => ppid'[t] = ppid[t]
  BY <1>1, <1>5, <1>7 DEF parent
<1>11. \A q \in Pids \ {p, parent} : wait_queue'[q] = wait_queue[q]
  BY <1>2
<1>12. /\ wait_queue'[p] = <<>>
       /\ wait_queue'[parent] = Append(wait_queue[parent], p)
  BY <1>1, <1>2
<1> DEFINE L == Len(wait_queue[parent])
<1>13. /\ L \in Nat
       /\ DOMAIN wait_queue[parent] = 1..L
       /\ DOMAIN wait_queue'[parent] = 1..(L + 1)
       /\ \A i \in 1..L : wait_queue'[parent][i] = wait_queue[parent][i]
       /\ wait_queue'[parent][L + 1] = p
  <2>1. wait_queue[parent] \in Seq(Pids) /\ L \in Nat /\ DOMAIN wait_queue[parent] = 1..L
    BY <1>1, WaitQueueType
  <2> QED BY <1>1, <1>12, <2>1, AppendFacts
<1> HIDE DEF L
<1>14. \A q \in Pids : \A i \in DOMAIN wait_queue'[q] :
          \/ q = parent /\ i = L + 1 /\ wait_queue'[q][i] = p
          \/ /\ q # p /\ i \in DOMAIN wait_queue[q] /\ wait_queue'[q][i] = wait_queue[q][i]
             /\ wait_queue[q][i] \in Pids /\ (q = parent => i # L + 1)
  <2> TAKE q \in Pids
  <2> TAKE i \in DOMAIN wait_queue'[q]
  <2>1. CASE q = p
    BY <1>12, <2>1
  <2>2. CASE q = parent
    <3>1. i = L + 1 \/ (i \in 1..L /\ i # L + 1)
      BY <1>13, <2>2
    <3>2. CASE i \in 1..L /\ i # L + 1
      BY <1>1, <1>13, <2>2, <3>2, WaitQueueType
    <3> QED BY <1>13, <2>2, <3>1, <3>2
  <2>3. CASE q # p /\ q # parent
    BY <1>11, <2>3, WaitQueueType
  <2> QED BY <2>1, <2>2, <2>3
<1>15. \A q \in Pids : \A i, j \in DOMAIN wait_queue'[q] :
          wait_queue'[q][i] = wait_queue'[q][j] => i = j
  <2> TAKE q \in Pids
  <2> TAKE i, j \in DOMAIN wait_queue'[q]
  <2> HAVE wait_queue'[q][i] = wait_queue'[q][j]
  <2>1. \A k \in DOMAIN wait_queue[q] : wait_queue[q][k] # p
    BY <1>1, <1>5 DEF ZombieOwned
  <2> QED BY <1>14, <2>1 DEF ZombieOwned
<1>19. \A z \in Pids : Unlinked(z)' <=> Unlinked(z)
  BY <1>2 DEF Unlinked
<1>20. ~Unlinked(p)
  BY <1>1, <1>5 DEF Unlinked, ZombieOwned
<1>16. \A q \in Pids : \A i \in DOMAIN wait_queue'[q] :
          /\ state'[wait_queue'[q][i]] = "EXITING"
          /\ ppid'[wait_queue'[q][i]] = q
          /\ wait_queue'[wait_queue'[q][i]] = <<>>
          /\ \A r \in Pids : zombie'[r] # wait_queue'[q][i]
  <2> TAKE q \in Pids
  <2> TAKE i \in DOMAIN wait_queue'[q]
  <2> DEFINE z == wait_queue'[q][i]
  <2>1. CASE q = parent /\ z = p
    <3>1. \A r \in Pids : zombie'[r] # p
      BY <1>2, <1>20 DEF Unlinked
    <3> QED BY <1>1, <1>6, <1>10, <1>12, <2>1, <3>1 DEF parent
  <2>2. CASE q # p /\ i \in DOMAIN wait_queue[q] /\ z = wait_queue[q][i] /\ z \in Pids
    <3>1. state[z] = "EXITING" /\ ppid[z] = q /\ wait_queue[z] = <<>> /\ ~Unlinked(z)
      BY <2>2 DEF ZombieOwned
    <3> HIDE DEF z
    <3>2. z # p /\ z # parent
      BY <1>1, <1>5, <2>2, <3>1
    <3>3. ppid'[z] = q /\ wait_queue'[z] = <<>>
      BY <1>10, <1>11, <2>2, <3>1, <3>2
    <3>4. q # p /\ state'[z] = "EXITING"
      BY <1>6, <2>2, <3>1
    <3>5. \A r \in Pids : zombie'[r] # z
      BY <1>2, <3>1 DEF Unlinked
    <3> QED BY <3>3, <3>4, <3>5 DEF z
  <2> QED BY <1>14, <2>1, <2>2
<1>21. \A q \in Pids : zombie'[q] # 0 =>
          /\ state'[zombie'[q]] = "EXITING"
          /\ ppid'[zombie'[q]] = q
          /\ wait_queue'[zombie'[q]] = <<>>
          /\ pc'[q] = "wait5" \/ q \notin task_queue'
  <2> SUFFICES ASSUME NEW q \in Pids, NEW z \in Pids, z = zombie[q], z # 0
               PROVE  /\ state'[z] = "EXITING" /\ ppid'[z] = q /\ wait_queue'[z] = <<>>
                      /\ pc'[q] = "wait5" \/ q \notin task_queue'
    <3>1. \A q \in Pids : zombie[q] # 0 => zombie[q] \in Pids
      BY ZombieType
    <3> QED BY <1>2, <3>1
  <2>1. /\ state[z] = "EXITING" /\ ppid[z] = q /\ wait_queue[z] = <<>>
        /\ pc[q] = "wait5" \/ q \notin task_queue
    BY DEF ZombieOwned
  <2>2. Unlinked(z)
    BY DEF Unlinked
  <2>3. state'[z] = "EXITING" /\ ppid'[z] = q
    BY <1>6, <1>10, <2>1, <2>2
  <2>4. z # p /\ z # parent
    BY <1>1, <1>5, <2>1
  <2>5. wait_queue'[z] = <<>>
    BY <1>11, <2>1, <2>4
  <2>6. pc'[q] = "wait5" \/ q \notin task_queue'
    BY <1>2, <2>1 DEF TypeOK
  <2> QED BY <2>3, <2>5, <2>6
<1>17. \A z \in Pids : state'[z] = "EXITING" =>
          \/ Unlinked(z)'
          \/ /\ ppid'[z] \in task_queue'
             /\ \E i \in DOMAIN wait_queue'[ppid'[z]] : wait_queue'[ppid'[z]][i] = z
  <2> SUFFICES ASSUME NEW z \in Pids, state'[z] = "EXITING", ~Unlinked(z)
               PROVE  /\ ppid'[z] \in task_queue'
                      /\ \E i \in DOMAIN wait_queue'[ppid'[z]] : wait_queue'[ppid'[z]][i] = z
    BY <1>19
  <2>1. CASE z = p
    <3>1. L + 1 \in DOMAIN wait_queue'[parent] /\ wait_queue'[parent][L + 1] = p
      BY <1>13
    <3> QED BY <1>1, <1>2, <1>10, <2>1, <3>1 DEF parent
  <2>2. CASE z # p
    <3>1. state[z] = "EXITING" /\ ppid[z] # p
      BY <1>6, <2>2
    <3>2. PICK i \in DOMAIN wait_queue[ppid[z]] : wait_queue[ppid[z]][i] = z
      BY <3>1 DEF ZombieOwned
    <3>3. ppid[z] \in task_queue /\ ppid[z] \in Pids
      BY <3>1 DEF ZombieOwned, TypeOK
    <3>4. i \in DOMAIN wait_queue'[ppid[z]] /\ wait_queue'[ppid[z]][i] = z
      <4>1. CASE ppid[z] = parent
        <5>1. i \in 1..L /\ i \in 1..(L + 1)
          BY <1>13, <3>2, <4>1
        <5> QED BY <1>13, <3>2, <4>1, <5>1
      <4>2. CASE ppid[z] # parent
        BY <1>11, <3>1, <3>2, <3>3, <4>2
      <4> QED BY <4>1, <4>2
    <3> QED BY <1>2, <1>10, <3>1, <3>3, <3>4
  <2> QED BY <2>1, <2>2
<1>18. ZombieOwned'
  BY <1>15, <1>16, <1>17, <1>21 DEF ZombieOwned, Unlinked
<1> QED BY <1>8, <1>9, <1>18

LEMMA InitFamily == Init => FamilyInv
<1> SUFFICES ASSUME Init PROVE FamilyInv
  OBVIOUS
<1> USE DEF Init
<1>1. PidInv
  BY DEF PidInv, Queued
<1>2. ParentQueued
  BY DEF ParentQueued
<1>3. ZombieOwned /\ WaitInv
  BY DEF ZombieOwned, WaitInv
<1> QED BY <1>1, <1>2, <1>3, InitTypeOK DEF FamilyInv

LEMMA FamilyStep == FamilyInv /\ [Next]_vars => FamilyInv'
<1> SUFFICES ASSUME FamilyInv, [Next]_vars PROVE FamilyInv'
  OBVIOUS
<1>0. TypeOK /\ TypeOK' /\ WaitInv'
  BY TypeOKStep, WaitStep DEF FamilyInv
<1>c. \A p \in Pids, l \in Locations :
         pc[p] # "wait5" /\ l # "wait5" /\ pc' = [pc EXCEPT ![p] = l]
           => \A t \in Pids : pc'[t] = "wait5" <=> pc[t] = "wait5"
  BY <1>0 DEF TypeOK
<1>a. PidInv
  BY DEF FamilyInv
<1>b. \A p \in Pids : Running(p) => p \in task_queue /\ current_task = p
  BY <1>a DEF Running, PidInv
<1>1. CASE Timer
  <2>1. current_task \in task_queue
    BY <1>1, <1>a DEF Timer, PidInv
  <2> QED BY <1>0, <1>1, <2>1, NeutralStep DEF Timer, family, local
<1>2. CASE PickNext
  <2>1. CASE switch_locked /\ UNCHANGED <<current_task, state, armed>>
    <3>1. current_task' \in task_queue
      BY <1>a, <2>1 DEF PidInv
    <3> QED BY <1>0, <1>2, <2>1, <3>1, NeutralStep DEF PickNext, family, local
  <2>2. ASSUME NEW n \in task_queue, current_task' = n,
               state' = [state EXCEPT ![n] = IF TimedOut(n) THEN "RUNNING" ELSE @]
        PROVE  FamilyInv'
    <3>1. \A t \in Pids : state'[t] = state[t] \/ (state[t] \in Queued /\ state'[t] \in Queued)
      BY <1>0, <2>2 DEF TimedOut, Queued, TypeOK
    <3> QED BY <1>0, <1>2, <2>2, <3>1, NeutralStep DEF PickNext, family, local
  <2> QED BY <1>2, <2>1, <2>2 DEF PickNext
<1>3. CASE ProcessSignals
  <2>1. \A t \in Pids : state'[t] = state[t] \/ (state[t] \in Queued /\ state'[t] \in Queued)
    BY <1>3 DEF ProcessSignals, HandleAll, Signalled, Queued
  <2>2. current_task' \in task_queue
    BY <1>3, <1>a DEF ProcessSignals, HandleAll, PidInv
  <2> QED BY <1>0, <1>3, <2>1, <2>2, NeutralStep DEF ProcessSignals, HandleAll, family, local
<1>4. CASE SignalExit
  <2>1. current_task \in task_queue
    BY <1>4, <1>a DEF SignalExit, PidInv
  <2>2. \A W \in SUBSET Signalled(current_task) :
           W \in SUBSET {t \in task_queue : state[t] = "SLEEPING"}
    BY DEF Signalled
  <2> QED BY <1>0, <1>4, <2>1, <2>2, ExitKeepsFamily DEF SignalExit
<1>5. CASE Halt
  <2>1. current_task' \in task_queue
    BY <1>5, <1>a DEF Halt, PidInv
  <2> QED BY <1>0, <1>5, <2>1, NeutralStep DEF Halt, family, local
<1>6. ASSUME NEW c \in Chans, Event(c) PROVE FamilyInv'
  <2>1. \A t \in Pids : state'[t] = state[t] \/ (state[t] \in Queued /\ state'[t] \in Queued)
    BY <1>6 DEF Event, Wakeup, Sleepers, Queued
  <2>2. current_task' \in task_queue
    BY <1>6, <1>a DEF Event, PidInv
  <2> QED BY <1>0, <1>6, <2>1, <2>2, NeutralStep DEF Event, family, local
<1>7. ASSUME NEW p \in Pids, KernelStep(p) PROVE FamilyInv'
  <2>1. CASE SleepAddr(p)
    BY <1>0, <1>b, <2>1, <1>c, NeutralStep DEF SleepAddr, family, Goto, Locations
  <2>2. CASE SleepSwitch(p)
    BY <1>0, <1>b, <2>2, <1>c, NeutralStep DEF SleepSwitch, family, Goto, Locations
  <2>3. CASE WaitNoChild(p)
    BY <1>0, <1>b, <2>3, <1>c, NeutralStep DEF WaitNoChild, family, Goto, Locations
  <2>4. CASE WaitScan(p)
    BY <1>0, <1>b, <2>4, <1>c, NeutralStep DEF WaitScan, family, Goto, Locations
  <2>5. CASE WaitSleep(p)
    <3>1. p \in task_queue /\ current_task' \in task_queue
      BY <1>b, <2>5 DEF WaitSleep
    <3>2. \A t \in Pids : state'[t] = state[t] \/ (state[t] \in Queued /\ state'[t] \in Queued)
      BY <1>0, <1>a, <3>1, <2>5 DEF WaitSleep, SleepBegin, Queued, TypeOK, PidInv
    <3> QED BY <1>0, <2>5, <3>1, <3>2, <1>c, NeutralStep DEF WaitSleep, SleepBegin, family, Goto, Locations
  <2>6. CASE WaitLock(p)
    BY <1>0, <1>b, <2>6, <1>c, NeutralStep DEF WaitLock, family, Goto, Locations
  <2>8. CASE WaitUnlink(p)
    BY <1>0, <2>8, UnlinkKeepsFamily
  <2>9. CASE WaitFree(p)
    BY <1>0, <2>9, FreeKeepsFamily
  <2>7. CASE KillAdd(p)
    BY <1>0, <1>b, <2>7, <1>c, NeutralStep DEF KillAdd, family, sched, Goto, Locations
  <2> QED BY <1>7, <2>1, <2>2, <2>3, <2>4, <2>5, <2>6, <2>7, <2>8, <2>9 DEF KernelStep
<1>8. ASSUME NEW p \in Pids, Syscall(p) PROVE FamilyInv'
  <2>1. CASE Fork(p)
    BY <1>0, <2>1, ForkKeepsFamily
  <2>2. CASE Exit(p)
    BY <1>0, <1>b, <2>2, ExitKeepsFamily DEF Exit, InUser
  <2>3. CASE Wait(p)
    BY <1>0, <1>b, <2>3, <1>c, NeutralStep DEF Wait, InUser, family, sched, Goto, Locations
  <2>4. CASE Exec(p)
    BY <1>0, <1>b, <2>4, NeutralStep DEF Exec, InUser, family, sched, local
  <2>5. ASSUME NEW c \in Chans, SleepOn(p, c) PROVE FamilyInv'
    <3>1. p \in task_queue /\ current_task' \in task_queue
      BY <1>b, <2>5 DEF SleepOn, InUser
    <3>2. \A t \in Pids : state'[t] = state[t] \/ (state[t] \in Queued /\ state'[t] \in Queued)
      BY <1>0, <1>a, <3>1, <2>5 DEF SleepOn, SleepBegin, Queued, TypeOK, PidInv
    <3> QED BY <1>0, <2>5, <3>1, <3>2, <1>c, NeutralStep DEF SleepOn, SleepBegin, InUser, family, Goto, Locations
  <2>6. ASSUME NEW s \in Sigs, Signal(p, s) PROVE FamilyInv'
    BY <1>0, <1>b, <2>6, NeutralStep DEF Signal, InUser, family, sched, local
  <2>7. ASSUME NEW t \in Pids, NEW s \in Sigs, Kill(p, t, s) PROVE FamilyInv'
    BY <1>0, <1>b, <2>7, <1>c, NeutralStep DEF Kill, InUser, family, sched, Goto, Locations
  <2> QED BY <1>8, <2>1, <2>2, <2>3, <2>4, <2>5, <2>6, <2>7 DEF Syscall
<1>9. CASE UNCHANGED vars
  BY <1>0, <1>9, <1>a, NeutralStep DEF vars, family, sched, local, PidInv
<1> QED
  BY <1>1, <1>2, <1>3, <1>4, <1>5, <1>6, <1>7, <1>8, <1>9 DEF Next

(* Whatever the order in which parents and children fork, exit, are killed and
   are waited for, the scan of task_exit finds the parent of the exiting task:
   its local variable parent is never used uninitialised.                   *)
THEOREM ParentAlwaysQueued == Spec => []ParentQueued
<1>1. FamilyInv => ParentQueued
  BY DEF FamilyInv
<1> QED BY <1>1, InitFamily, FamilyStep, PTL DEF Spec

(* Every exited task is on its parent's wait queue, once, or has been taken from
   it by the parent's task_wait, and satisfies the assertions of task_free.
   It stays unlinked for ever only if that parent is terminated between list_del
   and task_free.                                                           *)
THEOREM ZombiesAlwaysOwned == Spec => []ZombieOwned
<1>1. FamilyInv => ZombieOwned
  BY DEF FamilyInv
<1> QED BY <1>1, InitFamily, FamilyStep, PTL DEF Spec

(* A zombie is freed by its parent and by nobody else.                      *)
THEOREM ZombiesFreedByParent == Spec => FreedByParent
<1> DEFINE A == \A z \in Pids : state[z] = "EXITING" /\ state'[z] # "EXITING"
                    => state'[z] = "freed" /\ current_task = ppid[z]
<1>1. FamilyInv /\ [Next]_vars => [A]_vars
  <2> SUFFICES ASSUME FamilyInv, Next, NEW z \in Pids,
                      state[z] = "EXITING", state'[z] # "EXITING"
               PROVE  state'[z] = "freed" /\ current_task = ppid[z]
    OBVIOUS
  <2>0. z \notin task_queue /\ TypeOK
    BY DEF FamilyInv, PidInv, Queued
  <2>1. CASE \E p \in Pids : WaitFree(p)
    <3>1. PICK p \in Pids : WaitFree(p)
      BY <2>1
    <3>2. z = zombie[p] /\ state'[z] = "freed"
      BY <2>0, <3>1 DEF WaitFree, TypeOK
    <3>3. ppid[z] = p
      BY <3>2 DEF FamilyInv, ZombieOwned
    <3> QED BY <3>1, <3>2, <3>3 DEF WaitFree, Running
  <2>2. ASSUME NEW p \in Pids, p = current_task, NEW W \in SUBSET task_queue, TaskExit(p, W)
        PROVE  state'[z] = "freed" /\ current_task = ppid[z]
    <3>1. z \in Elems(wait_queue[p]) /\ state'[z] = "freed"
      BY <2>0, <2>2 DEF TaskExit, FreedZombies, Sleepers
    <3> QED BY <2>2, <3>1 DEF Elems, FamilyInv, ZombieOwned
  <2>3. CASE SignalExit
    BY <2>0, <2>2, <2>3 DEF SignalExit, Signalled, TypeOK
  <2>4. CASE \E p \in Pids : Exit(p)
    BY <2>2, <2>4 DEF Exit, InUser, Running
  <2>5. CASE \E p \in Pids : Fork(p)
    BY <2>0, <2>5 DEF Fork, FamilyInv, PidInv, TypeOK
  <2>6. CASE Timer \/ Halt
    BY <2>6 DEF Timer, Halt
  <2>7. CASE PickNext
    BY <2>0, <2>7 DEF PickNext, TypeOK
  <2>8. CASE ProcessSignals
    BY <2>0, <2>8 DEF ProcessSignals, HandleAll, Signalled
  <2>9. CASE \E c \in Chans : Event(c)
    BY <2>0, <2>9 DEF Event, Wakeup, Sleepers
  <2>10. ASSUME NEW p \in Pids,
                SleepAddr(p) \/ SleepSwitch(p) \/ WaitNoChild(p) \/ WaitScan(p) \/ KillAdd(p)
                  \/ WaitLock(p) \/ WaitUnlink(p)
         PROVE  FALSE
    BY <2>10 DEF SleepAddr, SleepSwitch, WaitNoChild, WaitScan, WaitLock, WaitUnlink, KillAdd
  <2>11. ASSUME NEW p \in Pids, WaitSleep(p) \/ \E c \in Chans : SleepOn(p, c)
         PROVE  FALSE
    <3>1. p \in task_queue /\ state' = [state EXCEPT ![p] = "SLEEPING"]
      BY <2>11 DEF WaitSleep, SleepOn, SleepBegin, InUser, Running, FamilyInv, PidInv
    <3> QED BY <2>0, <3>1 DEF TypeOK
  <2>12. ASSUME NEW p \in Pids,
                Wait(p) \/ Exec(p) \/ (\E s \in Sigs : Signal(p, s))
                  \/ \E t \in Pids, s \in Sigs : Kill(p, t, s)
         PROVE  FALSE
    BY <2>12 DEF Wait, Exec, Signal, Kill
  <2> QED
    BY <2>1, <2>3, <2>4, <2>5, <2>6, <2>7, <2>8, <2>9, <2>10, <2>11, <2>12
       DEF Next, KernelStep, Syscall
<1> QED BY <1>1, InitFamily, FamilyStep, PTL DEF Spec, FreedByParent

-----------------------------------------------------------------------------
(* The scheduler lock and the idle task.  Both are lost to a signal sent to
   init or idle, so what has to be carried along is that only the targets of
   kill() ever have a signal, queued or on its way.                         *)
SignalInv ==
    /\ \A t \in Pids : Pending(t) => t \in KillTargets
    /\ \A p \in Pids : sig[p] # NoSig => sig[p] \in KillTargets \X Sigs

LEMMA InitSignals == Init => SignalInv
BY DEF Init, SignalInv, Pending

(* AddSig makes nobody pending but its target.                              *)
LEMMA AddSigFacts ==
  ASSUME TypeOK, NEW t \in Pids, NEW s \in Sigs, AddSig(t, s)
  PROVE  \A q \in Pids : Pending(q)' => q = t \/ Pending(q)
BY DEF AddSig, Pending, TypeOK

LEMMA SignalStep == TypeOK /\ SignalInv /\ [Next]_vars => SignalInv'
<1> SUFFICES ASSUME TypeOK, SignalInv, [Next]_vars PROVE SignalInv'
  OBVIOUS
<1> USE DEF SignalInv
<1>a. ASSUME UNCHANGED <<sigs_queue, sig>> PROVE SignalInv'
  BY <1>a DEF Pending
<1>1. CASE Timer \/ PickNext \/ Halt
  BY <1>1, <1>a DEF Timer, PickNext, Halt, signals, local
<1>2. CASE ProcessSignals
  BY <1>2 DEF ProcessSignals, HandleAll, Pending, TypeOK, local
<1>3. ASSUME NEW p \in Pids, NEW W, TaskExit(p, W) PROVE SignalInv'
  <2>1. sigs_queue' = [sigs_queue EXCEPT ![p] = <<>>] /\ sig' = [sig EXCEPT ![p] = NoSig]
    BY <1>3 DEF TaskExit
  <2> QED BY <2>1 DEF Pending, TypeOK
<1>4. CASE SignalExit
  BY <1>4, <1>3 DEF SignalExit, TypeOK
<1>5. CASE \E c \in Chans : Event(c)
  BY <1>5, <1>a DEF Event, signals, local
<1>6. ASSUME NEW p \in Pids, KernelStep(p) PROVE SignalInv'
  <2>1. CASE KillAdd(p)
    <3>1. CASE sig[p] = NoSig
      <4>1. sig[p][1] \notin Pids
        BY <3>1 DEF NoSig
      <4>2. sigs_queue' = sigs_queue /\ sig' = [sig EXCEPT ![p] = NoSig]
        BY <2>1, <4>1 DEF KillAdd, AddSig, TypeOK
      <4> QED BY <4>2 DEF Pending, TypeOK
    <3>2. CASE sig[p] # NoSig
      <4>1. sig[p][1] \in KillTargets /\ sig[p][2] \in Sigs
        BY <3>2
      <4>2. \A q \in Pids : Pending(q)' => q \in KillTargets
        BY <2>1, <4>1, AddSigFacts DEF KillAdd
      <4> QED BY <2>1, <4>2 DEF KillAdd, TypeOK
    <3> QED BY <3>1, <3>2
  <2> QED BY <1>6, <2>1, <1>a DEF KernelStep, SleepAddr, SleepSwitch, WaitNoChild,
                                  WaitScan, WaitSleep, WaitLock, WaitUnlink, WaitFree, signals
<1>7. ASSUME NEW p \in Pids, Syscall(p) PROVE SignalInv'
  <2>1. CASE Exit(p)
    BY <2>1, <1>3 DEF Exit
  <2>2. ASSUME NEW t \in Pids, NEW s \in Sigs, Kill(p, t, s) PROVE SignalInv'
    <3>1. t \in KillTargets
      BY <2>2 DEF Kill
    <3>2. CASE KillWindow /\ sig' = [sig EXCEPT ![p] = <<t, s>>] /\ UNCHANGED sigs_queue
      BY <3>1, <3>2 DEF Pending, TypeOK
    <3>3. CASE AddSig(t, s) /\ UNCHANGED sig
      <4>1. \A q \in Pids : Pending(q)' => q \in KillTargets
        BY <3>1, <3>3, AddSigFacts
      <4> QED BY <3>3, <4>1
    <3> QED BY <2>2, <3>2, <3>3 DEF Kill
  <2>3. CASE Fork(p) \/ Wait(p) \/ Exec(p) \/ (\E c \in Chans : SleepOn(p, c))
             \/ \E s \in Sigs : Signal(p, s)
    BY <2>3, <1>a DEF Fork, Wait, Exec, SleepOn, Signal, signals, local
  <2> QED BY <1>7, <2>1, <2>2, <2>3 DEF Syscall
<1>8. CASE UNCHANGED vars
  BY <1>8, <1>a DEF vars, signals, local
<1> QED BY <1>1, <1>2, <1>4, <1>5, <1>6, <1>7, <1>8 DEF Next

LEMMA LockStep ==
  ASSUME InitTask \notin KillTargets
  PROVE  TypeOK /\ SignalInv /\ LockHeldByCurrent /\ [Next]_vars => LockHeldByCurrent'
<1> SUFFICES ASSUME TypeOK, SignalInv, LockHeldByCurrent, [Next]_vars
             PROVE  LockHeldByCurrent'
  OBVIOUS
<1> USE DEF LockHeldByCurrent
<1>1. CASE Timer \/ PickNext \/ Halt
  BY <1>1 DEF Timer, PickNext, Halt, local
<1>2. CASE ProcessSignals
  <2>1. ~Fatal(current_task)
    <3>1. CASE current_task = InitTask
      <4>1. sigs_queue[InitTask] = <<>>
        BY DEF SignalInv, Pending
      <4> QED BY <3>1, <4>1 DEF Fatal, Elems
    <3> QED BY <3>1, <1>2 DEF ProcessSignals, HandleAll
  <2> QED BY <1>2, <2>1 DEF ProcessSignals, HandleAll, local
<1>3. CASE SignalExit
  BY <1>3 DEF SignalExit, TaskExit
<1>4. CASE \E c \in Chans : Event(c)
  BY <1>4 DEF Event, Wakeup
<1>5. ASSUME NEW p \in Pids, KernelStep(p) PROVE LockHeldByCurrent'
  <2>1. CASE SleepAddr(p) \/ WaitNoChild(p) \/ WaitFree(p)
    BY <2>1 DEF SleepAddr, WaitNoChild, WaitFree
  <2>5. CASE WaitLock(p)
    BY <2>5 DEF WaitLock, Running, Goto, TypeOK
  <2>6. CASE WaitUnlink(p)
    BY <2>6 DEF WaitUnlink, Running, Goto, TypeOK, sched
  <2>2. CASE SleepSwitch(p) \/ KillAdd(p)
    BY <2>2 DEF SleepSwitch, KillAdd, Running, sched
  <2>3. CASE WaitScan(p)
    BY <2>3 DEF WaitScan, Running, Goto, TypeOK
  <2>4. CASE WaitSleep(p)
    BY <2>4 DEF WaitSleep, SleepBegin, Running, Goto, TypeOK
  <2> QED BY <1>5, <2>1, <2>2, <2>3, <2>4, <2>5, <2>6 DEF KernelStep
<1>6. ASSUME NEW p \in Pids, Syscall(p) PROVE LockHeldByCurrent'
  <2>1. CASE Fork(p) \/ Exit(p)
    BY <2>1 DEF Fork, Exit, TaskExit
  <2>2. ASSUME NEW c \in Chans, SleepOn(p, c) PROVE LockHeldByCurrent'
    BY <2>2 DEF SleepOn, SleepBegin, InUser, Running, Goto, TypeOK
  <2>3. CASE Wait(p) \/ Exec(p) \/ (\E s \in Sigs : Signal(p, s))
             \/ \E t \in Pids, s \in Sigs : Kill(p, t, s)
    <3>1. current_task = p /\ pc[p] = "run" /\ UNCHANGED switch_locked
      BY <2>3 DEF Wait, Exec, Signal, Kill, InUser, Running, sched
    <3> QED BY <3>1
  <2> QED BY <1>6, <2>1, <2>2, <2>3 DEF Syscall
<1>7. CASE UNCHANGED vars
  BY <1>7 DEF vars, sched, local
<1> QED BY <1>1, <1>2, <1>3, <1>4, <1>5, <1>6, <1>7 DEF Next

(* Unless somebody signals init, the scheduler is never left locked: whoever
   sleeps, wakes up, is killed or exits, switch_locked is set only while the
   running task is between the two halves of sleep_on, on its way there, or
   reaping a child.                                                         *)
THEOREM LockAlwaysHeldByCurrent ==
  ASSUME InitTask \notin KillTargets
  PROVE  Spec => []LockHeldByCurrent
<1>1. Init => LockHeldByCurrent
  BY DEF Init, LockHeldByCurrent
<1>2. TypeOK /\ SignalInv /\ LockHeldByCurrent /\ [Next]_vars => LockHeldByCurrent'
  BY LockStep
<1>3. Init => WaitInv
  BY DEF Init, WaitInv
<1> QED BY <1>1, <1>2, <1>3, InitTypeOK, TypeOKStep, WaitStep, InitSignals, SignalStep, PTL DEF Spec

-----------------------------------------------------------------------------
(* The idle task never leaves its loop.                                     *)
IdleInv ==
    /\ state[IdleTask] \in Runnable
    /\ pc[IdleTask] = "run"

(* task_exit of another task leaves the idle task alone.                    *)
LEMMA ExitKeepsIdle ==
  ASSUME FamilyInv, IdleInv, NEW p \in Pids \ {IdleTask},
         NEW W \in SUBSET {t \in task_queue : state[t] = "SLEEPING"}, TaskExit(p, W)
  PROVE  IdleInv'
<1>1. IdleTask \in Pids /\ IdleTask \notin W /\ IdleTask # p
  BY DEF IdleInv, Runnable
<1>2. IdleTask \notin FreedZombies(p)
  BY DEF FreedZombies, Elems, FamilyInv, ZombieOwned, IdleInv, Runnable
<1>3. state'[IdleTask] \in Runnable
  BY <1>1, <1>2 DEF TaskExit, IdleInv, Runnable
<1>4. pc'[IdleTask] = "run"
  BY <1>1 DEF TaskExit, Goto, IdleInv, FamilyInv, TypeOK
<1> QED BY <1>3, <1>4 DEF IdleInv

LEMMA IdleStep ==
  ASSUME IdleTask \notin KillTargets
  PROVE  FamilyInv /\ SignalInv /\ IdleInv /\ NoStraySignal /\ [Next]_vars => IdleInv'
<1> SUFFICES ASSUME FamilyInv, SignalInv, IdleInv, NoStraySignal, [Next]_vars
             PROVE  IdleInv'
  OBVIOUS
<1>0. TypeOK
  BY DEF FamilyInv
<1>a. IdleTask \in Pids /\ state[IdleTask] # "SLEEPING" /\ state[IdleTask] # "EXITING"
  BY DEF IdleInv, Runnable
<1>b. ASSUME UNCHANGED <<state, pc>> PROVE IdleInv'
  BY <1>b DEF IdleInv
<1>1. CASE Timer \/ Halt
  BY <1>1, <1>b DEF Timer, Halt, local
<1>2. CASE PickNext
  <2>1. UNCHANGED pc
    BY <1>2 DEF PickNext, local
  <2>2. state'[IdleTask] = state[IdleTask]
    BY <1>2, <1>0, <1>a, ZenonT(60) DEF PickNext, TimedOut, TypeOK
  <2> QED BY <2>1, <2>2 DEF IdleInv
<1>3. CASE ProcessSignals
  BY <1>3, <1>a DEF ProcessSignals, HandleAll, Signalled, local, IdleInv, Runnable
<1>4. CASE SignalExit
  <2>1. current_task # IdleTask
    <3>1. sigs_queue[IdleTask] = <<>>
      BY <1>a DEF SignalInv, Pending
    <3>2. ~Fatal(IdleTask)
      BY <3>1 DEF Fatal, Elems
    <3> QED BY <3>2, <1>4 DEF SignalExit, NoStraySignal
  <2> QED BY <1>4, <1>0, <2>1, ExitKeepsIdle DEF SignalExit, Signalled, TypeOK
<1>5. CASE \E c \in Chans : Event(c)
  BY <1>5, <1>a DEF Event, Wakeup, Sleepers, local, IdleInv
<1>6. ASSUME NEW p \in Pids, KernelStep(p) PROVE IdleInv'
  <2>1. p # IdleTask
    BY <1>6 DEF KernelStep, SleepAddr, SleepSwitch, WaitNoChild, WaitScan, WaitSleep,
                WaitLock, WaitUnlink, WaitFree, KillAdd, IdleInv
  <2>2. pc'[IdleTask] = "run"
    BY <1>0, <1>6, <1>a, <2>1 DEF KernelStep, SleepAddr, SleepSwitch, WaitNoChild, WaitScan,
         WaitSleep, SleepBegin, WaitLock, WaitUnlink, WaitFree, KillAdd, Goto, IdleInv, TypeOK
  <2>3. state'[IdleTask] \in Runnable
    <3>1. CASE WaitSleep(p)
      BY <1>0, <1>a, <2>1, <3>1 DEF WaitSleep, SleepBegin, IdleInv, TypeOK
    <3>2. CASE WaitFree(p)
      <4>1. zombie[p] # IdleTask
        BY <1>0, <1>a DEF FamilyInv, ZombieOwned
      <4> QED BY <1>0, <1>a, <4>1, <3>2 DEF WaitFree, IdleInv, TypeOK
    <3> QED BY <1>6, <3>1, <3>2 DEF KernelStep, SleepAddr, SleepSwitch, WaitNoChild,
                                    WaitScan, WaitLock, WaitUnlink, KillAdd, IdleInv
  <2> QED BY <2>2, <2>3 DEF IdleInv
<1>7. ASSUME NEW p \in Pids, Syscall(p) PROVE IdleInv'
  <2>1. p # IdleTask
    BY <1>7 DEF Syscall, Fork, Exit, Wait, Exec, SleepOn, Signal, Kill, InUser
  <2>2. CASE Exit(p)
    BY <2>1, <2>2, ExitKeepsIdle DEF Exit
  <2>3. CASE Fork(p)
    <3>1. next_pid # IdleTask
      BY <1>0 DEF TypeOK
    <3> QED BY <1>0, <1>a, <2>3, <3>1 DEF Fork, local, IdleInv, TypeOK
  <2>4. ASSUME NEW c \in Chans, SleepOn(p, c) PROVE IdleInv'
    BY <1>0, <1>a, <2>1, <2>4 DEF SleepOn, SleepBegin, Goto, IdleInv, TypeOK
  <2>5. CASE Wait(p)
    BY <1>0, <1>a, <2>1, <2>5 DEF Wait, Goto, IdleInv, TypeOK
  <2>6. ASSUME NEW t \in Pids, NEW s \in Sigs, Kill(p, t, s) PROVE IdleInv'
    BY <1>0, <1>a, <2>1, <2>6 DEF Kill, Goto, IdleInv, TypeOK
  <2>7. CASE Exec(p) \/ \E s \in Sigs : Signal(p, s)
    BY <2>7, <1>b DEF Exec, Signal, local
  <2> QED BY <1>7, <2>2, <2>3, <2>4, <2>5, <2>6, <2>7 DEF Syscall
<1>8. CASE UNCHANGED vars
  BY <1>8, <1>b DEF vars, local
<1> QED BY <1>1, <1>2, <1>3, <1>4, <1>5, <1>6, <1>7, <1>8 DEF Next

LEMMA IdleRuns == FamilyInv /\ IdleInv => SomeTaskRuns
<1> SUFFICES ASSUME FamilyInv, IdleInv PROVE SomeTaskRuns
  OBVIOUS
<1>1. IdleTask \in task_queue
  BY DEF FamilyInv, PidInv, IdleInv, Runnable, Queued
<1> QED BY <1>1 DEF SomeTaskRuns, IdleInv

(* Nobody can make every task sleep: as long as nobody signals the idle task
   and no queued signal outlives its task, the scheduler always finds a task
   and the panic "All threads sleeping, even idle" is not reached.          *)
THEOREM SomeTaskAlwaysRuns ==
  ASSUME IdleTask \notin KillTargets
  PROVE  Spec /\ []NoStraySignal => []SomeTaskRuns
<1>1. Init => IdleInv
  BY DEF Init, IdleInv, Runnable
<1>2. FamilyInv /\ SignalInv /\ IdleInv /\ NoStraySignal /\ [Next]_vars => IdleInv'
  BY IdleStep
<1>3. FamilyInv => TypeOK
  BY DEF FamilyInv
<1> QED BY <1>1, <1>2, <1>3, IdleRuns, InitFamily, FamilyStep, InitSignals, SignalStep, PTL DEF Spec

-----------------------------------------------------------------------------
(* A signal outlives its task only through the window of kill().            *)
WindowInv ==
    /\ \A t \in Pids : Pending(t) => t \in task_queue
    /\ \A p \in Pids : pc[p] # "kill"

LEMMA WindowStep ==
  ASSUME ~KillWindow
  PROVE  TypeOK /\ WindowInv /\ [Next]_vars => WindowInv'
<1> SUFFICES ASSUME TypeOK, WindowInv, [Next]_vars PROVE WindowInv'
  OBVIOUS
<1> USE DEF WindowInv
<1>a. ASSUME UNCHANGED <<sigs_queue, task_queue>>,
             \A p \in Pids : pc'[p] # "kill"
      PROVE  WindowInv'
  BY <1>a DEF Pending
<1>1. CASE Timer \/ PickNext \/ Halt
  BY <1>1, <1>a DEF Timer, PickNext, Halt, signals, local, family
<1>2. CASE ProcessSignals
  BY <1>2 DEF ProcessSignals, HandleAll, Pending, TypeOK, local, family
<1>3. ASSUME NEW p \in Pids, NEW W, TaskExit(p, W) PROVE WindowInv'
  <2>1. /\ sigs_queue' = [sigs_queue EXCEPT ![p] = <<>>] /\ task_queue' = task_queue \ {p}
        /\ pc' = [pc EXCEPT ![p] = "run"]
    BY <1>3 DEF TaskExit, Goto
  <2> QED BY <2>1 DEF Pending, TypeOK
<1>4. CASE SignalExit
  BY <1>4, <1>3 DEF SignalExit, TypeOK
<1>5. CASE \E c \in Chans : Event(c)
  BY <1>5, <1>a DEF Event, signals, local, family
<1>6. ASSUME NEW p \in Pids, KernelStep(p) PROVE WindowInv'
  BY <1>6, <1>a, ZenonT(60) DEF KernelStep, SleepAddr, SleepSwitch, WaitNoChild, WaitScan, WaitSleep,
       SleepBegin, WaitLock, WaitUnlink, WaitFree, KillAdd, Goto, signals, family, TypeOK
<1>7. ASSUME NEW p \in Pids, Syscall(p) PROVE WindowInv'
  <2>1. CASE Exit(p)
    BY <2>1, <1>3 DEF Exit
  <2>2. ASSUME NEW t \in Pids, NEW s \in Sigs, Kill(p, t, s) PROVE WindowInv'
    <3>1. t \in task_queue /\ AddSig(t, s) /\ UNCHANGED <<pc, task_queue>>
      BY <2>2 DEF Kill, family
    <3> QED BY <3>1, AddSigFacts
  <2>3. CASE Fork(p)
    BY <2>3 DEF Fork, local, Pending
  <2>4. CASE Wait(p) \/ \E c \in Chans : SleepOn(p, c)
    BY <2>4, <1>a DEF Wait, SleepOn, SleepBegin, Goto, signals, family, TypeOK
  <2>5. CASE Exec(p) \/ \E s \in Sigs : Signal(p, s)
    BY <2>5, <1>a DEF Exec, Signal, local, family
  <2> QED BY <1>7, <2>1, <2>2, <2>3, <2>4, <2>5 DEF Syscall
<1>8. CASE UNCHANGED vars
  BY <1>8, <1>a DEF vars, signals, local, family
<1> QED BY <1>1, <1>2, <1>4, <1>5, <1>6, <1>7, <1>8 DEF Next

(* If kill() could not be preempted between its search for the target and its
   list_add, the promise of task_exit to delete "any existing signal for us"
   would be kept: that window is the only source of stray signals.          *)
THEOREM StraySignalsComeFromWindow ==
  ASSUME ~KillWindow
  PROVE  Spec => []NoStraySignal
<1>1. Init => WindowInv
  BY DEF Init, WindowInv, Pending
<1>2. TypeOK /\ WindowInv /\ [Next]_vars => WindowInv'
  BY WindowStep
<1>3. WindowInv => NoStraySignal
  BY DEF WindowInv, NoStraySignal, Stray
<1>4. Init => WaitInv
  BY DEF Init, WaitInv
<1> QED BY <1>1, <1>2, <1>3, <1>4, InitTypeOK, TypeOKStep, WaitStep, PTL DEF Spec
=============================================================================
