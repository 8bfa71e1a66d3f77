-------------------------------- MODULE Kdbg --------------------------------
(***************************************************************************)
(* The kernel's stub of the remote debugger (kdbg.c) and the debugger at   *)
(* the other end of the serial line (external).  Packets are checked by a  *)
(* checksum and acknowledged; either side may find one damaged.            *)
(*                                                                         *)
(* A packet is its meaning and whether its checksum is right; its          *)
(* characters are not modelled.  Of the registers, the trap flag included, *)
(* only whose they are is.  Addresses are those of memory that all tasks   *)
(* share.                                                                  *)
(***************************************************************************)
EXTENDS Naturals, Integers, Sequences, FiniteSets, SequencesExt, FiniteSetsExt

CONSTANTS
    TaskQueue,          \* the pids in the order of task_queue
    Runnable,           \* the tasks that were TASK_RUNNING when the kernel stopped
    DbgAddrs, Mapped,   \* addresses, and those that is_mapped() accepts
    MemBytes,           \* values of a byte, besides the break instruction
    MAX_BREAK_POINTS,
    MaxNoise,           \* bound of the packets damaged between a request and its reply
    NoisyReplies        \* can replies be damaged, or requests only?

ASSUME KdbgAssumption ==
    /\ TaskQueue \in Seq(Nat \ {0}) /\ TaskQueue # <<>>
    /\ \A i, j \in DOMAIN TaskQueue : TaskQueue[i] = TaskQueue[j] => i = j
    /\ 0 \notin DbgAddrs /\ Mapped \subseteq DbgAddrs /\ MemBytes \subseteq Nat /\ MemBytes # {}
    /\ MAX_BREAK_POINTS \in Nat /\ MaxNoise \in Nat /\ NoisyReplies \in BOOLEAN

BREAK_OPC == 204

VARIABLES
    dbgPc,      \* the stub: "run" (the kernel runs), "get", "handle" or "put"
    dbgReq,     \* the request in kdbg_in, until it was answered
    dbgAnswer,  \* the reply in kdbg_out, until it was acknowledged
    dbgReply,   \* kdbg_reply
    dbgBpts,    \* bpts
    dbgMem,     \* memory
    dbgCur,     \* current_task
    dbgStopped, \* kdbg_pid
    dbgLast,    \* last_pid, 0 until it is set
    dbgTo, dbgFrom,  \* the line to the stub and from it
    gdbPc,      \* the debugger: "idle", "ack" (waits for it), "reply", "stop" or "done"
    gdbReq,     \* its request
    gdbGot,     \* the reply it accepted, until its next request
    gdbBpts,    \* the breakpoints it has set
    gdbProg,    \* what it takes the program in memory to be
    gdbList,    \* the threads it was told of
    gdbListed,  \* was that the whole list?
    noise

stubVars == <<dbgPc, dbgReq, dbgAnswer, dbgReply, dbgBpts, dbgMem, dbgCur, dbgStopped, dbgLast>>
gdbVars == <<gdbPc, gdbReq, gdbGot, gdbBpts, gdbProg, gdbList, gdbListed>>
kdbgVars == <<stubVars, gdbVars, dbgTo, dbgFrom, noise>>

Reply(kind, val) == [kind |-> kind, val |-> val]
Ok == Reply("OK", 0)
Error == Reply("E", 0)
EmptyReply == Reply("", 0)
Request(op, addr, val) == [op |-> op, addr |-> addr, val |-> val]
NoRequest == Request("", 0, 0)
NoBpt == [addr |-> 0, val |-> 0]
Packet(body, good) == [kind |-> "packet", body |-> body, good |-> good]
Ack == [kind |-> "+"]
Nak == [kind |-> "-"]

(* The bytes the program has in memory, breakpoints aside, to begin with.   *)
ByteAt0 == CHOOSE b \in MemBytes : TRUE

(* kdbg_init: the kernel runs, and has not stopped yet.  A debugger that connects
   begins with a +, for what the other end may have sent before.            *)
KdbgInit ==
    /\ dbgPc = "run" /\ dbgReq = NoRequest /\ dbgAnswer = EmptyReply /\ dbgReply = FALSE
    /\ dbgBpts = [i \in 1..MAX_BREAK_POINTS |-> NoBpt]
    /\ dbgMem = [a \in DbgAddrs |-> ByteAt0]
    /\ dbgCur = Head(TaskQueue) /\ dbgStopped = 0 /\ dbgLast = 0
    /\ dbgTo = <<Ack>> /\ dbgFrom = <<>> /\ noise = 0
    /\ gdbPc = "idle" /\ gdbReq = NoRequest /\ gdbGot = EmptyReply
    /\ gdbBpts = {} /\ gdbProg = dbgMem /\ gdbList = <<>> /\ gdbListed = FALSE

-----------------------------------------------------------------------------
(* A packet goes out on the line to the debugger, damaged perhaps.          *)
PutReply(reply) ==
    \E p \in {Packet(reply, g) : g \in IF NoisyReplies /\ noise < MaxNoise THEN BOOLEAN ELSE {TRUE}} :
        /\ dbgFrom' = Append(dbgFrom, p)
        /\ noise' = IF p.good THEN noise ELSE noise + 1

(* kdbg_get_packet: what is not a packet is skipped, a damaged one refused. *)
GetSkips ==
    /\ dbgPc = "get" /\ dbgTo # <<>> /\ Head(dbgTo).kind # "packet"
    /\ dbgTo' = Tail(dbgTo)
    /\ UNCHANGED <<stubVars, gdbVars, dbgFrom, noise>>

Accepts(p) == p.good

GetPacket ==
    /\ dbgPc = "get" /\ dbgTo # <<>> /\ Head(dbgTo).kind = "packet"
    /\ dbgTo' = Tail(dbgTo)
    /\ IF Accepts(Head(dbgTo))
       THEN /\ dbgFrom' = Append(dbgFrom, Ack)
            /\ dbgReq' = Head(dbgTo).body
            /\ dbgPc' = "handle"
       ELSE dbgFrom' = Append(dbgFrom, Nak) /\ UNCHANGED <<dbgReq, dbgPc>>
    /\ UNCHANGED <<dbgAnswer, dbgReply, dbgBpts, dbgMem, dbgCur, dbgStopped, dbgLast, gdbVars, noise>>

(* kdbg_put_packet, after the packet went out: what is not a + has it sent again,
   from where buf stands, which is the end of the packet.                   *)
PutAcked ==
    /\ dbgPc = "put" /\ dbgTo # <<>>
    /\ dbgTo' = Tail(dbgTo)
    /\ IF Head(dbgTo) = Ack
       THEN dbgPc' = "get" /\ dbgReq' = NoRequest /\ dbgAnswer' = EmptyReply /\ UNCHANGED <<dbgFrom, noise>>
       ELSE PutReply(EmptyReply) /\ UNCHANGED <<dbgPc, dbgReq, dbgAnswer>>
    /\ UNCHANGED <<dbgReply, dbgBpts, dbgMem, dbgCur, dbgStopped, dbgLast, gdbVars>>

-----------------------------------------------------------------------------
(* kdbg_handler, for one request.  The reply is put, and its acknowledgement
   waited for.                                                              *)
Answers(reply) == dbgPc' = "put" /\ dbgAnswer' = reply /\ PutReply(reply) /\ UNCHANGED <<dbgTo, dbgReply, gdbVars, dbgReq>>
Handles(ops) == dbgPc = "handle" /\ dbgReq.op \in ops

HandleQuery ==
    /\ Handles({"?", "g", "G", "qC"})
    /\ Answers(CASE dbgReq.op = "?" -> Reply("S", 5)
                 [] dbgReq.op = "g" -> Reply("regs", dbgCur)
                 [] dbgReq.op = "G" -> Ok
                 [] dbgReq.op = "qC" -> Reply("QC", dbgCur))
    /\ UNCHANGED <<dbgBpts, dbgMem, dbgCur, dbgStopped, dbgLast>>

(* Is this thread still alive?                                              *)
HandleAlive ==
    /\ Handles({"T"})
    /\ Answers(IF dbgReq.val \in Range(TaskQueue) THEN Ok ELSE Error)
    /\ UNCHANGED <<dbgBpts, dbgMem, dbgCur, dbgStopped, dbgLast>>

(* m and M, of one byte; mem2hex and hex2mem fail where nothing is mapped.  *)
Mem2hex(addr) == IF addr \in Mapped THEN Reply("mem", dbgMem[addr]) ELSE Error

HandleReadMem ==
    /\ Handles({"m"})
    /\ Answers(Mem2hex(dbgReq.addr))
    /\ UNCHANGED <<dbgBpts, dbgMem, dbgCur, dbgStopped, dbgLast>>

Hex2mem(addr, val) == IF addr \in Mapped THEN [dbgMem EXCEPT ![addr] = val] ELSE dbgMem

HandleWriteMem ==
    /\ Handles({"M"})
    /\ dbgMem' = Hex2mem(dbgReq.addr, dbgReq.val)
    /\ Answers(IF dbgReq.addr \in Mapped THEN Ok ELSE Error)
    /\ UNCHANGED <<dbgBpts, dbgCur, dbgStopped, dbgLast>>

(* qfThreadInfo and qsThreadInfo.                                           *)
HandleFirstThread ==
    /\ Handles({"qf"})
    /\ dbgLast' = Head(TaskQueue)
    /\ Answers(Reply("m", Head(TaskQueue)))
    /\ UNCHANGED <<dbgBpts, dbgMem, dbgCur, dbgStopped>>

NextThread ==
    LET i == CHOOSE k \in DOMAIN TaskQueue : TaskQueue[k] = dbgLast
    IN IF i < Len(TaskQueue) THEN TaskQueue[i + 1] ELSE 0

HandleNextThread ==
    /\ Handles({"qs"})
    /\ IF NextThread # 0 THEN dbgLast' = NextThread /\ Answers(Reply("m", NextThread))
       ELSE Answers(Reply("l", 0)) /\ UNCHANGED dbgLast
    /\ UNCHANGED <<dbgBpts, dbgMem, dbgCur, dbgStopped>>

(* H: another task becomes current_task; 0 stands for the one that stopped.  To
   step or go on (op c or s) it has to be able to run.                      *)
HandleThread ==
    LET pid == IF dbgReq.val = 0 THEN dbgStopped ELSE dbgReq.val IN
    /\ Handles({"H", "Hc"})
    /\ IF pid \in Range(TaskQueue) /\ (dbgReq.op = "Hc" => pid \in Runnable)
       THEN dbgCur' = pid /\ Answers(Ok)
       ELSE Answers(Error) /\ UNCHANGED dbgCur
    /\ UNCHANGED <<dbgBpts, dbgMem, dbgStopped, dbgLast>>

(* set_break_point.                                                         *)
FreeBpts == {i \in DOMAIN dbgBpts : dbgBpts[i].addr = 0}

HandleSetBreak ==
    /\ Handles({"Z"})
    /\ IF FreeBpts # {} /\ dbgReq.addr \in Mapped
       THEN /\ dbgBpts' = [dbgBpts EXCEPT ![Min(FreeBpts)] = [addr |-> dbgReq.addr, val |-> dbgMem[dbgReq.addr]]]
            /\ dbgMem' = [dbgMem EXCEPT ![dbgReq.addr] = BREAK_OPC]
            /\ Answers(Ok)
       ELSE Answers(Error) /\ UNCHANGED <<dbgBpts, dbgMem>>
    /\ UNCHANGED <<dbgCur, dbgStopped, dbgLast>>

(* Faulty variant: the slot stays in use.                                   *)
FreedBptKept(bpt) == bpt

FreedBpt(bpt) == NoBpt

(* reset_break_point.                                                       *)
BptsAt(addr) == {i \in DOMAIN dbgBpts : dbgBpts[i].addr = addr}

HandleResetBreak ==
    /\ Handles({"z"})
    /\ IF BptsAt(dbgReq.addr) # {}
       THEN LET i == Min(BptsAt(dbgReq.addr)) IN
            /\ dbgMem' = [dbgMem EXCEPT ![dbgReq.addr] = dbgBpts[i].val]
            /\ dbgBpts' = [dbgBpts EXCEPT ![i] = FreedBpt(dbgBpts[i])]
            /\ Answers(Ok)
       ELSE Answers(Error) /\ UNCHANGED <<dbgBpts, dbgMem>>
    /\ UNCHANGED <<dbgCur, dbgStopped, dbgLast>>

(* A request that is not known: an empty reply.                             *)
HandleOther ==
    /\ Handles({""})
    /\ Answers(EmptyReply)
    /\ UNCHANGED <<dbgBpts, dbgMem, dbgCur, dbgStopped, dbgLast>>

(* s, c and k: current_task goes on.                                        *)
HandleResume ==
    /\ Handles({"s", "c", "k"})
    /\ dbgReply' = (dbgReply \/ dbgReq.op # "k")
    /\ dbgPc' = "run" /\ dbgLast' = 0
    /\ UNCHANGED <<dbgReq, dbgAnswer, dbgBpts, dbgMem, dbgCur, dbgStopped, dbgTo, dbgFrom, gdbVars, noise>>

(* The kernel stops in a task: kdbg_handler begins.                         *)
Stop(t) ==
    /\ dbgPc = "run"
    /\ dbgCur' = t /\ dbgStopped' = t /\ dbgReply' = FALSE
    /\ IF dbgReply THEN dbgPc' = "put" /\ dbgAnswer' = Reply("S", 5) /\ PutReply(Reply("S", 5))
       ELSE dbgPc' = "get" /\ UNCHANGED <<dbgAnswer, dbgFrom, noise>>
    /\ UNCHANGED <<dbgReq, dbgBpts, dbgMem, dbgLast, dbgTo, gdbVars>>
-----------------------------------------------------------------------------
(* The debugger.  It sets and removes a breakpoint once, does not write where one
   is set, and asks for the next thread only after the first.               *)
Resumes == {"s", "c"}
Requests ==
    {Request(op, 0, 0) : op \in {"?", "g", "G", "qC", "qf", "", "k"} \cup Resumes}
    \cup {Request(op, 0, v) : op \in {"T", "H", "Hc"}, v \in {0} \cup Range(TaskQueue)}
    \cup {Request("m", a, 0) : a \in DbgAddrs}
    \cup {Request("M", a, v) : a \in DbgAddrs \ gdbBpts, v \in MemBytes}
    \cup {Request("Z", a, 0) : a \in DbgAddrs \ gdbBpts}
    \cup {Request("z", a, 0) : a \in gdbBpts}
    \cup (IF gdbList # <<>> /\ ~gdbListed THEN {Request("qs", 0, 0)} ELSE {})

SendPacket(body) ==
    \E good \in IF noise < MaxNoise THEN BOOLEAN ELSE {TRUE} :
        dbgTo' = Append(dbgTo, Packet(body, good)) /\ noise' = IF good THEN noise ELSE noise + 1

GdbAsks(req) ==
    /\ gdbPc = "idle"
    /\ gdbReq' = req /\ gdbGot' = EmptyReply /\ gdbPc' = "ack" /\ SendPacket(req)
    /\ UNCHANGED <<stubVars, dbgFrom, gdbBpts, gdbProg, gdbList, gdbListed>>

GdbAcked ==
    /\ gdbPc = "ack" /\ dbgFrom # <<>> /\ Head(dbgFrom).kind # "packet"
    /\ dbgFrom' = Tail(dbgFrom)
    /\ IF Head(dbgFrom) = Ack
       THEN /\ gdbPc' = IF gdbReq.op = "k" THEN "done" ELSE "reply"
            /\ gdbList' = IF gdbReq.op \in Resumes THEN <<>> ELSE gdbList
            /\ gdbListed' = (gdbListed /\ gdbReq.op \notin Resumes)
            /\ UNCHANGED <<dbgTo, noise>>
       ELSE SendPacket(gdbReq) /\ UNCHANGED <<gdbPc, gdbList, gdbListed>>
    /\ UNCHANGED <<stubVars, gdbReq, gdbGot, gdbBpts, gdbProg>>

(* What the debugger makes of the reply to its request.                     *)
LearntBpts(reply) ==
    IF reply # Ok THEN gdbBpts
    ELSE CASE gdbReq.op = "Z" -> gdbBpts \cup {gdbReq.addr}
           [] gdbReq.op = "z" -> gdbBpts \ {gdbReq.addr} [] OTHER -> gdbBpts
LearntProg(reply) ==
    IF reply = Ok /\ gdbReq.op = "M" THEN [gdbProg EXCEPT ![gdbReq.addr] = gdbReq.val] ELSE gdbProg
LearntList(reply) ==
    CASE gdbReq.op = "qf" -> <<reply.val>>
      [] gdbReq.op = "qs" /\ reply.kind = "m" -> Append(gdbList, reply.val) [] OTHER -> gdbList
LearntListed(reply) ==
    CASE gdbReq.op = "qf" -> FALSE [] gdbReq.op = "qs" -> reply.kind = "l" [] OTHER -> gdbListed

Learns(reply) ==
    /\ gdbGot' = reply
    /\ gdbBpts' = LearntBpts(reply) /\ gdbProg' = LearntProg(reply)
    /\ gdbList' = LearntList(reply) /\ gdbListed' = LearntListed(reply)

GdbGetsReply ==
    /\ gdbPc = "reply" /\ dbgFrom # <<>> /\ Head(dbgFrom).kind = "packet"
    /\ dbgFrom' = Tail(dbgFrom)
    /\ IF Head(dbgFrom).good
       THEN dbgTo' = Append(dbgTo, Ack) /\ gdbPc' = "idle" /\ noise' = 0 /\ Learns(Head(dbgFrom).body)
       ELSE dbgTo' = Append(dbgTo, Nak) /\ UNCHANGED <<noise, gdbPc, gdbGot, gdbBpts, gdbProg, gdbList, gdbListed>>
    /\ UNCHANGED <<stubVars, gdbReq>>

KdbgNext ==
    \/ GetSkips \/ GetPacket \/ PutAcked
    \/ HandleQuery \/ HandleAlive \/ HandleReadMem \/ HandleWriteMem \/ HandleFirstThread
    \/ HandleNextThread \/ HandleThread \/ HandleSetBreak \/ HandleResetBreak \/ HandleOther
    \/ HandleResume \/ \E t \in Range(TaskQueue) : Stop(t)
    \/ \E req \in Requests : GdbAsks(req)
    \/ GdbAcked \/ GdbGetsReply

KdbgSpec == KdbgInit /\ [][KdbgNext]_kdbgVars

-----------------------------------------------------------------------------
(* "Send a packet, computing it's checksum, waiting for it's acknoledge. If there
   is not ack, packet will be resent." (kdbg.c:179): the debugger ends up with the
   stub's reply to its own request, however often packets are damaged.      *)
ReplyMatches ==
    gdbPc = "idle" /\ dbgPc = "put" => dbgReq = gdbReq /\ gdbGot = dbgAnswer /\ dbgFrom = <<>>

(* Between two requests the stub's table holds the breakpoints that the debugger
   has set, and memory is the program's but for them: whatever was set, refused,
   removed and written before, removing them all restores the program.      *)
BreakpointsExact ==
    gdbPc = "idle" =>
        LET set == {i \in DOMAIN dbgBpts : dbgBpts[i].addr # 0} IN
        /\ {dbgBpts[i].addr : i \in set} = gdbBpts /\ Cardinality(set) = Cardinality(gdbBpts)
        /\ \A i \in set : dbgBpts[i].val = gdbProg[dbgBpts[i].addr]
        /\ dbgMem = [a \in DbgAddrs |-> IF a \in gdbBpts THEN BREAK_OPC ELSE gdbProg[a]]

(* qfThreadInfo and qsThreadInfo, with other requests in between, name every task
   once.                                                                    *)
ThreadsListed == gdbListed => gdbList = TaskQueue

(* The stub and the debugger never wait for each other: with nothing on the line
   the kernel runs, the stub works or the debugger may ask.                 *)
NotBothWaiting ==
    dbgTo = <<>> /\ dbgFrom = <<>> => dbgPc \in {"run", "handle"} \/ gdbPc \in {"idle", "done"}

(* The debugger and the stub agree about requests, breakpoints and threads whatever
   requests are damaged, and never wait for each other. *)
KdbgSafety ==
    /\ ReplyMatches
    /\ BreakpointsExact
    /\ ThreadsListed
    /\ NotBothWaiting
=============================================================================
