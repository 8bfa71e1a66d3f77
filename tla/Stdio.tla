-------------------------------- MODULE Stdio --------------------------------
(***************************************************************************)
(* The buffered streams of the C library (lib/file.c): the table of FILEs, *)
(* and what a stream does to the file behind its descriptor.               *)
(*                                                                         *)
(* A FILE keeps, besides the fields of the C structure, the file behind it *)
(* (data, offs: the kernel's), what the program put into and got out of it *)
(* (put, got), and what the last call returned (ret).  O_RDONLY is 0, so   *)
(* the tests of that bit (lib/file.c:140, 313) are never true: a file that *)
(* is opened for reading becomes an F_RDWR stream.                         *)
(***************************************************************************)
EXTENDS Naturals, Integers, Sequences, FiniteSets, SequencesExt, FiniteSetsExt

CONSTANTS
    BufSize,    \* BUF_SIZE
    NumSlots,   \* IOB_INIT_NUMSLOTS
    OpenMax,    \* OPEN_MAX
    MaxFds,     \* descriptors the kernel gives a task
    FileData,   \* the bytes of a file that is opened for reading
    SignBits,   \* the byte whose bits are all set, 255, which as a char is EOF
    MaxMoved,   \* bound of the bytes put and got
    MaxOpened   \* bound of the calls of fopen

ASSUME StdioAssumption ==
    /\ BufSize \in Nat \ {0} /\ NumSlots \in Nat /\ NumSlots > 2 /\ OpenMax \in Nat
    /\ MaxFds \in Nat /\ MaxMoved \in Nat /\ MaxOpened \in Nat

VARIABLES
    stdIob,     \* _iob->files, of length _iob->slots
    stdFds,     \* the descriptors that are open
    stdClosed,  \* the streams that the last call closed, and how
    stdOpened,  \* calls of fopen
    stdExited,  \* has the program left?
    stdBusy     \* the slot of the stream that is read or written: streams share
                \* nothing but the table

stdVars == <<stdIob, stdFds, stdClosed, stdOpened, stdExited, stdBusy>>

NoChar == -1        \* EOF
Newline == 0
Lost == -2          \* a byte that fgets read and dropped
TakenForEof == -4   \* a byte that fgetc read and returned as EOF
Garbage == -3       \* a byte from behind the buffer

FreeFile == [flags |-> {}]

FileStream(fd, flags, size, start, offs) ==
    [fd |-> fd, flags |-> flags, size |-> size, buf |-> [i \in 0..(size - 1) |-> Garbage],
     head |-> 0, tail |-> 0, start |-> start, data |-> start, offs |-> offs,
     put |-> <<>>, got |-> <<>>, ret |-> 0, early |-> FALSE, unread |-> FALSE]

(* _iob_init.                                                               *)
StdioInit ==
    /\ stdIob = <<FileStream(0, {"F_RDONLY"}, BufSize, FileData, 0),
                  FileStream(1, {"F_WRONLY"}, BufSize, <<>>, 0),
                  FileStream(2, {"F_WRONLY", "F_UNBUF"}, 1, <<>>, 0)>>
                \o [i \in 1..(NumSlots - 3) |-> FreeFile]
    /\ stdFds = 0..2
    /\ stdClosed = {} /\ stdOpened = 0 /\ stdExited = FALSE
    /\ stdBusy \in 1..NumSlots

IobEmpty(f) == f.tail = f.head
IobFull(f) == f.head - f.tail >= f.size
Refuses(f, flags) == f.flags \cap flags # {}

Failed(f, flag) == [f EXCEPT !.flags = @ \cup flag, !.ret = NoChar]

-----------------------------------------------------------------------------
(* What the kernel moves of the bytes it is asked to: all, one, or none (an
   error).  All the reads or writes of one call behave alike.               *)
Kernel == {"all", "one", "none"}
Moved(k, n) == CASE k = "all" -> n [] k = "one" -> Min({1, n}) [] k = "none" -> -1

FillAt(f) == f.head % f.size

FillBuf(f, k) ==
    LET pos == FillAt(f)
        n == Moved(k, Min({f.size - pos, Len(f.data) - f.offs}))
    IN IF Refuses(f, {"F_EOF", "F_ERR", "F_WRONLY"}) THEN Failed(f, {})
       ELSE IF n <= 0 THEN Failed(f, IF n = 0 THEN {"F_EOF"} ELSE {"F_ERR"})
       ELSE [f EXCEPT !.buf = [i \in DOMAIN @ |-> IF i \in pos..(pos + n - 1)
                                                  THEN f.data[f.offs + i - pos + 1] ELSE @[i]],
                      !.head = @ + n, !.offs = @ + n, !.ret = n]

(* write() at the file's offset, past its end if need be.                   *)
Written(f, bytes) ==
    [f EXCEPT !.data = SubSeq(@, 1, f.offs) \o bytes
                       \o SubSeq(@, f.offs + Len(bytes) + 1, Len(@)),
              !.offs = @ + Len(bytes)]

(* Faulty variant: the whole buffer, however much of it is in use.          *)
FlushWhole(f) == f.size

FlushSize(f) == IF f.head > f.tail /\ "F_UNBUF" \in f.flags THEN 1 ELSE f.head - f.tail

(* The bytes are taken from the tail on and do not wrap around: behind the end
   of the buffer is something else.  Nothing to flush is an error.          *)
FlushBuf(f, k) ==
    LET pos == f.tail % f.size
        n == Moved(k, FlushSize(f))
        bytes == [i \in 1..n |-> IF pos + i - 1 < f.size THEN f.buf[pos + i - 1] ELSE Garbage]
    IN IF Refuses(f, {"F_EOF", "F_ERR", "F_RDONLY"}) THEN Failed(f, {})
       ELSE IF n <= 0 THEN Failed(f, {"F_ERR"})
       ELSE [Written(f, bytes) EXCEPT !.tail = @ + n, !.ret = n,
                                      !.early = @ \/ (f.tail + n) % f.size # 0]

-----------------------------------------------------------------------------
(* The next byte of the buffer, or NoChar, is left in ret.                  *)
NextByte(f, k) ==
    LET g == IF IobEmpty(f) THEN FillBuf(f, k) ELSE f
    IN IF IobEmpty(g) THEN g ELSE [g EXCEPT !.ret = g.buf[g.tail % g.size], !.tail = @ + 1]

Took(f, c) == [f EXCEPT !.got = Append(@, c)]

(* fgetc: the byte is a signed char, which becomes an int: that of ones only is
   EOF, though the tail has moved past it; so it is for fgets and getline.  *)
Getc(f, k) ==
    LET g == NextByte(f, k)
    IN IF g.ret = SignBits THEN [Took(g, TakenForEof) EXCEPT !.ret = NoChar] ELSE g

(* fread: up to n bytes, as they are.                                       *)
ReadBytes(f, n, k) ==
    LET Next1(g, i) == LET h == NextByte(g, k) IN IF h.ret = NoChar THEN h ELSE Took(h, h.ret)
    IN FoldLeft(LAMBDA g, i : IF g.ret = NoChar THEN g ELSE Next1(g, i),
                [f EXCEPT !.ret = 0], [i \in 1..n |-> i])

(* A line of up to room bytes: fgets reads one more, and drops it.          *)
RECURSIVE GetLine(_, _, _)
GetLine(f, room, k) ==
    LET g == Getc(f, k)
    IN IF g.ret = NoChar THEN g
       ELSE IF room = 0 THEN Took(g, Lost)
       ELSE IF g.ret = Newline THEN Took(g, Newline)
       ELSE GetLine(Took(g, g.ret), room - 1, k)

PlaceOf(f) == f.head % f.size

(* fputc, and the step of fwrite: a stream without a buffer is one of size 1. *)
Putc(f, c, k) ==
    LET g == [f EXCEPT !.buf[PlaceOf(f)] = c, !.head = @ + 1, !.put = Append(@, c), !.ret = c]
    IN IF IobFull(g) THEN FlushBuf(g, k) ELSE g

(* fputs and fwrite: until a flush fails.  (What is put is below 128: of another
   character fputs, which tests what fputc returns for a sign, puts no more.) *)
PutBytes(f, n, k) ==
    FoldLeft(LAMBDA g, i : IF g.ret = NoChar THEN g ELSE Putc(g, 10 + Len(g.put), k),
             [f EXCEPT !.ret = 0], [i \in 1..n |-> i])

(* fflush of one stream.                                                    *)
Flushed(f, k) == FlushBuf([f EXCEPT !.unread = @ \/ ~IobEmpty(f)], k)

(* What fclose does before it closes the descriptor.                        *)
LastFlush(f, k) == Flushed(f, k)

-----------------------------------------------------------------------------
(* Calls on a stream.                                                       *)
UsedSlots == {i \in 1..Len(stdIob) : stdIob[i].flags # {}}
ForReading == {i \in UsedSlots \cap {stdBusy} : "F_WRONLY" \notin stdIob[i].flags}
ForWriting == {i \in UsedSlots \cap {stdBusy} : "F_WRONLY" \in stdIob[i].flags}
MayMove(n) == n + MapThenSumSet(LAMBDA i : Len(stdIob[i].put) + Len(stdIob[i].got), UsedSlots) <= MaxMoved

SetStream(i, f) == stdIob' = [stdIob EXCEPT ![i] = f] /\ stdClosed' = {} /\ UNCHANGED <<stdFds, stdOpened, stdExited>>

Fgetc(i, k) ==
    LET g == Getc(stdIob[i], k) IN MayMove(1) /\ SetStream(i, IF g.ret = NoChar THEN g ELSE Took(g, g.ret))
Fread(i, n, k) == MayMove(n) /\ SetStream(i, ReadBytes(stdIob[i], n, k))
Fgets(i, size, k) == MayMove(size) /\ SetStream(i, GetLine(stdIob[i], size - 1, k))
(* getline makes its buffer as large as the line.                           *)
Getline(i, k) == MayMove(1) /\ SetStream(i, GetLine(stdIob[i], Len(FileData) + 1, k))
Fputc(i, k) == MayMove(1) /\ SetStream(i, Putc(stdIob[i], 10 + Len(stdIob[i].put), k))
Fputs(i, n, k) == MayMove(n) /\ SetStream(i, PutBytes(stdIob[i], n, k))
Fflush(i, k) == SetStream(i, Flushed(stdIob[i], k))

(* fflush(NULL): every stream but stdin.                                    *)
FflushAll(k) ==
    /\ stdIob' = [i \in DOMAIN stdIob |->
                     IF i \in UsedSlots /\ "F_RDONLY" \notin stdIob[i].flags
                     THEN Flushed(stdIob[i], k) ELSE stdIob[i]]
    /\ stdClosed' = {} /\ UNCHANGED <<stdFds, stdOpened, stdExited>>

(* _alloc_file: the first free slot; the table is doubled while it has fewer
   than OPEN_MAX (never, with the constants of the program).                *)
FreeSlots(iob) == {i \in 1..Len(iob) : iob[i].flags = {}}
Doubled(iob) == iob \o [i \in 1..Len(iob) |-> FreeFile]
WithRoom(iob) == IF FreeSlots(iob) = {} /\ Len(iob) < OpenMax THEN Doubled(iob) ELSE iob

Opened(fd, mode) ==
    CASE mode = "r" -> FileStream(fd, {"F_RDWR"}, BufSize, FileData, 0)
      [] mode = "w" -> FileStream(fd, {"F_WRONLY"}, BufSize, <<>>, 0)
      [] mode = "a" -> FileStream(fd, {"F_WRONLY"}, BufSize, FileData, Len(FileData))

(* The table after open() returned fd, or failed.                           *)
AfterOpen(iob, i, fd, mode) == IF fd = -1 THEN iob ELSE [iob EXCEPT ![i] = Opened(fd, mode)]

(* fopen; open() takes the first descriptor that is free, or fails.         *)
Fopen(mode) ==
    LET free == (0..(MaxFds - 1)) \ stdFds
        iob == WithRoom(stdIob)
    IN /\ stdOpened < MaxOpened
       /\ stdOpened' = stdOpened + 1 /\ stdClosed' = {}
       /\ \E fd \in {-1} \cup (IF free = {} THEN {} ELSE {Min(free)}) :
            /\ stdIob' = IF FreeSlots(iob) = {} THEN stdIob ELSE AfterOpen(iob, Min(FreeSlots(iob)), fd, mode)
            /\ stdFds' = IF FreeSlots(iob) = {} \/ fd = -1 THEN stdFds ELSE stdFds \cup {fd}
       /\ UNCHANGED stdExited

(* What is known of a stream that is closed: was its output sound before, and
   did the last write take all of it?                                       *)
Fclosed(f, k) == [f |-> LastFlush(f, k), sound |-> ~f.early /\ "F_ERR" \notin f.flags /\ k = "all"]

Fclose(i, k) ==
    /\ stdIob' = [stdIob EXCEPT ![i] = FreeFile]
    /\ stdFds' = stdFds \ {stdIob[i].fd}
    /\ stdClosed' = {Fclosed(stdIob[i], k)}
    /\ UNCHANGED <<stdOpened, stdExited>>

(* exit, which calls _iob_destroy (atexit).                                 *)
ExitFlush(k) ==
    /\ stdIob' = [i \in DOMAIN stdIob |-> FreeFile]
    /\ stdFds' = stdFds \ {stdIob[i].fd : i \in UsedSlots}
    /\ stdClosed' = {Fclosed(stdIob[i], k) : i \in UsedSlots}
    /\ stdExited' = TRUE
    /\ UNCHANGED stdOpened

StdioNext ==
    /\ ~stdExited /\ UNCHANGED stdBusy
    /\ \E k \in Kernel :
          \/ \E i \in ForReading : \/ Fgetc(i, k) \/ Getline(i, k)
                                   \/ \E n \in 2..3 : Fread(i, n, k) \/ Fgets(i, n, k)
          \/ \E i \in ForWriting : Fputc(i, k) \/ \E n \in 2..3 : Fputs(i, n, k)
          \/ \E i \in UsedSlots : Fclose(i, k) \/ (i = stdBusy /\ Fflush(i, k))
          \/ FflushAll(k)
          \/ \E mode \in {"r", "w", "a"} : Fopen(mode)
          \/ ExitFlush(k)

-----------------------------------------------------------------------------
Streams == {stdIob[i] : i \in UsedSlots} \cup {c.f : c \in stdClosed}
WriteStreams == {f \in Streams : "F_WRONLY" \in f.flags}
ReadStreams == Streams \ WriteStreams

(* A stream never holds more than its buffer takes, unless a write failed, and
   what it holds is what the program put there last: later output never
   overwrites output that has not reached the file.                         *)
BufferedIntact ==
    \A f \in WriteStreams :
        /\ f.tail \in 0..f.head /\ f.head = Len(f.put)
        /\ "F_ERR" \notin f.flags =>
               /\ f.head - f.tail <= f.size
               /\ \A i \in (f.tail + 1)..f.head : f.buf[(i - 1) % f.size] = f.put[i]

(* While no flush has ended inside the buffer (fflush, or a write that took a
   part only), what has reached the file is what was put, in order, behind what
   the file held.                                                           *)
OutputInOrder ==
    \A f \in WriteStreams : ~f.early => f.tail <= Len(f.put) /\ f.data = f.start \o SubSeq(f.put, 1, f.tail)

(* "Close still open files. fclose will flush their buffers.": a stream closed,
   by fclose or at exit, without an error and with no flush before that ended
   inside the buffer, has written everything.                               *)
ClosedComplete ==
    \A c \in stdClosed : c.sound /\ c.f \in WriteStreams => c.f.data = c.f.start \o c.f.put

(* A stream hands out the bytes of its file, each once and in order, until unread
   ones are flushed.  Two are read and never handed out: the one that fgets drops
   behind a line that fills its buffer, and the one whose bits are all set, which
   fgetc, fgets and getline take for the end of the file.                   *)
InputInOrder ==
    \A f \in ReadStreams :
        ~f.unread =>
            /\ Len(f.got) = f.tail
            /\ \A i \in 1..f.tail :
                   \/ f.got[i] \in {FileData[i], Lost}
                   \/ FileData[i] = SignBits /\ f.got[i] = TakenForEof

(* A file that is opened for reading is changed by no call but fflush or fclose
   with unread bytes in the buffer, and stdin's by none.                    *)
ReadingKeepsFile ==
    \A f \in ReadStreams : ~f.unread \/ "F_RDONLY" \in f.flags => f.data = FileData

(* The streams in the table and the open descriptors match one to one: no failed
   fopen, and no fclose, leaves a slot or a descriptor behind.              *)
SlotsMatchFds ==
    /\ {stdIob[i].fd : i \in UsedSlots} = stdFds
    /\ Cardinality(UsedSlots) = Cardinality(stdFds)

(* Streams under short, failed and empty reads and writes: bytes leave and arrive in
   order and once, and a FILE stands for one open descriptor. *)
StdioSafety ==
    /\ BufferedIntact
    /\ OutputInOrder
    /\ ClosedComplete
    /\ InputInOrder
    /\ ReadingKeepsFile
    /\ SlotsMatchFds
=============================================================================
