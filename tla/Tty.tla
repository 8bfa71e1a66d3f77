-------------------------------- MODULE Tty --------------------------------
(***************************************************************************)
(* A terminal (tty.c, ring_buf.c): tty_in, called by the interrupts of the *)
(* keyboard and of the serial line, edits a line and puts it in a ring     *)
(* that tty_read takes from.                                               *)
(*                                                                         *)
(* tty_iput wakes the reader and switches tasks in the middle of the       *)
(* interrupt: the handler is suspended, others run, and the next key may   *)
(* come.  A handler that is not suspended runs with interrupts disabled.   *)
(* Readers are preempted between any two steps, and a signal makes one that *)
(* sleeps AWAKEN (signal.c): no wakeup of the ring sees it then.           *)
(*                                                                         *)
(* Echo is left out; Ctrl-L resets the ring, and is left out while a reader *)
(* is between its test of the ring and rb_getc.                            *)
(***************************************************************************)
EXTENDS Naturals, Sequences, SequencesExt

CONSTANTS
    TtyReaders,         \* tasks that read
    ReadSizes,          \* sizes they ask for
    TtyChars,           \* characters without a meaning
    TTY_IN_BUF_SIZE,    \* size of the ring
    TTY_LN_BUF_SIZE,    \* size of the line
    TtyWord,            \* 2^32: where head and tail wrap
    MaxHandlers         \* bound of the handlers that are suspended

ASSUME TtyAssumption ==
    /\ TTY_IN_BUF_SIZE \in Nat \ {0} /\ TTY_LN_BUF_SIZE \in Nat \ {0, 1} /\ MaxHandlers \in Nat \ {0}
    /\ TtyWord \in Nat /\ TtyWord % TTY_IN_BUF_SIZE = 0 /\ TtyWord > TTY_IN_BUF_SIZE
    /\ ReadSizes \subseteq Nat \ {0}

VARIABLES
    ttyOpen,        \* tty_devs[minor], NULL when FALSE
    ttyCanon,       \* ICANON and ICRNL of the termios
    ttyLine,        \* line.buf and len; ed is len
    ttyMeant,       \* what was typed since the end of a line (history)
    ttyCin,         \* the ring: [head, tail, buf]
    ttyHandlers,    \* calls of tty_editor that are putting a line
    ttyRunning,     \* the one that runs, 0 when none does
    ttyReader,      \* of a reader: [pc, size, got, woken, awaken]
    ttyExpect,      \* what lines promise the reader and it has not got (history)
    ttyPast         \* what went wrong so far, of TtyFlaws (history)

ttyVars == <<ttyOpen, ttyCanon, ttyLine, ttyMeant, ttyCin, ttyHandlers, ttyRunning, ttyReader,
             ttyExpect, ttyPast>>

Specials == {"CR", "ERASE", "KILL", "INTR", "EOF", "SUSP", "RESET"}
Keys == TtyChars \cup Specials
RingChars == Keys \cup {"NL"}

(* raced: a key came while a handler was suspended; overrun: rb_putc met a full
   ring; missed: wakeup found the reader between rb_is_empty and sleep_on, or
   made AWAKEN by a signal.                                                 *)
TtyFlaws == {"raced", "overrun", "missed"}

(* "window" is between rb_is_empty and sleep_on, "awake" before the second test
   of the ring, "get" before rb_getc.  A signal found the reader asleep: it is
   AWAKEN, "signalled" until it is scheduled, "handler" in its handler.     *)
ReaderAt == {"out", "test", "window", "sleep", "signalled", "handler", "awake", "get"}
NotReading == [pc |-> "out", size |-> 0, got |-> 0, woken |-> "no", awaken |-> FALSE]
EmptyRing == [head |-> 0, tail |-> 0, buf |-> [k \in 0..(TTY_IN_BUF_SIZE - 1) |-> "NL"]]

TtyInit ==
    /\ ttyOpen = FALSE /\ ttyCanon = TRUE /\ ttyLine = <<>> /\ ttyMeant = <<>> /\ ttyCin = EmptyRing
    /\ ttyHandlers = <<>> /\ ttyRunning = 0
    /\ ttyReader = [t \in TtyReaders |-> NotReading]
    /\ ttyExpect = <<>> /\ ttyPast = {}

-----------------------------------------------------------------------------
(* ring_buf.c.                                                              *)
RbEmpty(rb) == rb.head = rb.tail
RbNumChars(rb) == (rb.head + TtyWord - rb.tail) % TtyWord
RbFull(rb) == RbNumChars(rb) >= TTY_IN_BUF_SIZE
RbPut(rb, c) == [rb EXCEPT !.buf[rb.head % TTY_IN_BUF_SIZE] = c, !.head = (@ + 1) % TtyWord]
RbFirst(rb) == rb.buf[rb.tail % TTY_IN_BUF_SIZE]

RbGet(rb) == [rb EXCEPT !.tail = (@ + 1) % TtyWord]

(* wakeup(&tty->cin), for the reason why: of those that are TASK_SLEEPING.  *)
Woken(why) ==
    [t \in TtyReaders |-> IF ttyReader[t].pc = "sleep"
                          THEN [ttyReader[t] EXCEPT !.pc = "awake", !.woken = why] ELSE ttyReader[t]]
Missed ==
    IF \E t \in TtyReaders : ttyReader[t].pc \in {"window", "signalled", "handler"} THEN {"missed"} ELSE {}

(* The condition of tty_iput, after the character is in the ring.           *)
IputWakes(rb, c) == RbFull(rb) \/ c = "NL" \/ ~ttyCanon

(* tty_iput: puts c; the handler k that calls it is suspended if it wakes.  *)
TtyIput(c, k, past) ==
    LET rb == RbPut(ttyCin, c)
        wakes == IputWakes(rb, c)
    IN /\ ttyCin' = rb
       /\ ttyReader' = IF wakes THEN Woken("input") ELSE ttyReader
       /\ ttyRunning' = IF wakes THEN 0 ELSE k
       /\ ttyPast' = past \cup (IF RbFull(ttyCin) THEN {"overrun"} ELSE {})
                          \cup (IF wakes THEN Missed ELSE {})

-----------------------------------------------------------------------------
(* tty_editor.                                                              *)
LineFull == Len(ttyLine) >= TTY_LN_BUF_SIZE - 1
Raced == ttyPast \cup (IF ttyHandlers = <<>> THEN {} ELSE {"raced"})

(* The end of a line, or a key for a full line, whatever it is; and VEOF behind
   a line: the characters are put one by one.                               *)
EditorPuts(c) ==
    /\ c = "NL" \/ LineFull \/ (c = "EOF" /\ ttyLine # <<>>)
    /\ ttyHandlers' = Append(ttyHandlers, [at |-> 1, key |-> c, ends |-> c # "EOF" \/ LineFull])
    /\ ttyRunning' = Len(ttyHandlers) + 1
    /\ ttyMeant' = <<>>
    /\ ttyExpect' = ttyExpect \o ttyMeant \o (IF c = "EOF" /\ ~LineFull THEN <<>> ELSE <<c>>)
    /\ ttyPast' = Raced
    /\ UNCHANGED <<ttyCanon, ttyLine, ttyCin, ttyReader>>

(* VERASE, VKILL, VINTR (as VQUIT), VSUSP (as VSTART), and any other key.  kill
   only queues the signal for the foreground task: ReaderSignalled.         *)
Edited(line, c) ==
    CASE c = "ERASE" -> IF line = <<>> THEN <<>> ELSE Front(line)
      [] c \in {"KILL", "INTR"} -> <<>>
      [] c \in TtyChars -> Append(line, c)
      [] OTHER -> line

EditsLine(c) == ~LineFull /\ c \notin {"NL", "RESET"} /\ ~(c = "EOF" /\ ttyLine # <<>>)

EditorEdits(c) ==
    /\ EditsLine(c)
    /\ ttyLine' = Edited(ttyLine, c) /\ ttyMeant' = Edited(ttyMeant, c)
    /\ ttyReader' = IF c = "EOF" THEN Woken("eof") ELSE ttyReader
    /\ ttyPast' = Raced \cup (IF c = "EOF" THEN Missed ELSE {})
    /\ UNCHANGED <<ttyCanon, ttyCin, ttyHandlers, ttyRunning, ttyExpect>>

(* CTRL('L'): tty_set_defaults.                                             *)
EditorResets(c) ==
    /\ c = "RESET" /\ ~LineFull
    /\ \A t \in TtyReaders : ttyReader[t].pc \notin {"awake", "get"}
    /\ ttyCanon' = TRUE /\ ttyCin' = [ttyCin EXCEPT !.head = 0, !.tail = 0] /\ ttyExpect' = <<>>
    /\ ttyPast' = Raced
    /\ UNCHANGED <<ttyLine, ttyMeant, ttyHandlers, ttyRunning, ttyReader>>

(* tty_in: ICRNL, then the editor, or without ICANON the ring.              *)
TtyIn(key) ==
    /\ ttyRunning = 0
    /\ IF ~ttyOpen THEN UNCHANGED ttyVars
       ELSE LET c == IF key = "CR" /\ ttyCanon THEN "NL" ELSE key IN
            /\ IF ttyCanon
               THEN Len(ttyHandlers) < MaxHandlers /\ (EditorPuts(c) \/ EditorEdits(c) \/ EditorResets(c))
               ELSE /\ TtyIput(c, 0, Raced)
                    /\ ttyExpect' = Append(ttyExpect, c)
                    /\ UNCHANGED <<ttyCanon, ttyLine, ttyMeant, ttyHandlers>>
            /\ UNCHANGED ttyOpen

(* The loop of tty_editor over the line: any handler goes on when none runs. *)
HandlerPuts(k) ==
    LET h == ttyHandlers[k] IN
    /\ ttyRunning \in {0, k}
    /\ h.at <= Len(ttyLine) \/ (h.ends /\ h.at # TTY_LN_BUF_SIZE + 1)
    /\ LET inLine == h.at <= Len(ttyLine) IN
       /\ TtyIput(IF inLine THEN ttyLine[h.at] ELSE h.key, k, ttyPast)
       /\ ttyHandlers' = [ttyHandlers EXCEPT ![k].at = IF inLine THEN @ + 1 ELSE TTY_LN_BUF_SIZE + 1]
    /\ UNCHANGED <<ttyOpen, ttyCanon, ttyLine, ttyMeant, ttyExpect>>

(* Faulty variant: VEOF leaves the line.                                    *)
HandlerEndsKeeping(k) ==
    LET h == ttyHandlers[k] IN
    /\ ttyRunning \in {0, k}
    /\ h.at > Len(ttyLine) /\ (h.ends => h.at = TTY_LN_BUF_SIZE + 1)
    /\ ttyLine' = (IF h.ends THEN <<>> ELSE ttyLine)
    /\ ttyHandlers' = RemoveAt(ttyHandlers, k) /\ ttyRunning' = 0
    /\ ttyReader' = IF h.ends THEN ttyReader ELSE Woken("eof")
    /\ ttyPast' = ttyPast \cup (IF h.ends THEN {} ELSE Missed)
    /\ UNCHANGED <<ttyOpen, ttyCanon, ttyMeant, ttyCin, ttyExpect>>

(* ... and its end: only now the line is empty.                             *)
HandlerEnds(k) ==
    LET h == ttyHandlers[k] IN
    /\ ttyRunning \in {0, k}
    /\ h.at > Len(ttyLine) /\ (h.ends => h.at = TTY_LN_BUF_SIZE + 1)
    /\ ttyLine' = <<>> /\ ttyHandlers' = RemoveAt(ttyHandlers, k) /\ ttyRunning' = 0
    /\ ttyReader' = IF h.ends THEN ttyReader ELSE Woken("eof")
    /\ ttyPast' = ttyPast \cup (IF h.ends THEN {} ELSE Missed)
    /\ UNCHANGED <<ttyOpen, ttyCanon, ttyMeant, ttyCin, ttyExpect>>

-----------------------------------------------------------------------------
(* Tasks.                                                                   *)

(* tty_open, of the first, and tty_close, of the last.  A handler that is
   suspended would go on with the memory that was given back: left out.     *)
TtyOpens ==
    /\ ~ttyOpen /\ ttyOpen' = TRUE /\ ttyCanon' = TRUE
    /\ UNCHANGED <<ttyLine, ttyMeant, ttyCin, ttyHandlers, ttyRunning, ttyReader, ttyExpect, ttyPast>>

TtyCloses ==
    /\ ttyOpen /\ ttyHandlers = <<>> /\ \A t \in TtyReaders : ttyReader[t].pc = "out"
    /\ ttyOpen' = FALSE /\ ttyCanon' = TRUE /\ ttyLine' = <<>> /\ ttyMeant' = <<>> /\ ttyCin' = EmptyRing
    /\ ttyReader' = [t \in TtyReaders |-> NotReading] /\ ttyExpect' = <<>> /\ ttyPast' = {}
    /\ UNCHANGED <<ttyHandlers, ttyRunning>>

(* tty_ioctl(TCSETS), by a task that does not read.                         *)
TtySetRaw ==
    /\ ttyOpen /\ ttyCanon /\ \A t \in TtyReaders : ttyReader[t].pc = "out"
    /\ ttyCanon' = FALSE
    /\ UNCHANGED <<ttyOpen, ttyLine, ttyMeant, ttyCin, ttyHandlers, ttyRunning, ttyReader, ttyExpect, ttyPast>>

ReaderGoes(t, r) ==
    /\ ttyReader' = [ttyReader EXCEPT ![t] = r]
    /\ UNCHANGED <<ttyOpen, ttyCanon, ttyLine, ttyMeant, ttyHandlers, ttyRunning, ttyPast>>

(* The end of tty_read; what it returned is kept.                           *)
Returned(r) == [r EXCEPT !.pc = "out", !.size = 0]

(* A task that was made AWAKEN in some earlier sleep, by a signal without a
   handler, still is.                                                       *)
TtyRead(t, size) ==
    /\ ttyOpen /\ ttyReader[t].pc = "out"
    /\ \E awaken \in BOOLEAN :
          ReaderGoes(t, [pc |-> "test", size |-> size, got |-> 0, woken |-> "no", awaken |-> awaken])
    /\ UNCHANGED <<ttyCin, ttyExpect>>

(* Only TASK_RUNNING sleeps.  TASK_EXITING does not run: task_exit has no end. *)
ReadTest(t) ==
    LET r == ttyReader[t] IN
    /\ r.pc = "test"
    /\ ReaderGoes(t, CASE r.got = r.size -> Returned(r)
                       [] r.got < r.size /\ RbEmpty(ttyCin) /\ ~r.awaken -> [r EXCEPT !.pc = "window"]
                       [] r.got < r.size /\ RbEmpty(ttyCin) /\ r.awaken ->
                              [r EXCEPT !.pc = "awake", !.woken = "awaken"]
                       [] OTHER -> [r EXCEPT !.pc = "get"])
    /\ UNCHANGED <<ttyCin, ttyExpect>>

ReadSleep(t) ==
    /\ ttyReader[t].pc = "window"
    /\ ReaderGoes(t, [ttyReader[t] EXCEPT !.pc = "sleep"])
    /\ UNCHANGED <<ttyCin, ttyExpect>>

(* process_signals, in another task: somebody has sent the reader a signal. *)
ReaderSignalled(t) ==
    /\ ttyReader[t].pc = "sleep"
    /\ ReaderGoes(t, [ttyReader[t] EXCEPT !.pc = "signalled"])
    /\ UNCHANGED <<ttyCin, ttyExpect>>

(* ... and in the reader, when it is scheduled.  An ignored signal, or one whose
   default is a line on the console, leaves it AWAKEN; a handler is called, and
   signal_handler_return puts it to sleep again.                            *)
ReaderSignal(t) ==
    LET r == ttyReader[t] IN
    /\ \/ r.pc = "signalled" /\ ReaderGoes(t, [r EXCEPT !.pc = "awake", !.woken = "signal", !.awaken = TRUE])
       \/ r.pc = "signalled" /\ ReaderGoes(t, [r EXCEPT !.pc = "handler"])
       \/ r.pc = "handler" /\ ReaderGoes(t, [r EXCEPT !.pc = "sleep"])
    /\ UNCHANGED <<ttyCin, ttyExpect>>

(* A signal that ends the task, after any switch to it: task_exit.          *)
ReaderKilled(t) ==
    /\ ttyReader[t].pc \notin {"out", "sleep"}
    /\ ReaderGoes(t, NotReading)
    /\ UNCHANGED <<ttyCin, ttyExpect>>

(* Still nothing: the end of the file, or of the task.                      *)
ReadAwake(t) ==
    /\ ttyReader[t].pc = "awake"
    /\ ReaderGoes(t, IF RbEmpty(ttyCin) THEN Returned(ttyReader[t]) ELSE [ttyReader[t] EXCEPT !.pc = "get"])
    /\ UNCHANGED <<ttyCin, ttyExpect>>

ReadGet(t) ==
    LET c == RbFirst(ttyCin)
        r == [ttyReader[t] EXCEPT !.got = @ + 1, !.woken = "no"]
    IN /\ ttyReader[t].pc = "get"
       /\ ttyCin' = RbGet(ttyCin)
       /\ ttyExpect' = IF ttyExpect = <<>> THEN <<>> ELSE Tail(ttyExpect)
       /\ ReaderGoes(t, IF c = "NL" \/ ~ttyCanon THEN Returned(r) ELSE [r EXCEPT !.pc = "test"])

(* What went wrong with the characters is not followed any further.         *)
TtyNext ==
    /\ ttyPast \cap {"raced", "overrun"} = {}
    /\ \/ \E key \in Keys : TtyIn(key)
       \/ \E k \in DOMAIN ttyHandlers : HandlerPuts(k) \/ HandlerEnds(k)
       \/ /\ ttyRunning = 0
          /\ \/ TtyOpens \/ TtyCloses \/ TtySetRaw
             \/ \E t \in TtyReaders :
                    \/ \E size \in ReadSizes : TtyRead(t, size)
                    \/ ReadTest(t) \/ ReadSleep(t) \/ ReadAwake(t) \/ ReadGet(t)
                    \/ ReaderSignalled(t) \/ ReaderSignal(t) \/ ReaderKilled(t)

TtySpec == TtyInit /\ [][TtyNext]_ttyVars

-----------------------------------------------------------------------------
TtyTypeOK ==
    /\ ttyOpen \in BOOLEAN /\ ttyCanon \in BOOLEAN
    /\ ttyLine \in BoundedSeq(TtyChars, TTY_LN_BUF_SIZE - 1)
    /\ ttyCin.head \in 0..(TtyWord - 1) /\ ttyCin.tail \in 0..(TtyWord - 1)
    /\ ttyRunning \in 0..Len(ttyHandlers) /\ Len(ttyHandlers) <= MaxHandlers
    /\ \A t \in TtyReaders : ttyReader[t].pc \in ReaderAt
    /\ ttyPast \subseteq TtyFlaws

(* The characters of the ring, then those that handlers have yet to put.    *)
InRing == [k \in 1..RbNumChars(ttyCin) |-> ttyCin.buf[(ttyCin.tail + k - 1) % TTY_IN_BUF_SIZE]]
ToCome ==
    IF ttyHandlers = <<>> THEN <<>>
    ELSE LET h == ttyHandlers[1] IN
         SubSeq(ttyLine, h.at, Len(ttyLine)) \o
         (IF h.ends /\ h.at # TTY_LN_BUF_SIZE + 1 THEN <<h.key>> ELSE <<>>)

(* Readers get the lines that were typed, as they were edited, once and in order,
   also when a line does not fit into the ring and the handler is suspended in
   the middle of it: unless a key came then, or the ring was overrun.       *)
TtyDelivers == ttyPast \cap {"raced", "overrun"} = {} => InRing \o ToCome = ttyExpect

(* A reader does not sleep in tty_read beside a line, or, without ICANON, a
   character: unless the wakeup came between its test and sleep_on, or while a
   signal had made it AWAKEN, whose handler puts it to sleep again.         *)
TtyReaderWoken ==
    ttyPast = {} /\ ttyHandlers = <<>> =>
        \A t \in TtyReaders : ttyReader[t].pc = "sleep" =>
            IF ttyCanon THEN ~Contains(InRing, "NL") ELSE InRing = <<>>

(* read() says end of file, with nothing, only when it was typed, or with a
   signal that has no handler.  A task that is still AWAKEN from a signal in an
   earlier sleep does not sleep, so its read says end of file too
   (tty.c:277): the exception of the reason "awaken".                       *)
TtyEofTyped ==
    \A t \in TtyReaders : ttyReader[t].pc = "out" /\ ttyReader[t].got = 0 => ttyReader[t].woken # "input"

(* tty.c between keys, interrupts, signals and readers: what was typed is
   delivered whole and in order, readers are woken for it, and none that slept
   until it came finds nothing; each but for the exceptions it states.      *)
TtySafety ==
    /\ TtyTypeOK
    /\ TtyDelivers
    /\ TtyReaderWoken
    /\ TtyEofTyped
=============================================================================
