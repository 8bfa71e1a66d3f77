-------------------------------- MODULE Crt --------------------------------
(***************************************************************************)
(* Output of a terminal on the screen: tty_oput (tty.c), the machine that  *)
(* follows escape sequences (ansi.c) and crt_putc (crt.c).                 *)
(*                                                                         *)
(* Colours, the shape of the cursor and the scroll register are left out;  *)
(* of what is printed only CrtGlyphs are told apart.  x and y are 16 bits  *)
(* wide.                                                                   *)
(***************************************************************************)
EXTENDS Naturals, Integers, Sequences

CONSTANTS
    CRT_COLS, CRT_ROWS,
    TAB_SPACES,
    CrtWord,            \* 2^16
    ANSI_MAX_CHARS,
    CrtGlyphs           \* letters that are no command

ASSUME CrtAssumption ==
    /\ CRT_COLS \in Nat \ {0, 1} /\ CRT_ROWS \in Nat \ {0} /\ TAB_SPACES \in Nat \ {0}
    /\ ANSI_MAX_CHARS \in Nat
    /\ CrtWord \in Nat /\ CrtWord > (CRT_ROWS + 1) * (CRT_COLS + TAB_SPACES)
    /\ CrtGlyphs \cap {"LF", "CR", "BS", "TAB", "ESC", "[", "?", "SEMI", "1", "2"} = {}

VARIABLES
    crt,        \* [x, y, buf, halt], and who wrote outside of buf (history)
    astat,      \* [stat, n1, n2, cnt]
    crtText,    \* glyphs printed in a row, a line of them at most (history)
    ansiSeq,    \* digits and semicolon of the escape sequence (history)
    ansiStale   \* numbers of a sequence that was given up are left (history)

crtVars == <<crt, astat, crtText, ansiSeq, ansiStale>>

Digits == {"1", "2"}
Digit == [d \in Digits |-> IF d = "1" THEN 1 ELSE 2]
Finals == CrtGlyphs \cup {"A", "B", "C", "D", "H", "K", "O", "c"}
CrtChars == {"LF", "CR", "BS", "TAB", "ESC", "[", "?", "SEMI"} \cup Digits \cup Finals

Cells == 0..(CRT_ROWS * CRT_COLS)
Blank == " "
Shown(c) == IF c \in CrtGlyphs THEN c ELSE "+"

-----------------------------------------------------------------------------
(* ansi.c.                                                                  *)
NoAnsi == [stat |-> "NONE", n1 |-> 0, n2 |-> 0, cnt |-> 0]

(* The machine is reset behind a sequence, and in one that is too long.     *)
AnsiBegin(a) ==
    IF a.stat = "FIN" \/ a.cnt + 1 > ANSI_MAX_CHARS THEN NoAnsi ELSE [a EXCEPT !.cnt = @ + 1]

(* The rest of ansi_stat_switch.                                            *)
AnsiMove(a, c) ==
    CASE a.stat = "NONE" /\ c = "ESC" -> [a EXCEPT !.stat = "ESC"]
      [] a.stat = "ESC" /\ c \in {"[", "O"} -> [a EXCEPT !.stat = "BRA"]
      [] a.stat = "ESC" /\ c = "c" -> [a EXCEPT !.stat = "FIN"]
      [] a.stat = "BRA" /\ c \in Digits -> [a EXCEPT !.stat = "NUM1", !.n1 = Digit[c]]
      [] a.stat = "BRA" /\ c = "?" -> [a EXCEPT !.stat = "NUM1"]
      [] a.stat = "NUM1" /\ c \in Digits -> [a EXCEPT !.n1 = @ * 10 + Digit[c]]
      [] a.stat = "NUM1" /\ c = "SEMI" -> [a EXCEPT !.stat = "NUM2", !.n2 = 0]
      [] a.stat = "NUM2" /\ c \in Digits -> [a EXCEPT !.n2 = @ * 10 + Digit[c]]
      [] a.stat \in {"BRA", "NUM1", "NUM2"} /\ c \in Finals -> [a EXCEPT !.stat = "FIN"]
      [] OTHER -> [a EXCEPT !.stat = "NONE", !.cnt = 0]

(* ansi_stat_switch.                                                        *)
AnsiSwitch(st, c) == AnsiMove(AnsiBegin(st), c)

-----------------------------------------------------------------------------
(* crt.c.                                                                   *)
CrtPos(s) == CRT_COLS * s.y + s.x
Outside(who, cells) == IF cells \subseteq Cells THEN {} ELSE {who}

Erased(s, cells) ==
    [s EXCEPT !.buf = [k \in Cells |-> IF k \in cells THEN Blank ELSE @[k]],
              !.outside = @ \cup Outside("erase", cells)]

(* crt_set_cursor_xy, with its assertions.                                  *)
SetCursor(s, x, y) ==
    IF (y % CrtWord) < CRT_ROWS /\ (x % CrtWord) < CRT_COLS
    THEN [s EXCEPT !.x = x % CrtWord, !.y = y % CrtWord]
    ELSE [s EXCEPT !.halt = TRUE]

(* MIN_ONE: also of n2 when n1 is missing, and only then.                   *)
MinOne(a, n) == IF a.n1 = 0 THEN 1 ELSE n

(* crt_handle_ansi.  Erasing up to the cursor takes x as it is: behind the end of
   a line the next row is erased too, and from 65535 all the memory that 16 bits
   reach.                                                                   *)
HandleAnsi(s, a, c) ==
    LET n == MinOne(a, a.n1)
        Row(from, to) == {CRT_COLS * s.y + k : k \in from..to}
    IN CASE c = "c" -> [Erased(s, 0..(CRT_ROWS * CRT_COLS - 1)) EXCEPT !.x = 0, !.y = 0]
         [] c = "A" -> SetCursor(s, s.x, s.y - n)
         [] c = "B" -> SetCursor(s, s.x, s.y + n)
         [] c = "C" -> SetCursor(s, s.x + n, s.y)
         [] c = "D" -> SetCursor(s, s.x - n, s.y)
         [] c = "K" -> Erased(s, CASE a.n1 = 1 -> Row(0, s.x - 1)
                                   [] a.n1 = 2 -> Row(0, CRT_COLS - 1)
                                   [] OTHER -> Row(s.x, CRT_COLS - 1))
         [] c = "H" -> SetCursor(s, MinOne(a, a.n2) - 1, n - 1)
         [] OTHER -> s

(* crt_lf: the rows move up by one.                                         *)
ScrolledUp(s) ==
    [s EXCEPT !.y = @ - 1,
              !.buf = [k \in Cells |-> IF k < CRT_COLS * (s.y - 1) THEN @[k + CRT_COLS]
                                       ELSE IF k < CRT_COLS * s.y THEN Blank ELSE @[k]]]

NextLine(s) ==
    LET t == [s EXCEPT !.y = @ + 1]
    IN IF CrtPos(t) >= CRT_ROWS * CRT_COLS THEN ScrolledUp(t) ELSE t

(* Faulty variant: the text goes on in the same line.                       *)
WrappedSame(s) == IF s.x > CRT_COLS THEN [s EXCEPT !.x = @ % CRT_COLS] ELSE s

(* A line that is full, and one more, is continued in the next one.         *)
Wrapped(s) == IF s.x > CRT_COLS THEN NextLine([s EXCEPT !.x = @ % CRT_COLS]) ELSE s

(* The rest of crt_putc.                                                    *)
Printed(s, c) ==
    CASE c = "LF" -> NextLine(s)
      [] c = "CR" -> [s EXCEPT !.x = 0]
      [] c = "BS" -> IF s.x = 0 /\ s.y > 0 THEN [s EXCEPT !.x = CRT_COLS - 1, !.y = @ - 1]
                     ELSE [s EXCEPT !.x = (@ - 1) % CrtWord]
      [] c = "TAB" -> [s EXCEPT !.x = ((@ + TAB_SPACES) \div TAB_SPACES) * TAB_SPACES]
      [] OTHER -> [s EXCEPT !.buf[CrtPos(s)] = Shown(c), !.x = @ + 1,
                            !.outside = @ \cup Outside("print", {CrtPos(s)})]

(* The character that was written below the screen is lost with the line feed. *)
Fell(s) == s.x > CRT_COLS /\ s.y = CRT_ROWS - 1

(* crt_putc.                                                                *)
CrtPutc(c) ==
    LET a == AnsiSwitch(astat, c)
        done == Printed(Wrapped(crt), c)
    IN /\ astat' = a
       /\ ansiSeq' = IF a.stat \in {"ESC", "NONE"} THEN <<>>
                     ELSE IF c \in Digits \cup {"SEMI"} THEN Append(ansiSeq, c) ELSE ansiSeq
       /\ ansiStale' = (a.stat = "NONE" /\ (a.n1 # 0 \/ a.n2 # 0))
       /\ IF a.stat # "NONE"
          THEN /\ crt' = IF a.stat = "FIN" THEN HandleAnsi(crt, a, c) ELSE crt
               /\ crtText' = <<>>
          ELSE /\ crt' = done
               /\ crtText' =
                    IF c \in {"LF", "CR", "BS", "TAB"} THEN <<>>
                    ELSE LET text == IF Fell(crt) THEN <<>> ELSE crtText
                         IN Append(IF Len(text) = CRT_COLS THEN Tail(text) ELSE text, Shown(c))

(* crt_init finds the cursor where the loader left it.                      *)
CrtInit ==
    /\ \E x \in 0..(CRT_COLS - 1), y \in 0..(CRT_ROWS - 1) :
           crt = [x |-> x, y |-> y, buf |-> [k \in Cells |-> Blank], halt |-> FALSE, outside |-> {}]
    /\ astat = NoAnsi /\ crtText = <<>> /\ ansiSeq = <<>> /\ ansiStale = FALSE

(* console_putc, and tty_oput, for which '\n' is preceded by '\r'.  What the
   numbers of a sequence that was given up do to the next one is not followed. *)
CrtNext == ~crt.halt /\ ~ansiStale /\ \E c \in CrtChars : CrtPutc(c)

CrtSpec == CrtInit /\ [][CrtNext]_crtVars

-----------------------------------------------------------------------------
(* Every character, tab, backspace and cursor movement leaves the cursor on the
   screen, or behind the end of a line as far as the next character makes good. *)
CrtTypeOK ==
    /\ crt.y \in 0..(CRT_ROWS - 1)
    /\ crt.x \in 0..(CRT_COLS + TAB_SPACES) \/ (crt.x = CrtWord - 1 /\ crt.y = 0)
    /\ astat.cnt \in 0..ANSI_MAX_CHARS

(* No text is written outside of crt.buf and the cell that follows it.  One
   command is, ESC [ 1 K: from behind the last column of the last row, or when
   a backspace at (0, 0) has made x 65535 (crt.c:162).                      *)
CrtInBuffer == crt.outside \subseteq {"erase"}

(* Text that is printed in one go can be read in front of the cursor, across the
   ends of lines: but for the character that falls below the screen.        *)
CrtTextKept ==
    ~crt.halt => \A k \in 1..Len(crtText) : crt.buf[CrtPos(crt) - k] = crtText[Len(crtText) + 1 - k]

(* The number that digits stand for.                                        *)
NumberOf(cs) ==
    LET n[k \in 0..Len(cs)] == IF k = 0 THEN 0 ELSE n[k - 1] * 10 + Digit[cs[k]] IN n[Len(cs)]

Semicolons == {k \in 1..Len(ansiSeq) : ansiSeq[k] = "SEMI"}

(* A complete sequence has the numbers that were written in it, up to and behind a
   semicolon, none from before.                                             *)
AnsiRight ==
    astat.stat = "FIN" =>
        /\ Semicolons = {} => astat.n1 = NumberOf(ansiSeq) /\ astat.n2 = 0
        /\ \A k \in Semicolons :
              /\ astat.n1 = NumberOf(SubSeq(ansiSeq, 1, k - 1))
              /\ astat.n2 = NumberOf(SubSeq(ansiSeq, k + 1, Len(ansiSeq)))

(* The screen shows the text that was written, wrapped, tabbed and scrolled, text
   stays inside it, and escape sequences get the numbers that were written
   (crt.c, ansi.c).                                                         *)
CrtSafety ==
    /\ CrtTypeOK
    /\ CrtInBuffer
    /\ CrtTextKept
    /\ AnsiRight
=============================================================================
