-------------------------------- MODULE Kbd --------------------------------
(***************************************************************************)
(* The keyboard (kbd.c): kbd_handler gives the terminal the characters of  *)
(* kbd_getc until there are none.  tty_in may switch tasks (Tty), so that  *)
(* a call of the handler is suspended and the interrupt of the next key    *)
(* runs another one.                                                       *)
(*                                                                         *)
(* r and w are 8 bits wide and kbd_getc compares them: after a wrap what   *)
(* was written is not found.  Behaviours end before it.                    *)
(***************************************************************************)
EXTENDS Naturals, Integers, Sequences

CONSTANTS
    KBD_BUF_OUT_SZ,
    KbdWord,        \* 2^8
    MaxScanCodes    \* bound of the codes in the controller

(* The longest escape sequence has three characters behind ESC.             *)
ASSUME KbdAssumption ==
    KBD_BUF_OUT_SZ \in Nat /\ KBD_BUF_OUT_SZ >= 3 /\ KbdWord \in Nat /\ MaxScanCodes \in Nat

VARIABLES
    kbd_stat,   \* modifiers
    kbd_out,    \* [r, w, buf]
    kbdPort,    \* codes that inb(0x60) has yet to give
    kbdCalls,   \* calls of kbd_handler that have not returned
    kbdHeld,    \* modifiers as the user sees them (history)
    kbdMeant    \* characters that were typed and not yet given on (history)

kbdVars == <<kbd_stat, kbd_out, kbdPort, kbdCalls, kbdHeld, kbdMeant>>

Modifiers == {"SHIFT", "CTRL", "CAPS"}
Escapes == [UP |-> <<"[", "A">>, PGUP |-> <<"[", "5", "~">>]
ScanCodes == {"shift", "shift up", "ctrl", "ctrl up", "caps", "a", "1", "any up", "UP", "PGUP"}

KbdInit ==
    /\ kbd_stat = {} /\ kbd_out = [r |-> 0, w |-> 0, buf |-> [k \in 0..(KBD_BUF_OUT_SZ - 1) |-> "["]]
    /\ kbdPort = <<>> /\ kbdCalls = 0 /\ kbdHeld = {} /\ kbdMeant = <<>>

-----------------------------------------------------------------------------
(* The modifiers after a code.                                              *)
StatAfter(stat, code) ==
    CASE code = "shift" -> stat \cup {"SHIFT"}
      [] code = "shift up" -> stat \ {"SHIFT"}
      [] code = "ctrl" -> stat \cup {"CTRL"}
      [] code = "ctrl up" -> stat \ {"CTRL"}
      [] code = "caps" -> IF "CAPS" \in stat THEN stat \ {"CAPS"} ELSE stat \cup {"CAPS"}
      [] OTHER -> stat

(* kbd_map, kbd_map_shift and what CTRL and caps lock make of them; caps lock
   is for letters, and CTRL gives nothing for what is no letter.            *)
CharOf(stat, code) ==
    CASE code = "a" -> <<IF "SHIFT" \in stat THEN "A" ELSE IF "CTRL" \in stat THEN "^A"
                         ELSE IF "CAPS" \in stat THEN "A" ELSE "a">>
      [] code = "1" -> IF "SHIFT" \in stat THEN <<"!">> ELSE IF "CTRL" \in stat THEN <<>> ELSE <<"1">>
      [] OTHER -> <<>>

(* All the characters of a key.                                             *)
KeyChars(stat, code) ==
    IF code \in DOMAIN Escapes THEN <<"ESC">> \o Escapes[code] ELSE CharOf(stat, code)

(* Faulty variant: the codes are read first.                                *)
OutFirstIdle(out) == out.r < out.w /\ kbdPort = <<>>

(* There are characters of an escape sequence.                              *)
OutFirst(out) == out.r < out.w

(* kbd_wbuf: as much as there is room for.                                  *)
Wbuf(out, cs) ==
    LET room == KBD_BUF_OUT_SZ - (out.w - out.r)
        n == IF Len(cs) <= room THEN Len(cs) ELSE room
        place(k) == (k - out.w) % KBD_BUF_OUT_SZ
    IN [r |-> out.r, w |-> out.w + n,
        buf |-> [k \in DOMAIN out.buf |-> IF place(k) < n THEN cs[place(k) + 1] ELSE out.buf[k]]]

(* kbd_getc and, for what is greater than 0, tty_in; anything else is the end of
   the call.  kbd_getc is atomic, and so is the beginning of tty_in.        *)
Gives == kbdMeant' = (IF kbdMeant = <<>> THEN <<>> ELSE Tail(kbdMeant)) /\ UNCHANGED kbdCalls
CallEnds == kbdCalls' = kbdCalls - 1 /\ UNCHANGED kbdMeant

KbdHandlerStep ==
    /\ kbdCalls > 0
    /\ UNCHANGED kbdHeld
    /\ \/ /\ OutFirst(kbd_out)
          /\ Gives
          /\ kbd_out' = [kbd_out EXCEPT !.r = @ + 1]
          /\ UNCHANGED <<kbd_stat, kbdPort>>
       \/ /\ ~OutFirst(kbd_out) /\ kbdPort = <<>>
          /\ CallEnds /\ UNCHANGED <<kbd_stat, kbd_out, kbdPort>>
       \/ /\ ~OutFirst(kbd_out) /\ kbdPort # <<>>
          /\ LET code == Head(kbdPort) IN
                /\ kbd_stat' = StatAfter(kbd_stat, code)
                /\ IF code \in DOMAIN Escapes
                   THEN /\ kbd_out.w + Len(Escapes[code]) < KbdWord
                        /\ Gives /\ kbd_out' = Wbuf(kbd_out, Escapes[code])
                   ELSE /\ IF CharOf(kbd_stat, code) = <<>> THEN CallEnds ELSE Gives
                        /\ UNCHANGED kbd_out
          /\ kbdPort' = Tail(kbdPort)

(* A key goes down or up, and the interrupt comes.  One of two shift keys that
   are held clears the bit when it goes up: the user has one.               *)
KeyEvent(code) ==
    /\ Len(kbdPort) < MaxScanCodes /\ kbdCalls <= MaxScanCodes
    /\ kbdPort' = Append(kbdPort, code) /\ kbdCalls' = kbdCalls + 1
    /\ kbdHeld' = StatAfter(kbdHeld, code)
    /\ kbdMeant' = kbdMeant \o KeyChars(kbdHeld, code)
    /\ UNCHANGED <<kbd_stat, kbd_out>>

KbdNext == KbdHandlerStep \/ \E code \in ScanCodes : KeyEvent(code)

KbdSpec == KbdInit /\ [][KbdNext]_kbdVars

-----------------------------------------------------------------------------
OutChars == [k \in 1..(kbd_out.w - kbd_out.r) |-> kbd_out.buf[(kbd_out.r + k - 1) % KBD_BUF_OUT_SZ]]

(* What the codes in the controller will be: the modifiers after the first i of
   them, and all that is given on until then.                               *)
PortStats[i \in 0..Len(kbdPort)] ==
    IF i = 0 THEN kbd_stat ELSE StatAfter(PortStats[i - 1], kbdPort[i])
PortChars[i \in 0..Len(kbdPort)] ==
    IF i = 0 THEN OutChars ELSE PortChars[i - 1] \o KeyChars(PortStats[i - 1], kbdPort[i])

(* The terminal gets what was typed, with the modifiers that were held then, in
   order, and the characters of an escape sequence one after the other, however
   many calls of the handler are suspended in it.                           *)
KbdDelivers == PortChars[Len(kbdPort)] = kbdMeant

(* No part of an escape sequence waits for the next key: there is a call that
   will give it on; and kbd_out, which kbd_wbuf would cut off, never overflows. *)
KbdDrained ==
    /\ kbd_out.w - kbd_out.r <= KBD_BUF_OUT_SZ
    /\ (kbd_out.r < kbd_out.w \/ kbdPort # <<>>) => kbdCalls > 0

(* The terminal gets what was typed, once and in order, however many calls of the
   handler are suspended in it, and nothing waits for the next key (kbd.c). *)
KbdSafety ==
    /\ KbdDelivers
    /\ KbdDrained
=============================================================================
