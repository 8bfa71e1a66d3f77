----------------------------- MODULE LineProofs -----------------------------
(***************************************************************************)
(* The lines to a user: the terminal, the serial line of the remote        *)
(* debugger, the keyboard, and the screen.                                 *)
(*                                                                         *)
(* A terminal with one reader, for every size of the ring, of the line and *)
(* of the words that count the ring's positions: as long as no key comes   *)
(* while a handler is suspended and the ring is not overrun, what was      *)
(* typed is delivered once and in order, and the reader is woken for it.   *)
(***************************************************************************)
EXTENDS Tty, Kdbg, Kbd, Crt, NatLemmas, SequenceTheorems

RingPos == 0..(TtyWord - 1)
RingPlaces == 0..(TTY_IN_BUF_SIZE - 1)
RingRecord == [head : RingPos, tail : RingPos, buf : [RingPlaces -> RingChars]]

(* The characters of a ring, first one first: InRing.                       *)
RingSeq(rb) == [k \in 1..RbNumChars(rb) |-> rb.buf[(rb.tail + k - 1) % TTY_IN_BUF_SIZE]]

LEMMA SizeFacts ==
  /\ TTY_IN_BUF_SIZE \in Nat /\ TTY_IN_BUF_SIZE > 0
  /\ TtyWord \in Nat /\ TtyWord > 0 /\ TTY_IN_BUF_SIZE < TtyWord
  /\ TtyWord % TTY_IN_BUF_SIZE = 0
  /\ TTY_LN_BUF_SIZE \in Nat /\ TTY_LN_BUF_SIZE > 1
  BY TtyAssumption

-----------------------------------------------------------------------------
(* The ring.                                                                *)

LEMMA NumFacts ==
  ASSUME NEW rb \in RingRecord
  PROVE  /\ RbNumChars(rb) = IF rb.tail <= rb.head THEN rb.head - rb.tail
                             ELSE rb.head - rb.tail + TtyWord
         /\ RbNumChars(rb) \in Nat
         /\ RbEmpty(rb) <=> RbNumChars(rb) = 0
<1>1. rb.head \in RingPos /\ rb.tail \in RingPos
  BY DEF RingRecord
<1>2. CASE rb.tail <= rb.head
  <2>1. rb.head + TtyWord - rb.tail \in TtyWord..(2 * TtyWord - 1)
    BY <1>1, <1>2, SizeFacts DEF RingPos
  <2>2. \A x \in TtyWord..(2 * TtyWord - 1) : x % TtyWord = x - TtyWord
    BY SizeFacts, ModNear
  <2>3. (rb.head + TtyWord - rb.tail) % TtyWord = (rb.head + TtyWord - rb.tail) - TtyWord
    BY <2>1, <2>2, Zenon
  <2> QED BY <1>1, <1>2, <2>3, SizeFacts DEF RbNumChars, RbEmpty, RingPos
<1>3. CASE ~(rb.tail <= rb.head)
  <2>1. rb.head + TtyWord - rb.tail \in 0..(TtyWord - 1)
    BY <1>1, <1>3, SizeFacts DEF RingPos
  <2>2. (rb.head + TtyWord - rb.tail) % TtyWord = rb.head + TtyWord - rb.tail
    BY <2>1, SizeFacts, ModNear
  <2> QED BY <1>1, <1>3, <2>2, SizeFacts DEF RbNumChars, RbEmpty, RingPos
<1> QED BY <1>2, <1>3

LEMMA NextPos ==
  ASSUME NEW a \in RingPos
  PROVE  /\ (a + 1) % TtyWord \in RingPos
         /\ (a + 1) % TtyWord = IF a + 1 < TtyWord THEN a + 1 ELSE 0
<1>1. CASE a + 1 < TtyWord
  BY <1>1, SizeFacts, ModNear DEF RingPos
<1>2. CASE ~(a + 1 < TtyWord)
  <2>1. a + 1 = TtyWord /\ a + 1 \in TtyWord..(2 * TtyWord - 1)
    BY <1>2, SizeFacts DEF RingPos
  <2>2. \A x \in TtyWord..(2 * TtyWord - 1) : x % TtyWord = x - TtyWord
    BY SizeFacts, ModNear
  <2>3. (a + 1) % TtyWord = (a + 1) - TtyWord
    BY <2>1, <2>2, Zenon
  <2> QED BY <2>1, <2>3, SizeFacts DEF RingPos
<1> QED BY <1>1, <1>2

LEMMA PlaceInRing ==
  ASSUME NEW x \in Int PROVE x % TTY_IN_BUF_SIZE \in RingPlaces
  BY Quotient, SizeFacts DEF RingPlaces

LEMMA RingSeqFacts ==
  ASSUME NEW rb \in RingRecord
  PROVE  /\ RingSeq(rb) \in Seq(RingChars) /\ Len(RingSeq(rb)) = RbNumChars(rb)
         /\ \A k \in 1..RbNumChars(rb) :
                RingSeq(rb)[k] = rb.buf[(rb.tail + k - 1) % TTY_IN_BUF_SIZE]
<1>1. RbNumChars(rb) \in Nat /\ rb.tail \in RingPos /\ rb.buf \in [RingPlaces -> RingChars]
  BY NumFacts DEF RingRecord
<1>2. ASSUME NEW k \in 1..RbNumChars(rb) PROVE rb.buf[(rb.tail + k - 1) % TTY_IN_BUF_SIZE] \in RingChars
  <2>1. rb.tail + k - 1 \in Int
    BY <1>1, SizeFacts DEF RingPos
  <2> QED BY <1>1, <2>1, PlaceInRing
<1> QED BY <1>1, <1>2 DEF RingSeq

(* A character put into a ring that is not full is the last of it.          *)
LEMMA PutAppends ==
  ASSUME NEW rb \in RingRecord, NEW c \in RingChars
  PROVE  /\ RbPut(rb, c) \in RingRecord
         /\ RbNumChars(rb) < TTY_IN_BUF_SIZE =>
                /\ RbNumChars(RbPut(rb, c)) = RbNumChars(rb) + 1
                /\ RingSeq(RbPut(rb, c)) = Append(RingSeq(rb), c)
<1> DEFINE place == rb.head % TTY_IN_BUF_SIZE
           n == RbNumChars(rb)
           new == RbPut(rb, c)
<1>1. /\ rb.head \in RingPos /\ rb.tail \in RingPos /\ rb.buf \in [RingPlaces -> RingChars]
      /\ rb.head \in Int /\ rb.tail \in Int
  BY SizeFacts DEF RingRecord, RingPos
<1>2. place \in RingPlaces
  BY <1>1, PlaceInRing
<1>3. /\ new = [head |-> (rb.head + 1) % TtyWord, tail |-> rb.tail,
                buf |-> [rb.buf EXCEPT ![place] = c]]
  <2>1. rb = [head |-> rb.head, tail |-> rb.tail, buf |-> rb.buf]
    BY DEF RingRecord
  <2>2. new = [[rb EXCEPT !.buf = [@ EXCEPT ![place] = c]] EXCEPT !.head = (@ + 1) % TtyWord]
    BY DEF RbPut
  <2> QED BY <2>1, <2>2
<1> HIDE DEF new
<1>4. new \in RingRecord
  BY <1>1, <1>2, <1>3, NextPos DEF RingRecord
<1>5. ASSUME n < TTY_IN_BUF_SIZE PROVE RbNumChars(new) = n + 1
  <2>1. new.head = (IF rb.head + 1 < TtyWord THEN rb.head + 1 ELSE 0) /\ new.tail = rb.tail
    BY <1>1, <1>3, NextPos
  <2>2. RbNumChars(new) = IF new.tail <= new.head THEN new.head - new.tail
                          ELSE new.head - new.tail + TtyWord
    BY <1>4, NumFacts
  <2>3. n = IF rb.tail <= rb.head THEN rb.head - rb.tail ELSE rb.head - rb.tail + TtyWord
    BY NumFacts
  <2> HIDE DEF n
  <2> QED BY <1>1, <1>5, <2>1, <2>2, <2>3, SizeFacts DEF RingPos
<1>6. ASSUME n < TTY_IN_BUF_SIZE PROVE RingSeq(new) = Append(RingSeq(rb), c)
  <2>1. n \in Nat /\ (rb.tail + n = rb.head \/ rb.tail + n = rb.head + TtyWord)
    BY <1>1, NumFacts, SizeFacts DEF RingPos
  <2> HIDE DEF n
  <2>2. (rb.head + TtyWord) % TTY_IN_BUF_SIZE = place
    BY <1>1, SizeFacts, ModPeriod
  <2>3. (rb.tail + n) % TTY_IN_BUF_SIZE = place
    BY <2>1, <2>2
  <2>4. ASSUME NEW k \in 1..n
        PROVE  /\ (rb.tail + k - 1) % TTY_IN_BUF_SIZE \in RingPlaces
               /\ (rb.tail + k - 1) % TTY_IN_BUF_SIZE # place
    <3>1. rb.tail + k - 1 \in Int /\ rb.tail + n \in Int
      BY <1>1, <2>1
    <3>2. rb.tail + k - 1 < rb.tail + n /\ rb.tail + n < (rb.tail + k - 1) + TTY_IN_BUF_SIZE
      BY <1>1, <2>1, <1>6, SizeFacts
    <3> QED BY <2>3, <3>1, <3>2, PlaceInRing, ModDistinct, SizeFacts
  <2>5. /\ RingSeq(rb) \in Seq(RingChars) /\ Len(RingSeq(rb)) = n
        /\ \A k \in 1..n : RingSeq(rb)[k] = rb.buf[(rb.tail + k - 1) % TTY_IN_BUF_SIZE]
    BY RingSeqFacts DEF n
  <2>6. /\ RingSeq(new) \in Seq(RingChars) /\ Len(RingSeq(new)) = n + 1
        /\ \A k \in 1..(n + 1) : RingSeq(new)[k] = new.buf[(new.tail + k - 1) % TTY_IN_BUF_SIZE]
    BY <1>4, <1>5, <1>6, RingSeqFacts
  <2>7. new.tail = rb.tail /\ new.buf = [rb.buf EXCEPT ![place] = c]
    BY <1>3
  <2>8. ASSUME NEW k \in 1..n PROVE RingSeq(new)[k] = RingSeq(rb)[k]
    BY <1>1, <2>1, <2>4, <2>5, <2>6, <2>7
  <2>9. RingSeq(new)[n + 1] = c
    <3>1. rb.tail + (n + 1) - 1 = rb.tail + n
      BY <1>1, <2>1
    <3>2. RingSeq(new)[n + 1] = new.buf[(rb.tail + (n + 1) - 1) % TTY_IN_BUF_SIZE]
      BY <2>1, <2>6, <2>7
    <3> QED BY <1>1, <1>2, <2>3, <2>7, <3>1, <3>2
  <2> QED BY <2>1, <2>5, <2>6, <2>8, <2>9
<1> QED BY <1>4, <1>5, <1>6 DEF new

(* What is got from a ring that is not empty is the first of it.            *)
LEMMA GetTakes ==
  ASSUME NEW rb \in RingRecord
  PROVE  /\ RbGet(rb) \in RingRecord
         /\ RbNumChars(rb) > 0 =>
                /\ RbNumChars(RbGet(rb)) = RbNumChars(rb) - 1
                /\ RingSeq(rb) # <<>>
                /\ RingSeq(RbGet(rb)) = Tail(RingSeq(rb))
<1> DEFINE n == RbNumChars(rb)
           new == RbGet(rb)
<1>1. /\ rb.head \in RingPos /\ rb.tail \in RingPos /\ rb.buf \in [RingPlaces -> RingChars]
      /\ rb.head \in Int /\ rb.tail \in Int
  BY SizeFacts DEF RingRecord, RingPos
<1>2. new = [head |-> rb.head, tail |-> (rb.tail + 1) % TtyWord, buf |-> rb.buf]
  BY DEF RbGet, RingRecord
<1> HIDE DEF new
<1>3. new \in RingRecord
  BY <1>1, <1>2, NextPos DEF RingRecord
<1>4. new.tail = (IF rb.tail + 1 < TtyWord THEN rb.tail + 1 ELSE 0) /\ new.head = rb.head /\ new.buf = rb.buf
  BY <1>1, <1>2, NextPos
<1>5. ASSUME n > 0 PROVE RbNumChars(new) = n - 1
  <2>2. RbNumChars(new) = IF new.tail <= new.head THEN new.head - new.tail
                          ELSE new.head - new.tail + TtyWord
    BY <1>3, NumFacts
  <2>3. n = IF rb.tail <= rb.head THEN rb.head - rb.tail ELSE rb.head - rb.tail + TtyWord
    BY NumFacts
  <2> HIDE DEF n
  <2>4. CASE rb.tail + 1 < TtyWord
    <3>1. new.tail = rb.tail + 1 /\ new.head = rb.head
      BY <1>4, <2>4
    <3> QED BY <1>1, <1>5, <2>2, <2>3, <3>1, SizeFacts DEF RingPos
  <2>5. CASE ~(rb.tail + 1 < TtyWord)
    <3>1. rb.tail = TtyWord - 1 /\ new.tail = 0 /\ new.head = rb.head
      BY <1>1, <1>4, <2>5, SizeFacts DEF RingPos
    <3> QED BY <1>1, <1>5, <2>2, <2>3, <3>1, SizeFacts DEF RingPos
  <2> QED BY <2>4, <2>5
<1>6. ASSUME n > 0 PROVE RingSeq(rb) # <<>> /\ RingSeq(new) = Tail(RingSeq(rb))
  <2>1. n \in Nat
    BY NumFacts
  <2>5. /\ RingSeq(rb) \in Seq(RingChars) /\ Len(RingSeq(rb)) = n
        /\ \A k \in 1..n : RingSeq(rb)[k] = rb.buf[(rb.tail + k - 1) % TTY_IN_BUF_SIZE]
    BY RingSeqFacts
  <2>6. /\ RingSeq(new) \in Seq(RingChars) /\ Len(RingSeq(new)) = n - 1
        /\ \A k \in 1..(n - 1) : RingSeq(new)[k] = new.buf[(new.tail + k - 1) % TTY_IN_BUF_SIZE]
    BY <1>3, <1>5, <1>6, RingSeqFacts
  <2> HIDE DEF n
  <2>7. ASSUME NEW k \in 1..(n - 1) PROVE RingSeq(new)[k] = RingSeq(rb)[k + 1]
    <3>1. /\ new.tail + k - 1 \in Int /\ rb.tail + (k + 1) - 1 \in Int
          /\ new.tail + k - 1 = rb.tail + (k + 1) - 1 \/ (new.tail + k - 1) + TtyWord = rb.tail + (k + 1) - 1
      BY <1>1, <1>4, <2>1, SizeFacts DEF RingPos
    <3>2. ((new.tail + k - 1) + TtyWord) % TTY_IN_BUF_SIZE = (new.tail + k - 1) % TTY_IN_BUF_SIZE
      BY <3>1, SizeFacts, ModPeriod
    <3>3. (new.tail + k - 1) % TTY_IN_BUF_SIZE = (rb.tail + (k + 1) - 1) % TTY_IN_BUF_SIZE
      BY <3>1, <3>2
    <3>4. k + 1 \in 1..n
      BY <2>1
    <3> QED BY <1>4, <2>5, <2>6, <3>3, <3>4
  <2>8. RingSeq(rb) # <<>>
    BY <1>6, <2>5, EmptySeq
  <2> QED BY <2>1, <2>5, <2>6, <2>7, <2>8
<1> QED BY <1>3, <1>5, <1>6 DEF new

-----------------------------------------------------------------------------
(* The invariant.                                                           *)
HandlerRecord == [at : Nat, key : RingChars, ends : BOOLEAN]
ReaderRecord == [pc : ReaderAt, size : Nat, got : Nat, awaken : BOOLEAN,
                 woken : {"no", "input", "eof", "signal", "awaken"}]

(* Before tty_read's sleep, and in it.                                      *)
AtSleep == {"window", "sleep", "signalled", "handler"}

TtyShape ==
    /\ ttyOpen \in BOOLEAN /\ ttyCanon \in BOOLEAN
    /\ ttyLine \in Seq(TtyChars) /\ Len(ttyLine) <= TTY_LN_BUF_SIZE - 1
    /\ ttyMeant \in Seq(TtyChars) /\ ttyExpect \in Seq(RingChars)
    /\ ttyCin \in RingRecord
    /\ ttyHandlers \in Seq(HandlerRecord) /\ Len(ttyHandlers) <= MaxHandlers
    /\ ttyRunning \in 0..Len(ttyHandlers)
    /\ ttyReader \in [TtyReaders -> ReaderRecord]
    /\ ttyPast \subseteq TtyFlaws

(* A reader that has slept for input has got some when it returns, and wants
   some more when it waits.                                                 *)
TtyWokenRight ==
    \A t \in TtyReaders :
        /\ ttyReader[t].pc = "out" /\ ttyReader[t].got = 0 => ttyReader[t].woken # "input"
        /\ ttyReader[t].pc \in AtSleep \cup {"test"} => ttyReader[t].woken = "no"
        /\ ttyReader[t].pc = "test" => ttyReader[t].got <= ttyReader[t].size
        /\ ttyReader[t].pc \in AtSleep \cup {"awake", "get"} => ttyReader[t].got < ttyReader[t].size

TtyClean == ttyPast \cap {"raced", "overrun"} = {}

(* As long as nothing went wrong with the characters: one handler at most, whose
   line nobody edits meanwhile.                                             *)
TtyOneHandler ==
    /\ ttyHandlers = <<>> => ttyMeant = ttyLine
    /\ ttyHandlers # <<>> =>
          /\ Len(ttyHandlers) = 1 /\ ttyMeant = <<>>
          /\ \/ ttyHandlers[1].at \in 1..(Len(ttyLine) + 1)
             \/ ttyHandlers[1].ends /\ ttyHandlers[1].at = TTY_LN_BUF_SIZE + 1

(* The reader takes only what is there, and no input is a reason to wake up
   that is gone when it does.                                               *)
TtyReaderFinds ==
    \A t \in TtyReaders :
        ttyReader[t].pc = "get" \/ (ttyReader[t].pc = "awake" /\ ttyReader[t].woken = "input") =>
            RbNumChars(ttyCin) > 0

TtyNoneWaits ==
    \A t \in TtyReaders : ttyReader[t].pc \in AtSleep =>
        IF ttyCanon THEN ~Contains(RingSeq(ttyCin), "NL") ELSE RbNumChars(ttyCin) = 0

TtyCalm ==
    /\ RbNumChars(ttyCin) <= TTY_IN_BUF_SIZE
    /\ TtyOneHandler
    /\ RingSeq(ttyCin) \o ToCome = ttyExpect
    /\ TtyReaderFinds
    /\ ttyPast = {} => TtyNoneWaits

TtyInv == TtyShape /\ TtyWokenRight /\ (TtyClean => TtyCalm)

LEMMA InvTtySafety == TtyInv => TtySafety
<1> SUFFICES ASSUME TtyInv PROVE TtySafety
  OBVIOUS
<1> USE DEF TtyInv, TtyShape
<1>1. TtyTypeOK
  <2>1. ttyCin.head \in 0..(TtyWord - 1) /\ ttyCin.tail \in 0..(TtyWord - 1)
    BY DEF RingRecord, RingPos
  <2>2. \A t \in TtyReaders : ttyReader[t].pc \in ReaderAt
    BY DEF ReaderRecord
  <2>3. ttyLine \in BoundedSeq(TtyChars, TTY_LN_BUF_SIZE - 1)
    <3>1. Len(ttyLine) \in 0..(TTY_LN_BUF_SIZE - 1) /\ ttyLine \in [1..Len(ttyLine) -> TtyChars]
      BY SizeFacts, LenProperties
    <3> QED BY <3>1 DEF BoundedSeq, SeqOf
  <2> QED BY <2>1, <2>2, <2>3 DEF TtyTypeOK
<1>2. InRing = RingSeq(ttyCin)
  BY DEF InRing, RingSeq
<1>3. TtyDelivers
  BY <1>2 DEF TtyDelivers, TtyClean, TtyCalm
<1>4. TtyReaderWoken
  <2> SUFFICES ASSUME ttyPast = {}, NEW t \in TtyReaders, ttyReader[t].pc = "sleep"
               PROVE  IF ttyCanon THEN ~Contains(InRing, "NL") ELSE InRing = <<>>
    BY DEF TtyReaderWoken
  <2>1. IF ttyCanon THEN ~Contains(RingSeq(ttyCin), "NL") ELSE RbNumChars(ttyCin) = 0
    BY DEF TtyClean, TtyCalm, TtyNoneWaits, AtSleep
  <2>2. RingSeq(ttyCin) \in Seq(RingChars) /\ Len(RingSeq(ttyCin)) = RbNumChars(ttyCin)
    BY RingSeqFacts
  <2>3. RbNumChars(ttyCin) = 0 => RingSeq(ttyCin) = <<>>
    BY <2>2, EmptySeq
  <2> QED BY <1>2, <2>1, <2>3
<1>5. TtyEofTyped
  BY DEF TtyEofTyped, TtyWokenRight, AtSleep
<1> QED BY <1>1, <1>3, <1>4, <1>5 DEF TtySafety

LEMMA EmptyRingFacts ==
  EmptyRing \in RingRecord /\ RbNumChars(EmptyRing) = 0 /\ RingSeq(EmptyRing) = <<>>
<1>1. EmptyRing \in RingRecord
  BY SizeFacts DEF EmptyRing, RingRecord, RingPos, RingPlaces, RingChars
<1>2. RbNumChars(EmptyRing) = 0
  BY <1>1, NumFacts DEF EmptyRing
<1>3. RingSeq(EmptyRing) = <<>>
  BY <1>1, <1>2, RingSeqFacts, EmptySeq
<1> QED BY <1>1, <1>2, <1>3

LEMMA TtyInitInv == TtyInit => TtyInv
<1> SUFFICES ASSUME TtyInit PROVE TtyInv
  OBVIOUS
<1> USE DEF TtyInit
<1>1. EmptyRing \in RingRecord /\ RbNumChars(EmptyRing) = 0 /\ RingSeq(EmptyRing) = <<>>
  BY EmptyRingFacts
<1>2. TtyShape
  <2>1. ttyReader \in [TtyReaders -> ReaderRecord]
    BY DEF NotReading, ReaderRecord, ReaderAt
  <2>2. MaxHandlers \in Nat
    BY TtyAssumption
  <2>3. /\ ttyLine \in Seq(TtyChars) /\ Len(ttyLine) <= TTY_LN_BUF_SIZE - 1
        /\ ttyMeant \in Seq(TtyChars) /\ ttyExpect \in Seq(RingChars)
        /\ ttyHandlers \in Seq(HandlerRecord) /\ Len(ttyHandlers) <= MaxHandlers
        /\ ttyRunning \in 0..Len(ttyHandlers)
    BY <2>2, SizeFacts
  <2> QED BY <1>1, <2>1, <2>3 DEF TtyShape
<1>3. TtyWokenRight
  BY DEF TtyWokenRight, AtSleep, NotReading
<1>4. TtyCalm
  <2>1. RingSeq(ttyCin) \o ToCome = ttyExpect
    BY <1>1 DEF ToCome
  <2>2. TtyReaderFinds /\ TtyNoneWaits
    BY DEF TtyReaderFinds, TtyNoneWaits, AtSleep, NotReading
  <2> QED BY <1>1, <2>1, <2>2, SizeFacts DEF TtyCalm, TtyOneHandler
<1> QED BY <1>2, <1>3, <1>4 DEF TtyInv

-----------------------------------------------------------------------------
(* wakeup: the sleepers, and nobody else, are awake with the reason.        *)
LEMMA WokenFacts ==
  ASSUME ttyReader \in [TtyReaders -> ReaderRecord], NEW why \in {"input", "eof"}
  PROVE  /\ Woken(why) \in [TtyReaders -> ReaderRecord]
         /\ \A t \in TtyReaders :
                IF ttyReader[t].pc = "sleep"
                THEN /\ Woken(why)[t].pc = "awake" /\ Woken(why)[t].woken = why
                     /\ Woken(why)[t].got = ttyReader[t].got /\ Woken(why)[t].size = ttyReader[t].size
                ELSE Woken(why)[t] = ttyReader[t]
<1>1. ASSUME NEW t \in TtyReaders, ttyReader[t].pc = "sleep"
      PROVE  /\ [ttyReader[t] EXCEPT !.pc = "awake", !.woken = why] \in ReaderRecord
             /\ [ttyReader[t] EXCEPT !.pc = "awake", !.woken = why].pc = "awake"
             /\ [ttyReader[t] EXCEPT !.pc = "awake", !.woken = why].woken = why
             /\ [ttyReader[t] EXCEPT !.pc = "awake", !.woken = why].got = ttyReader[t].got
             /\ [ttyReader[t] EXCEPT !.pc = "awake", !.woken = why].size = ttyReader[t].size
  BY <1>1 DEF ReaderRecord, ReaderAt
<1> QED BY <1>1 DEF Woken

LEMMA IputFacts ==
  ASSUME TtyInv, TtyClean, NEW c \in RingChars, NEW k, NEW past \in SUBSET TtyFlaws,
         ttyPast \subseteq past, TtyIput(c, k, past)
  PROVE  /\ ttyCin' \in RingRecord /\ ttyReader' \in [TtyReaders -> ReaderRecord]
         /\ ttyRunning' \in {0, k} /\ ttyPast' \subseteq TtyFlaws /\ past \subseteq ttyPast'
         /\ TtyWokenRight'
         /\ TtyClean' => /\ RbNumChars(ttyCin') = RbNumChars(ttyCin) + 1
                         /\ RbNumChars(ttyCin') <= TTY_IN_BUF_SIZE
                         /\ RingSeq(ttyCin') = Append(RingSeq(ttyCin), c)
                         /\ TtyReaderFinds'
                         /\ ttyCanon' = ttyCanon /\ ttyPast' = {} => TtyNoneWaits'
<1> DEFINE wakes == IputWakes(ttyCin', c)
<1> USE DEF TtyInv, TtyShape
<1>1. /\ ttyCin' = RbPut(ttyCin, c)
      /\ ttyReader' = IF wakes THEN Woken("input") ELSE ttyReader
      /\ ttyRunning' = IF wakes THEN 0 ELSE k
      /\ ttyPast' = past \cup (IF RbFull(ttyCin) THEN {"overrun"} ELSE {})
                         \cup (IF wakes THEN Missed ELSE {})
  BY DEF TtyIput
<1>2. wakes <=> RbFull(ttyCin') \/ c = "NL" \/ ~ttyCanon
  BY DEF IputWakes
<1> HIDE DEF wakes
<1>3. /\ Woken("input") \in [TtyReaders -> ReaderRecord]
      /\ \A t \in TtyReaders :
            IF ttyReader[t].pc = "sleep"
            THEN /\ Woken("input")[t].pc = "awake" /\ Woken("input")[t].woken = "input"
                 /\ Woken("input")[t].got = ttyReader[t].got /\ Woken("input")[t].size = ttyReader[t].size
            ELSE Woken("input")[t] = ttyReader[t]
  BY WokenFacts
<1>4. ttyReader' \in [TtyReaders -> ReaderRecord]
  BY <1>1, <1>3
<1>5. \A t \in TtyReaders :
          \/ ttyReader'[t] = ttyReader[t]
          \/ /\ ttyReader'[t].pc = "awake" /\ ttyReader'[t].woken = "input" /\ ttyReader[t].pc = "sleep"
             /\ ttyReader'[t].got = ttyReader[t].got /\ ttyReader'[t].size = ttyReader[t].size
  BY <1>1, <1>3
<1>6. TtyWokenRight'
  BY <1>5 DEF TtyWokenRight, AtSleep
<1>7. Missed \subseteq TtyFlaws
  BY DEF Missed, TtyFlaws
<1>8. ttyPast' \subseteq TtyFlaws /\ past \subseteq ttyPast' /\ ttyRunning' \in {0, k}
  BY <1>1, <1>7 DEF TtyFlaws
<1>9. ASSUME TtyClean'
      PROVE  /\ RbNumChars(ttyCin') = RbNumChars(ttyCin) + 1
             /\ RbNumChars(ttyCin') <= TTY_IN_BUF_SIZE
             /\ RingSeq(ttyCin') = Append(RingSeq(ttyCin), c)
             /\ TtyReaderFinds'
             /\ ttyCanon' = ttyCanon /\ ttyPast' = {} => TtyNoneWaits'
  <2>1. ~RbFull(ttyCin)
    BY <1>1, <1>9 DEF TtyClean
  <2>2. RbNumChars(ttyCin) \in Nat /\ RbNumChars(ttyCin) < TTY_IN_BUF_SIZE
    BY <2>1, NumFacts, SizeFacts DEF RbFull
  <2>3. /\ RbNumChars(ttyCin') = RbNumChars(ttyCin) + 1
        /\ RingSeq(ttyCin') = Append(RingSeq(ttyCin), c)
    BY <1>1, <2>2, PutAppends
  <2>4. TtyReaderFinds'
    BY <1>5, <2>2, <2>3 DEF TtyReaderFinds
  <2>5. ASSUME ttyCanon' = ttyCanon, ttyPast' = {} PROVE TtyNoneWaits'
    <3>1. ASSUME NEW t \in TtyReaders, ttyReader'[t].pc \in AtSleep PROVE ~wakes
      <4>1. SUFFICES ASSUME wakes PROVE FALSE
        OBVIOUS
      <4>2. ttyReader[t].pc \in {"window", "signalled", "handler"}
        BY <1>1, <1>3, <3>1, <4>1 DEF AtSleep
      <4>3. Missed = {"missed"}
        BY <4>2 DEF Missed
      <4> QED BY <1>1, <2>5, <4>1, <4>3
    <3>2. ASSUME NEW t \in TtyReaders, ttyReader'[t].pc \in AtSleep
          PROVE  ttyCanon' /\ ~Contains(RingSeq(ttyCin'), "NL")
      <4>1. ~wakes /\ ttyReader[t].pc \in AtSleep /\ ttyPast = {}
        BY <1>1, <2>5, <3>1, <3>2
      <4>2. ttyCanon /\ c # "NL"
        BY <1>2, <4>1
      <4>3. ~Contains(RingSeq(ttyCin), "NL")
        BY <4>1, <4>2 DEF TtyClean, TtyCalm, TtyNoneWaits, AtSleep
      <4>4. RingSeq(ttyCin) \in Seq(RingChars)
        BY RingSeqFacts
      <4>5. \A i \in 1..Len(RingSeq(ttyCin)) : RingSeq(ttyCin)[i] # "NL"
        BY <4>3 DEF Contains
      <4>6. \A i \in 1..Len(Append(RingSeq(ttyCin), c)) : Append(RingSeq(ttyCin), c)[i] # "NL"
        BY <4>2, <4>4, <4>5
      <4> QED BY <2>3, <2>5, <4>2, <4>6 DEF Contains
    <3> QED BY <3>2 DEF TtyNoneWaits, AtSleep
  <2> QED BY <2>2, <2>3, <2>4, <2>5, SizeFacts
<1>10. ttyCin' \in RingRecord
  BY <1>1, PutAppends
<1> QED BY <1>4, <1>6, <1>8, <1>9, <1>10

-----------------------------------------------------------------------------
(* tty_editor.                                                              *)

LEMMA EditedType ==
  ASSUME NEW line \in Seq(TtyChars), NEW c
  PROVE  Edited(line, c) \in Seq(TtyChars) /\ Len(Edited(line, c)) <= Len(line) + 1
<1>1. line # <<>> => Front(line) \in Seq(TtyChars) /\ Len(Front(line)) <= Len(line)
  <2>1. \A i \in 1..(Len(line) - 1) : line[i] \in TtyChars
    BY ElementOfSeq
  <2>2. Len(line) \in Nat /\ Len(line) - 1 \in Int /\ 1 \in Int
    BY LenProperties
  <2>3. /\ SubSeq(line, 1, Len(line) - 1) \in Seq(TtyChars)
        /\ Len(SubSeq(line, 1, Len(line) - 1)) = IF 1 <= Len(line) - 1 THEN Len(line) - 1 - 1 + 1 ELSE 0
    BY <2>1, <2>2, SubSeqProperties
  <2> QED BY <2>2, <2>3 DEF Front
<1>2. c \in TtyChars => Append(line, c) \in Seq(TtyChars) /\ Len(Append(line, c)) = Len(line) + 1
  OBVIOUS
<1>3. <<>> \in Seq(TtyChars) /\ Len(<<>>) = 0 /\ Len(line) \in Nat
  BY EmptySeq, LenProperties
<1> QED BY <1>1, <1>2, <1>3 DEF Edited

LEMMA Joined ==
  \A s, t, u \in Seq(RingChars) : (s \o t) \o u = s \o (t \o u)
<1> TAKE s, t, u \in Seq(RingChars)
<1> QED BY ConcatAssociative

LEMMA TailOfConcat ==
  ASSUME NEW s \in Seq(RingChars), NEW t \in Seq(RingChars), s # <<>>
  PROVE  s \o t # <<>> /\ Tail(s \o t) = Tail(s) \o t
<1>1. s \o t \in Seq(RingChars) /\ Len(s \o t) = Len(s) + Len(t) /\ Len(s) \in Nat \ {0} /\ Len(t) \in Nat
  BY ConcatProperties, EmptySeq, LenProperties
<1>2. s \o t # <<>>
  BY <1>1
<1>3. /\ Tail(s) \in Seq(RingChars) /\ Len(Tail(s)) = Len(s) - 1
      /\ \A i \in 1..Len(Tail(s)) : Tail(s)[i] = s[i + 1]
  BY HeadTailProperties
<1>4. /\ Tail(s \o t) \in Seq(RingChars) /\ Len(Tail(s \o t)) = Len(s) + Len(t) - 1
      /\ \A i \in 1..Len(Tail(s \o t)) : Tail(s \o t)[i] = (s \o t)[i + 1]
  BY <1>1, <1>2, HeadTailProperties
<1>5. /\ Tail(s) \o t \in Seq(RingChars) /\ Len(Tail(s) \o t) = Len(s) - 1 + Len(t)
      /\ \A i \in 1..(Len(s) - 1 + Len(t)) :
            (Tail(s) \o t)[i] = IF i <= Len(s) - 1 THEN Tail(s)[i] ELSE t[i - (Len(s) - 1)]
  BY <1>3, ConcatProperties
<1>6. \A i \in 1..(Len(s) + Len(t)) : (s \o t)[i] = IF i <= Len(s) THEN s[i] ELSE t[i - Len(s)]
  BY ConcatProperties
<1>7. ASSUME NEW i \in 1..(Len(s) - 1 + Len(t)) PROVE Tail(s \o t)[i] = (Tail(s) \o t)[i]
  <2>1. i + 1 \in 1..(Len(s) + Len(t)) /\ i \in 1..Len(Tail(s \o t))
    BY <1>1, <1>4
  <2>2. Tail(s \o t)[i] = IF i + 1 <= Len(s) THEN s[i + 1] ELSE t[(i + 1) - Len(s)]
    BY <1>4, <1>6, <2>1
  <2> QED BY <1>1, <1>3, <1>5, <2>2
<1>8. Tail(s \o t) = Tail(s) \o t
  BY <1>1, <1>4, <1>5, <1>7, SeqEqual
<1> QED BY <1>2, <1>8

LEMMA RacedFacts ==
  ASSUME ttyPast \subseteq TtyFlaws
  PROVE  /\ Raced \subseteq TtyFlaws /\ ttyPast \subseteq Raced
         /\ Raced \cap {"raced", "overrun"} = {} => ttyHandlers = <<>>
  BY DEF Raced, TtyFlaws

LEMMA UnchangedInv == TtyInv /\ UNCHANGED ttyVars => TtyInv'
<1> SUFFICES ASSUME TtyInv, UNCHANGED ttyVars PROVE TtyInv'
  OBVIOUS
<1> USE DEF ttyVars, TtyInv
<1>1. TtyShape'
  BY DEF TtyShape
<1>2. TtyWokenRight'
  BY DEF TtyWokenRight, AtSleep
<1>3. TtyOneHandler = TtyOneHandler'
  BY DEF TtyOneHandler
<1>4. ToCome = ToCome'
  BY DEF ToCome
<1>5. TtyReaderFinds = TtyReaderFinds' /\ TtyNoneWaits = TtyNoneWaits'
  BY DEF TtyReaderFinds, TtyNoneWaits, AtSleep
<1> QED BY <1>1, <1>2, <1>3, <1>4, <1>5 DEF TtyClean, TtyCalm

LEMMA PutsInv ==
  ASSUME TtyInv, TtyClean, NEW c \in RingChars, Len(ttyHandlers) < MaxHandlers, EditorPuts(c),
         UNCHANGED ttyOpen
  PROVE  TtyInv'
<1> USE DEF TtyInv, TtyShape
<1> DEFINE new == [at |-> 1, key |-> c, ends |-> c # "EOF" \/ LineFull]
           last == IF c = "EOF" /\ ~LineFull THEN <<>> ELSE <<c>>
<1>1. /\ ttyHandlers' = Append(ttyHandlers, new) /\ ttyRunning' = Len(ttyHandlers) + 1
      /\ ttyMeant' = <<>> /\ ttyExpect' = ttyExpect \o ttyMeant \o last
      /\ ttyPast' = Raced
      /\ UNCHANGED <<ttyCanon, ttyLine, ttyCin, ttyReader, ttyOpen>>
  BY DEF EditorPuts
<1>2. new \in HandlerRecord /\ new.at = 1 /\ new.key = c /\ (new.ends <=> c # "EOF" \/ LineFull)
  BY DEF HandlerRecord, LineFull
<1>3. last \in Seq(RingChars) /\ ttyMeant \in Seq(RingChars) /\ ttyLine \in Seq(RingChars)
  <2>1. TtyChars \subseteq RingChars
    BY DEF RingChars, Keys
  <2>2. ttyMeant \in Seq(RingChars) /\ ttyLine \in Seq(RingChars)
    BY <2>1, SeqMonotonic
  <2>3. last \in Seq(RingChars)
    BY EmptySeq
  <2> QED BY <2>2, <2>3
<1> HIDE DEF new, last
<1>4. /\ ttyHandlers' \in Seq(HandlerRecord) /\ Len(ttyHandlers') = Len(ttyHandlers) + 1
      /\ Len(ttyHandlers) \in Nat
  BY <1>1, <1>2
<1>5. ttyExpect' \in Seq(RingChars)
  <2>1. ttyExpect \o ttyMeant \in Seq(RingChars)
    BY <1>3, ConcatProperties
  <2> QED BY <1>1, <1>3, <2>1, ConcatProperties
<1>6. TtyShape'
  <2>1. MaxHandlers \in Nat
    BY TtyAssumption
  <2>2. ttyMeant' \in Seq(TtyChars)
    BY <1>1
  <2>3. Len(ttyHandlers') <= MaxHandlers /\ ttyRunning' \in 0..Len(ttyHandlers')
    BY <1>1, <1>4, <2>1
  <2> QED BY <1>1, <1>4, <1>5, <2>2, <2>3, RacedFacts
<1>7. TtyWokenRight'
  BY <1>1 DEF TtyWokenRight, AtSleep
<1>8. ASSUME TtyClean' PROVE TtyCalm'
  <2>1. ttyHandlers = <<>>
    BY <1>1, <1>8, RacedFacts DEF TtyClean
  <2>2. ttyMeant = ttyLine /\ ToCome = <<>> /\ RingSeq(ttyCin) \o <<>> = ttyExpect
    BY <2>1 DEF TtyCalm, TtyOneHandler, ToCome
  <2>3. ttyHandlers' = <<new>> /\ ttyHandlers'[1] = new
    BY <1>1, <2>1
  <2>4. Len(ttyLine) \in Nat /\ Len(ttyLine) < TTY_LN_BUF_SIZE
    BY SizeFacts, LenProperties
  <2>5. ToCome' = ttyLine \o last
    <3>1. SubSeq(ttyLine, 1, Len(ttyLine)) = ttyLine
      BY SubSeqFull
    <3>2. (IF new.ends /\ new.at # TTY_LN_BUF_SIZE + 1 THEN <<new.key>> ELSE <<>>) = last
      BY <1>2, SizeFacts DEF last
    <3>3. ToCome' = SubSeq(ttyLine', new.at, Len(ttyLine')) \o
                    (IF new.ends /\ new.at # TTY_LN_BUF_SIZE + 1 THEN <<new.key>> ELSE <<>>)
      BY <2>3 DEF ToCome
    <3> QED BY <1>1, <1>2, <3>1, <3>2, <3>3
  <2>6. RingSeq(ttyCin) \in Seq(RingChars)
    BY RingSeqFacts
  <2>7. RingSeq(ttyCin') \o ToCome' = ttyExpect'
    <3>1. ttyExpect = RingSeq(ttyCin)
      BY <2>2, <2>6, ConcatEmptySeq
    <3>2. (RingSeq(ttyCin) \o ttyLine) \o last = RingSeq(ttyCin) \o (ttyLine \o last)
      BY <1>3, <2>6, Joined
    <3> QED BY <1>1, <2>2, <2>5, <3>1, <3>2
  <2>8. TtyOneHandler'
    BY <1>1, <1>2, <2>3, <2>4 DEF TtyOneHandler
  <2>9. TtyReaderFinds' /\ (ttyPast' = {} => TtyNoneWaits')
    <3>1. ttyPast' = {} => ttyPast = {}
      BY <1>1, RacedFacts
    <3> QED BY <1>1, <3>1 DEF TtyCalm, TtyReaderFinds, TtyNoneWaits, AtSleep
  <2> QED BY <1>1, <2>7, <2>8, <2>9 DEF TtyCalm
<1> QED BY <1>6, <1>7, <1>8

LEMMA EditsInv ==
  ASSUME TtyInv, TtyClean, NEW c, EditorEdits(c), UNCHANGED ttyOpen
  PROVE  TtyInv'
<1> USE DEF TtyInv, TtyShape
<1>1. /\ EditsLine(c) /\ ttyLine' = Edited(ttyLine, c) /\ ttyMeant' = Edited(ttyMeant, c)
      /\ UNCHANGED <<ttyOpen, ttyCanon, ttyCin, ttyHandlers, ttyRunning, ttyExpect>>
  BY DEF EditorEdits
<1>2. \/ ttyReader' = ttyReader /\ ttyPast' = Raced
      \/ ttyReader' = Woken("eof") /\ ttyPast' = Raced \cup Missed
  BY DEF EditorEdits
<1>3. Missed \subseteq TtyFlaws /\ Raced \subseteq TtyFlaws /\ ttyPast \subseteq Raced
  BY RacedFacts DEF Missed, TtyFlaws
<1>4. ttyPast' \subseteq TtyFlaws /\ Raced \subseteq ttyPast'
  BY <1>2, <1>3
<1>5. /\ ttyReader' \in [TtyReaders -> ReaderRecord]
      /\ \A t \in TtyReaders :
            \/ ttyReader'[t] = ttyReader[t]
            \/ /\ ttyReader'[t].pc = "awake" /\ ttyReader'[t].woken = "eof"
               /\ ttyReader'[t].got = ttyReader[t].got /\ ttyReader'[t].size = ttyReader[t].size
               /\ ttyReader[t].pc = "sleep"
      /\ \A t \in TtyReaders :
            ttyReader'[t].pc \in AtSleep => ttyReader'[t] = ttyReader[t]
  <2>1. CASE ttyReader' = ttyReader
    BY <2>1
  <2>2. CASE ttyReader' = Woken("eof")
    BY <2>2, WokenFacts DEF AtSleep
  <2> QED BY <1>2, <2>1, <2>2
<1>6. Len(ttyLine') <= TTY_LN_BUF_SIZE - 1 /\ ttyLine' \in Seq(TtyChars) /\ ttyMeant' \in Seq(TtyChars)
  <2>1. Len(ttyLine) < TTY_LN_BUF_SIZE - 1
    BY <1>1, SizeFacts, LenProperties DEF EditsLine, LineFull
  <2>2. ttyLine' \in Seq(TtyChars) /\ ttyMeant' \in Seq(TtyChars) /\ Len(ttyLine') <= Len(ttyLine) + 1
    BY <1>1, EditedType
  <2>3. Len(ttyLine) \in Nat /\ Len(ttyLine') \in Nat
    BY <2>2, LenProperties
  <2> QED BY <2>1, <2>2, <2>3, SizeFacts
<1>7. TtyShape'
  BY <1>1, <1>4, <1>5, <1>6
<1>8. TtyWokenRight'
  BY <1>5 DEF TtyWokenRight, AtSleep
<1>9. ASSUME TtyClean' PROVE TtyCalm'
  <2>1. ttyHandlers = <<>> /\ ttyHandlers' = <<>>
    BY <1>1, <1>4, <1>9, RacedFacts DEF TtyClean
  <2>2. TtyOneHandler'
    BY <1>1, <2>1 DEF TtyCalm, TtyOneHandler
  <2>3. ToCome = <<>> /\ ToCome' = <<>>
    BY <2>1 DEF ToCome
  <2>4. TtyReaderFinds'
    BY <1>1, <1>5 DEF TtyCalm, TtyReaderFinds
  <2>5. ttyPast' = {} => TtyNoneWaits'
    <3>1. ttyPast' = {} => ttyPast = {}
      BY <1>3, <1>4
    <3> QED BY <1>1, <1>5, <3>1 DEF TtyCalm, TtyNoneWaits, AtSleep
  <2> QED BY <1>1, <2>2, <2>3, <2>4, <2>5 DEF TtyCalm
<1> QED BY <1>7, <1>8, <1>9

LEMMA ResetsInv ==
  ASSUME TtyInv, TtyClean, NEW c, EditorResets(c), UNCHANGED ttyOpen
  PROVE  TtyInv'
<1> USE DEF TtyInv, TtyShape
<1>1. /\ \A t \in TtyReaders : ttyReader[t].pc \notin {"awake", "get"}
      /\ ttyCanon' = TRUE /\ ttyCin' = [ttyCin EXCEPT !.head = 0, !.tail = 0] /\ ttyExpect' = <<>>
      /\ ttyPast' = Raced
      /\ UNCHANGED <<ttyOpen, ttyLine, ttyMeant, ttyHandlers, ttyRunning, ttyReader>>
  BY DEF EditorResets
<1>2. ttyCin' \in RingRecord /\ RbNumChars(ttyCin') = 0 /\ RingSeq(ttyCin') = <<>>
  <2>1. ttyCin' \in RingRecord /\ ttyCin'.head = 0 /\ ttyCin'.tail = 0
    <3>1. ttyCin = [head |-> ttyCin.head, tail |-> ttyCin.tail, buf |-> ttyCin.buf]
      BY DEF RingRecord
    <3>2. ttyCin' = [head |-> 0, tail |-> 0, buf |-> ttyCin.buf]
      BY <1>1, <3>1
    <3> QED BY <3>2, SizeFacts DEF RingRecord, RingPos
  <2>2. RbNumChars(ttyCin') = 0
    BY <2>1, NumFacts
  <2>3. RingSeq(ttyCin') \in Seq(RingChars) /\ Len(RingSeq(ttyCin')) = 0
    BY <2>1, <2>2, RingSeqFacts
  <2> QED BY <2>1, <2>2, <2>3, EmptySeq
<1>3. TtyShape'
  BY <1>1, <1>2, RacedFacts
<1>4. TtyWokenRight'
  BY <1>1 DEF TtyWokenRight, AtSleep
<1>5. ASSUME TtyClean' PROVE TtyCalm'
  <2>1. ttyHandlers = <<>> /\ ttyHandlers' = <<>>
    BY <1>1, <1>5, RacedFacts DEF TtyClean
  <2>2. ToCome' = <<>> /\ RingSeq(ttyCin') \o ToCome' = ttyExpect'
    BY <1>1, <1>2, <2>1 DEF ToCome
  <2>3. TtyOneHandler'
    BY <1>1, <2>1 DEF TtyCalm, TtyOneHandler
  <2>4. TtyReaderFinds'
    BY <1>1 DEF TtyReaderFinds
  <2>5. TtyNoneWaits'
    BY <1>1, <1>2 DEF TtyNoneWaits, AtSleep, Contains
  <2> QED BY <1>2, <2>2, <2>3, <2>4, <2>5, SizeFacts DEF TtyCalm
<1> QED BY <1>3, <1>4, <1>5

(* The ring takes what comes when nothing is on its way: no handler is left. *)
LEMMA KeyInv ==
  ASSUME TtyInv, TtyClean, NEW key \in Keys, TtyIn(key)
  PROVE  TtyInv'
<1> DEFINE c == IF key = "CR" /\ ttyCanon THEN "NL" ELSE key
<1>1. c \in RingChars
  BY DEF RingChars
<1>2. \/ UNCHANGED ttyVars
      \/ /\ UNCHANGED ttyOpen /\ Len(ttyHandlers) < MaxHandlers
         /\ EditorPuts(c) \/ EditorEdits(c) \/ EditorResets(c)
      \/ /\ UNCHANGED ttyOpen /\ ~ttyCanon /\ ttyRunning = 0
         /\ TtyIput(c, 0, Raced)
         /\ ttyExpect' = Append(ttyExpect, c)
         /\ UNCHANGED <<ttyCanon, ttyLine, ttyMeant, ttyHandlers>>
  BY DEF TtyIn
<1> HIDE DEF c
<1>3. CASE UNCHANGED ttyVars
  BY <1>3, UnchangedInv
<1>4. CASE /\ UNCHANGED ttyOpen /\ ~ttyCanon /\ ttyRunning = 0
           /\ TtyIput(c, 0, Raced)
           /\ ttyExpect' = Append(ttyExpect, c)
           /\ UNCHANGED <<ttyCanon, ttyLine, ttyMeant, ttyHandlers>>
  <2> USE DEF TtyInv, TtyShape
  <2>1. Raced \in SUBSET TtyFlaws /\ ttyPast \subseteq Raced
    BY RacedFacts
  <2>2. /\ ttyCin' \in RingRecord /\ ttyReader' \in [TtyReaders -> ReaderRecord]
        /\ ttyRunning' = 0 /\ ttyPast' \subseteq TtyFlaws /\ Raced \subseteq ttyPast'
        /\ TtyWokenRight'
        /\ TtyClean' => /\ RbNumChars(ttyCin') <= TTY_IN_BUF_SIZE
                        /\ RingSeq(ttyCin') = Append(RingSeq(ttyCin), c)
                        /\ TtyReaderFinds'
                        /\ ttyPast' = {} => TtyNoneWaits'
    BY <1>1, <1>4, <2>1, IputFacts
  <2>3. Len(ttyHandlers) \in Nat
    BY LenProperties
  <2>4. TtyShape'
    BY <1>1, <1>4, <2>2, <2>3
  <2>5. ASSUME TtyClean' PROVE TtyCalm'
    <3>1. ttyHandlers = <<>> /\ ttyHandlers' = <<>>
      BY <1>4, <2>2, <2>5, RacedFacts DEF TtyClean
    <3>2. ToCome = <<>> /\ ToCome' = <<>>
      BY <3>1 DEF ToCome
    <3>3. RingSeq(ttyCin) \in Seq(RingChars) /\ RingSeq(ttyCin) \o <<>> = ttyExpect
      BY <3>2, RingSeqFacts DEF TtyCalm
    <3>4. RingSeq(ttyCin) = ttyExpect
      BY <3>3, ConcatEmptySeq
    <3>5. RingSeq(ttyCin') \in Seq(RingChars) /\ RingSeq(ttyCin') = ttyExpect'
      BY <1>4, <2>2, <2>5, <3>4, RingSeqFacts
    <3>6. RingSeq(ttyCin') \o ToCome' = ttyExpect'
      BY <3>2, <3>5, ConcatEmptySeq
    <3>7. TtyOneHandler'
      BY <1>4, <3>1 DEF TtyCalm, TtyOneHandler
    <3> QED BY <2>2, <2>5, <3>6, <3>7 DEF TtyCalm
  <2> QED BY <2>2, <2>4, <2>5
<1> QED BY <1>1, <1>2, <1>3, <1>4, PutsInv, EditsInv, ResetsInv

(* What a handler has yet to put: its line from where it is, and its key.   *)
LEMMA NextToCome ==
  ASSUME TtyInv, TtyClean, NEW k \in DOMAIN ttyHandlers, HandlerPuts(k)
  PROVE  LET h == ttyHandlers[1]
             inLine == h.at <= Len(ttyLine)
             c == IF inLine THEN ttyLine[h.at] ELSE h.key
         IN  /\ k = 1 /\ Len(ttyHandlers) = 1 /\ ttyHandlers # <<>> /\ c \in RingChars
             /\ TtyIput(c, 1, ttyPast)
             /\ ttyHandlers' \in Seq(HandlerRecord) /\ Len(ttyHandlers') = 1
             /\ TtyOneHandler'
             /\ ToCome' \in Seq(RingChars)
             /\ ToCome = <<c>> \o ToCome'
<1> DEFINE h == ttyHandlers[1]
           inLine == h.at <= Len(ttyLine)
           c == IF inLine THEN ttyLine[h.at] ELSE h.key
           at == IF inLine THEN h.at + 1 ELSE TTY_LN_BUF_SIZE + 1
<1> USE DEF TtyInv, TtyShape
<1>1. ttyHandlers # <<>> /\ Len(ttyHandlers) = 1 /\ k = 1 /\ DOMAIN ttyHandlers = 1..1
  <2>1. ttyHandlers # <<>> /\ DOMAIN ttyHandlers = 1..Len(ttyHandlers)
    BY LenProperties
  <2>2. Len(ttyHandlers) = 1
    BY <2>1 DEF TtyCalm, TtyOneHandler
  <2> QED BY <2>1, <2>2
<1>2. /\ h \in HandlerRecord /\ h.at \in Nat /\ h.key \in RingChars
      /\ Len(ttyLine) \in Nat /\ Len(ttyLine) < TTY_LN_BUF_SIZE
  <2>1. h \in HandlerRecord
    BY <1>1, ElementOfSeq
  <2> QED BY <2>1, SizeFacts, LenProperties DEF HandlerRecord
<1>3. /\ ttyMeant = <<>>
      /\ h.at \in 1..(Len(ttyLine) + 1) \/ (h.ends /\ h.at = TTY_LN_BUF_SIZE + 1)
  BY <1>1 DEF TtyCalm, TtyOneHandler
<1>4. /\ h.at <= Len(ttyLine) \/ (h.ends /\ h.at # TTY_LN_BUF_SIZE + 1)
      /\ TtyIput(c, 1, ttyPast)
      /\ ttyHandlers' = [ttyHandlers EXCEPT ![1].at = IF inLine THEN @ + 1 ELSE TTY_LN_BUF_SIZE + 1]
      /\ UNCHANGED <<ttyOpen, ttyCanon, ttyLine, ttyMeant, ttyExpect>>
  BY <1>1 DEF HandlerPuts
<1>5. c \in RingChars
  <2>1. inLine => ttyLine[h.at] \in TtyChars
    BY <1>2, <1>3, SizeFacts, ElementOfSeq
  <2> QED BY <1>2, <2>1 DEF RingChars, Keys
<1> HIDE DEF h, c
<1>6. /\ at \in Nat
      /\ ttyHandlers' = [ttyHandlers EXCEPT ![1] = [h EXCEPT !.at = at]]
  BY <1>2, <1>4, SizeFacts, SMTT(30) DEF h
<1>7. /\ [h EXCEPT !.at = at] \in HandlerRecord
      /\ [h EXCEPT !.at = at].at = at /\ [h EXCEPT !.at = at].key = h.key
      /\ [h EXCEPT !.at = at].ends = h.ends
  BY <1>2, <1>6 DEF HandlerRecord
<1>8. /\ ttyHandlers' \in Seq(HandlerRecord) /\ Len(ttyHandlers') = 1 /\ ttyHandlers' # <<>>
      /\ ttyHandlers'[1] = [h EXCEPT !.at = at]
  BY <1>1, <1>6, <1>7
<1>a. ttyHandlers'[1].at = at /\ ttyHandlers'[1].ends = h.ends /\ ttyHandlers'[1].key = h.key
  BY <1>7, <1>8
<1>9. TtyOneHandler'
  <2>1. at \in 1..(Len(ttyLine) + 1) \/ (h.ends /\ at = TTY_LN_BUF_SIZE + 1)
    BY <1>2, <1>3, <1>4, SizeFacts, SMTT(30)
  <2> HIDE DEF at
  <2> QED BY <1>3, <1>4, <1>8, <1>a, <2>1 DEF TtyOneHandler
<1>10. ToCome = SubSeq(ttyLine, h.at, Len(ttyLine)) \o
                (IF h.ends /\ h.at # TTY_LN_BUF_SIZE + 1 THEN <<h.key>> ELSE <<>>)
  BY <1>1 DEF ToCome, h
<1>11. ToCome' = SubSeq(ttyLine, at, Len(ttyLine)) \o
                 (IF h.ends /\ at # TTY_LN_BUF_SIZE + 1 THEN <<h.key>> ELSE <<>>)
  <2>1. ToCome' = SubSeq(ttyLine', ttyHandlers'[1].at, Len(ttyLine')) \o
                  (IF ttyHandlers'[1].ends /\ ttyHandlers'[1].at # TTY_LN_BUF_SIZE + 1
                   THEN <<ttyHandlers'[1].key>> ELSE <<>>)
    BY <1>8 DEF ToCome
  <2> HIDE DEF at
  <2> QED BY <1>4, <1>a, <2>1
<1>12. ttyLine \in Seq(RingChars)
  <2>1. TtyChars \subseteq RingChars
    BY DEF RingChars, Keys
  <2> QED BY <2>1, SeqMonotonic
<1>13. /\ SubSeq(ttyLine, at, Len(ttyLine)) \in Seq(RingChars)
       /\ <<c>> \in Seq(RingChars) /\ <<h.key>> \in Seq(RingChars) /\ <<>> \in Seq(RingChars)
  <2>1. \A j \in at..Len(ttyLine) : ttyLine[j] \in RingChars
    BY <1>2, <1>3, <1>12, SizeFacts, ElementOfSeq
  <2>2. at \in Int /\ Len(ttyLine) \in Int
    BY <1>2, <1>6
  <2> HIDE DEF at
  <2>3. SubSeq(ttyLine, at, Len(ttyLine)) \in Seq(RingChars)
    BY <2>1, <2>2, SubSeqProperties
  <2> QED BY <1>2, <1>5, <2>3, EmptySeq
<1>14. ToCome' \in Seq(RingChars) /\ ToCome = <<c>> \o ToCome'
  <2>1. CASE inLine
    <3>1. h.at \in 1..Len(ttyLine) /\ at = h.at + 1 /\ c = ttyLine[h.at]
      BY <1>2, <1>3, <2>1, SizeFacts DEF c, h
    <3>2. SubSeq(ttyLine, h.at, Len(ttyLine)) = <<c>> \o SubSeq(ttyLine, at, Len(ttyLine))
      <4>1. h.at \in 1..Len(ttyLine) /\ Len(ttyLine) \in h.at..Len(ttyLine)
        BY <1>2, <3>1
      <4>2. SubSeq(ttyLine, h.at, Len(ttyLine)) = <<ttyLine[h.at]>> \o SubSeq(ttyLine, h.at + 1, Len(ttyLine))
        BY <1>12, <4>1, SubSeqRecursiveFirst
      <4> QED BY <3>1, <4>2
    <3>3. h.at # TTY_LN_BUF_SIZE + 1 /\ at # TTY_LN_BUF_SIZE + 1
      BY <1>2, <3>1, SizeFacts
    <3> DEFINE rest == IF h.ends THEN <<h.key>> ELSE <<>>
    <3>4. rest \in Seq(RingChars)
      BY <1>13
    <3>5. /\ ToCome = SubSeq(ttyLine, h.at, Len(ttyLine)) \o rest
          /\ ToCome' = SubSeq(ttyLine, at, Len(ttyLine)) \o rest
      BY <1>10, <1>11, <3>3
    <3> HIDE DEF at, rest
    <3>6. (<<c>> \o SubSeq(ttyLine, at, Len(ttyLine))) \o rest = <<c>> \o (SubSeq(ttyLine, at, Len(ttyLine)) \o rest)
      BY <1>13, <3>4, Joined, ZenonT(60)
    <3>7. SubSeq(ttyLine, at, Len(ttyLine)) \o rest \in Seq(RingChars)
      BY <1>13, <3>4, ConcatProperties
    <3> QED BY <3>2, <3>5, <3>6, <3>7
  <2>2. CASE ~inLine
    <3>1. /\ at = TTY_LN_BUF_SIZE + 1 /\ c = h.key
          /\ h.ends /\ h.at # TTY_LN_BUF_SIZE + 1 /\ h.at > Len(ttyLine) /\ at > Len(ttyLine)
      BY <1>2, <1>4, <2>2, SizeFacts, SMTT(30) DEF c, h
    <3>2. SubSeq(ttyLine, h.at, Len(ttyLine)) = <<>> /\ SubSeq(ttyLine, at, Len(ttyLine)) = <<>>
      BY <1>2, <1>6, <3>1, SubSeqEmpty, SMTT(30)
    <3>3. ToCome = <<>> \o <<c>> /\ ToCome' = <<>> \o <<>>
      BY <1>10, <1>11, <3>1, <3>2
    <3> HIDE DEF at
    <3>4. ToCome = <<c>> /\ ToCome' = <<>>
      BY <1>13, <3>3, ConcatEmptySeq
    <3> QED BY <1>13, <3>4, ConcatEmptySeq
  <2> QED BY <2>1, <2>2
<1> QED BY <1>1, <1>4, <1>5, <1>8, <1>9, <1>14 DEF h, c

LEMMA ToComeType == ASSUME TtyInv, TtyClean PROVE ToCome \in Seq(RingChars)
<1> DEFINE h == ttyHandlers[1]
           rest == IF h.ends /\ h.at # TTY_LN_BUF_SIZE + 1 THEN <<h.key>> ELSE <<>>
<1>1. CASE ttyHandlers = <<>>
  BY <1>1, EmptySeq DEF ToCome
<1>2. CASE ttyHandlers # <<>>
  <2>1. h \in HandlerRecord /\ h.at \in Nat /\ h.at > 0 /\ h.key \in RingChars
    <3>1. h \in HandlerRecord
      BY <1>2, ElementOfSeq, LenProperties DEF TtyInv, TtyShape, TtyCalm, TtyOneHandler
    <3> QED BY <1>2, <3>1, SizeFacts DEF HandlerRecord, TtyInv, TtyShape, TtyCalm, TtyOneHandler
  <2>2. ToCome = SubSeq(ttyLine, h.at, Len(ttyLine)) \o rest
    BY <1>2 DEF ToCome
  <2>3. rest \in Seq(RingChars)
    BY <2>1, EmptySeq
  <2> HIDE DEF h, rest
  <2>4. SubSeq(ttyLine, h.at, Len(ttyLine)) \in Seq(RingChars)
    <3>1. ttyLine \in Seq(RingChars) /\ Len(ttyLine) \in Nat
      <4>1. TtyChars \subseteq RingChars
        BY DEF RingChars, Keys
      <4> QED BY <4>1, SeqMonotonic, LenProperties DEF TtyInv, TtyShape
    <3>2. \A j \in h.at..Len(ttyLine) : ttyLine[j] \in RingChars
      BY <2>1, <3>1, ElementOfSeq
    <3> QED BY <2>1, <3>1, <3>2, SubSeqProperties
  <2> QED BY <2>2, <2>3, <2>4, ConcatProperties
<1> QED BY <1>1, <1>2

LEMMA HandlerPutsInv ==
  ASSUME TtyInv, TtyClean, NEW k \in DOMAIN ttyHandlers, HandlerPuts(k)
  PROVE  TtyInv'
<1> DEFINE h == ttyHandlers[1]
           c == IF h.at <= Len(ttyLine) THEN ttyLine[h.at] ELSE h.key
<1>1. /\ Len(ttyHandlers) = 1 /\ ttyHandlers # <<>> /\ c \in RingChars
      /\ TtyIput(c, 1, ttyPast)
      /\ ttyHandlers' \in Seq(HandlerRecord) /\ Len(ttyHandlers') = 1
      /\ TtyOneHandler'
      /\ ToCome' \in Seq(RingChars)
      /\ ToCome = <<c>> \o ToCome'
  BY NextToCome
<1>2. UNCHANGED <<ttyOpen, ttyCanon, ttyLine, ttyMeant, ttyExpect>>
  BY DEF HandlerPuts
<1> HIDE DEF h, c
<1> USE DEF TtyInv, TtyShape
<1>3. /\ ttyCin' \in RingRecord /\ ttyReader' \in [TtyReaders -> ReaderRecord]
      /\ ttyRunning' \in {0, 1} /\ ttyPast' \subseteq TtyFlaws /\ ttyPast \subseteq ttyPast'
      /\ TtyWokenRight'
      /\ TtyClean' => /\ RbNumChars(ttyCin') <= TTY_IN_BUF_SIZE
                      /\ RingSeq(ttyCin') = Append(RingSeq(ttyCin), c)
                      /\ TtyReaderFinds'
                      /\ ttyPast' = {} => TtyNoneWaits'
  BY <1>1, <1>2, IputFacts
<1>4. TtyShape'
  BY <1>1, <1>2, <1>3
<1>5. ASSUME TtyClean' PROVE RingSeq(ttyCin') \o ToCome' = ttyExpect'
  <2>1. RingSeq(ttyCin) \in Seq(RingChars) /\ <<c>> \in Seq(RingChars)
    BY <1>1, RingSeqFacts
  <2>2. RingSeq(ttyCin') = RingSeq(ttyCin) \o <<c>>
    BY <1>1, <1>3, <1>5, <2>1, AppendIsConcat
  <2>3. (RingSeq(ttyCin) \o <<c>>) \o ToCome' = RingSeq(ttyCin) \o (<<c>> \o ToCome')
    BY <1>1, <2>1, Joined
  <2>4. RingSeq(ttyCin) \o ToCome = ttyExpect
    BY DEF TtyCalm
  <2> QED BY <1>1, <1>2, <2>2, <2>3, <2>4
<1>6. TtyClean' => TtyCalm'
  BY <1>1, <1>3, <1>5 DEF TtyCalm
<1> QED BY <1>3, <1>4, <1>6

LEMMA HandlerEndsInv ==
  ASSUME TtyInv, TtyClean, NEW k \in DOMAIN ttyHandlers, HandlerEnds(k)
  PROVE  TtyInv'
<1> DEFINE h == ttyHandlers[1]
<1> USE DEF TtyInv, TtyShape
<1>1. ttyHandlers # <<>> /\ Len(ttyHandlers) = 1 /\ k = 1
  <2>1. ttyHandlers # <<>> /\ DOMAIN ttyHandlers = 1..Len(ttyHandlers)
    BY LenProperties
  <2>2. Len(ttyHandlers) = 1
    BY <2>1 DEF TtyCalm, TtyOneHandler
  <2> QED BY <2>1, <2>2
<1>2. h \in HandlerRecord /\ h.at \in Nat /\ Len(ttyLine) \in Nat
  <2>1. h \in HandlerRecord
    BY <1>1, ElementOfSeq
  <2> QED BY <2>1, LenProperties DEF HandlerRecord
<1>3. /\ h.at > Len(ttyLine) /\ (h.ends => h.at = TTY_LN_BUF_SIZE + 1)
      /\ ttyLine' = <<>> /\ ttyHandlers' = RemoveAt(ttyHandlers, 1) /\ ttyRunning' = 0
      /\ ttyReader' = IF h.ends THEN ttyReader ELSE Woken("eof")
      /\ ttyPast' = ttyPast \cup (IF h.ends THEN {} ELSE Missed)
      /\ UNCHANGED <<ttyOpen, ttyCanon, ttyMeant, ttyCin, ttyExpect>>
  BY <1>1 DEF HandlerEnds
<1> HIDE DEF h
<1>4. ttyHandlers' = <<>>
  <2>1. SubSeq(ttyHandlers, 1, 1 - 1) = <<>> /\ SubSeq(ttyHandlers, 1 + 1, Len(ttyHandlers)) = <<>>
    BY <1>1, SubSeqEmpty
  <2> QED BY <1>3, <2>1, EmptySeq, ConcatEmptySeq DEF RemoveAt
<1>5. Missed \subseteq TtyFlaws
  BY DEF Missed, TtyFlaws
<1>6. /\ ttyReader' \in [TtyReaders -> ReaderRecord]
      /\ \A t \in TtyReaders :
            /\ \/ ttyReader'[t] = ttyReader[t]
               \/ /\ ttyReader'[t].pc = "awake" /\ ttyReader'[t].woken = "eof" /\ ttyReader[t].pc = "sleep"
                  /\ ttyReader'[t].got = ttyReader[t].got /\ ttyReader'[t].size = ttyReader[t].size
            /\ ttyReader'[t].pc \in AtSleep => ttyReader'[t] = ttyReader[t]
  BY <1>3, WokenFacts DEF AtSleep
<1>7. TtyShape'
  <2>1. /\ ttyLine' \in Seq(TtyChars) /\ Len(ttyLine') <= TTY_LN_BUF_SIZE - 1
        /\ ttyHandlers' \in Seq(HandlerRecord) /\ Len(ttyHandlers') <= MaxHandlers
        /\ ttyRunning' \in 0..Len(ttyHandlers')
    <3>1. MaxHandlers \in Nat
      BY TtyAssumption
    <3>2. Len(ttyHandlers') = 0 /\ ttyHandlers' \in Seq(HandlerRecord)
      BY <1>4
    <3>3. Len(ttyLine') = 0 /\ ttyLine' \in Seq(TtyChars)
      BY <1>3
    <3> QED BY <1>3, <3>1, <3>2, <3>3, SizeFacts
  <2> QED BY <1>3, <1>5, <1>6, <2>1
<1>8. TtyWokenRight'
  BY <1>6 DEF TtyWokenRight, AtSleep
<1>9. TtyCalm'
  <2>1. ToCome = <<>> /\ ToCome' = <<>>
    <3>1. SubSeq(ttyLine, h.at, Len(ttyLine)) = <<>>
      BY <1>2, <1>3, SubSeqEmpty
    <3>2. ToCome = <<>> \o <<>>
      BY <1>1, <1>3, <3>1 DEF ToCome, h
    <3> QED BY <1>4, <3>2, ConcatEmptySeq, EmptySeq DEF ToCome
  <2>2. TtyOneHandler'
    BY <1>1, <1>3, <1>4 DEF TtyCalm, TtyOneHandler
  <2>3. TtyReaderFinds'
    BY <1>3, <1>6 DEF TtyCalm, TtyReaderFinds
  <2>4. ttyPast' = {} => TtyNoneWaits'
    <3>1. ttyPast' = {} => ttyPast = {}
      BY <1>3
    <3> QED BY <1>3, <1>6, <3>1 DEF TtyCalm, TtyNoneWaits, AtSleep
  <2> QED BY <1>3, <2>1, <2>2, <2>3, <2>4 DEF TtyCalm
<1> QED BY <1>7, <1>8, <1>9

-----------------------------------------------------------------------------
(* Tasks.                                                                   *)

LEMMA OpensInv == ASSUME TtyInv, TtyClean, TtyOpens PROVE TtyInv'
<1> USE DEF TtyInv, TtyShape
<1>1. /\ ttyOpen' = TRUE /\ ttyCanon' = TRUE
      /\ UNCHANGED <<ttyLine, ttyMeant, ttyCin, ttyHandlers, ttyRunning, ttyReader, ttyExpect, ttyPast>>
  BY DEF TtyOpens
<1>2. TtyShape' /\ TtyWokenRight'
  BY <1>1 DEF TtyWokenRight, AtSleep
<1>3. TtyOneHandler' /\ ToCome' = ToCome /\ TtyReaderFinds'
  BY <1>1 DEF TtyCalm, TtyOneHandler, ToCome, TtyReaderFinds
<1>4. ttyPast' = {} => TtyNoneWaits'
  <2>1. RingSeq(ttyCin) \in Seq(RingChars) /\ Len(RingSeq(ttyCin)) = RbNumChars(ttyCin)
    BY RingSeqFacts
  <2>2. RbNumChars(ttyCin) = 0 => ~Contains(RingSeq(ttyCin), "NL")
    BY <2>1 DEF Contains
  <2> QED BY <1>1, <2>2 DEF TtyCalm, TtyNoneWaits, AtSleep
<1> QED BY <1>1, <1>2, <1>3, <1>4 DEF TtyCalm

LEMMA ClosesInv == ASSUME TtyInv, TtyClean, TtyCloses PROVE TtyInv'
<1> USE DEF TtyInv, TtyShape
<1>1. /\ ttyHandlers = <<>> /\ ttyHandlers' = <<>> /\ ttyRunning' = ttyRunning
      /\ ttyOpen' = FALSE /\ ttyCanon' = TRUE /\ ttyLine' = <<>> /\ ttyMeant' = <<>> /\ ttyCin' = EmptyRing
      /\ ttyReader' = [t \in TtyReaders |-> NotReading] /\ ttyExpect' = <<>> /\ ttyPast' = {}
  BY DEF TtyCloses
<1>2. EmptyRing \in RingRecord /\ RbNumChars(EmptyRing) = 0 /\ RingSeq(EmptyRing) = <<>>
  BY EmptyRingFacts
<1>3. TtyShape'
  <2>1. ttyReader' \in [TtyReaders -> ReaderRecord]
    BY <1>1 DEF NotReading, ReaderRecord, ReaderAt
  <2>2. /\ ttyLine' \in Seq(TtyChars) /\ Len(ttyLine') <= TTY_LN_BUF_SIZE - 1
        /\ ttyMeant' \in Seq(TtyChars) /\ ttyExpect' \in Seq(RingChars)
    BY <1>1, SizeFacts
  <2> QED BY <1>1, <1>2, <2>1, <2>2
<1>4. TtyWokenRight'
  BY <1>1 DEF TtyWokenRight, AtSleep, NotReading
<1>5. TtyCalm'
  <2>1. RingSeq(ttyCin') \o ToCome' = ttyExpect'
    BY <1>1, <1>2 DEF ToCome
  <2>2. TtyReaderFinds' /\ TtyNoneWaits'
    BY <1>1 DEF TtyReaderFinds, TtyNoneWaits, AtSleep, NotReading
  <2> QED BY <1>1, <1>2, <2>1, <2>2, SizeFacts DEF TtyCalm, TtyOneHandler
<1> QED BY <1>3, <1>4, <1>5

LEMMA SetRawInv == ASSUME TtyInv, TtyClean, TtySetRaw PROVE TtyInv'
<1> USE DEF TtyInv, TtyShape
<1>1. /\ ttyCanon' = FALSE /\ \A t \in TtyReaders : ttyReader[t].pc = "out"
      /\ UNCHANGED <<ttyOpen, ttyLine, ttyMeant, ttyCin, ttyHandlers, ttyRunning, ttyReader, ttyExpect, ttyPast>>
  BY DEF TtySetRaw
<1>2. TtyShape' /\ TtyWokenRight'
  BY <1>1 DEF TtyWokenRight, AtSleep
<1>3. TtyOneHandler' /\ ToCome' = ToCome /\ TtyReaderFinds' /\ TtyNoneWaits'
  BY <1>1 DEF TtyCalm, TtyOneHandler, ToCome, TtyReaderFinds, TtyNoneWaits, AtSleep
<1> QED BY <1>1, <1>2, <1>3 DEF TtyCalm

(* A step of the reader that takes nothing.                                 *)
LEMMA ReaderGoesInv ==
  ASSUME TtyInv, TtyClean, NEW t \in TtyReaders, NEW r \in ReaderRecord, ReaderGoes(t, r),
         UNCHANGED <<ttyCin, ttyExpect>>,
         r.pc = "out" /\ r.got = 0 => r.woken # "input",
         r.pc \in AtSleep \cup {"test"} => r.woken = "no",
         r.pc = "test" => r.got <= r.size,
         r.pc \in AtSleep \cup {"awake", "get"} => r.got < r.size,
         r.pc = "get" \/ (r.pc = "awake" /\ r.woken = "input") => RbNumChars(ttyCin) > 0,
         r.pc \in AtSleep =>
             \/ RbNumChars(ttyCin) = 0
             \/ ttyReader[t].pc \in AtSleep
  PROVE  TtyInv'
<1> USE DEF TtyInv, TtyShape
<1>1. /\ ttyReader' = [ttyReader EXCEPT ![t] = r]
      /\ UNCHANGED <<ttyOpen, ttyCanon, ttyLine, ttyMeant, ttyHandlers, ttyRunning, ttyPast>>
  BY DEF ReaderGoes
<1>2. \A u \in TtyReaders : ttyReader'[u] = IF u = t THEN r ELSE ttyReader[u]
  BY <1>1
<1>3. TtyShape'
  BY <1>1
<1>4. TtyWokenRight'
  BY <1>2 DEF TtyWokenRight, AtSleep
<1>5. TtyOneHandler' /\ ToCome' = ToCome
  BY <1>1 DEF TtyCalm, TtyOneHandler, ToCome
<1>6. TtyReaderFinds'
  BY <1>2 DEF TtyCalm, TtyReaderFinds
<1>7. ttyPast' = {} => TtyNoneWaits'
  <2>1. RingSeq(ttyCin) \in Seq(RingChars) /\ Len(RingSeq(ttyCin)) = RbNumChars(ttyCin)
    BY RingSeqFacts
  <2>2. RbNumChars(ttyCin) = 0 => ~Contains(RingSeq(ttyCin), "NL")
    BY <2>1 DEF Contains
  <2> QED BY <1>1, <1>2, <2>2 DEF TtyCalm, TtyNoneWaits, AtSleep
<1> QED BY <1>1, <1>3, <1>4, <1>5, <1>6, <1>7 DEF TtyCalm

LEMMA ReadGetInv ==
  ASSUME TtyInv, TtyClean, NEW t \in TtyReaders, \A u \in TtyReaders : u = t, ReadGet(t)
  PROVE  TtyInv'
<1> DEFINE c == RbFirst(ttyCin)
           got == [ttyReader[t] EXCEPT !.got = @ + 1, !.woken = "no"]
           r == IF c = "NL" \/ ~ttyCanon THEN Returned(got) ELSE [got EXCEPT !.pc = "test"]
<1> USE DEF TtyInv, TtyShape
<1>1. /\ ttyReader[t].pc = "get" /\ ttyCin' = RbGet(ttyCin)
      /\ ttyExpect' = IF ttyExpect = <<>> THEN <<>> ELSE Tail(ttyExpect)
      /\ ttyReader' = [ttyReader EXCEPT ![t] = r]
      /\ UNCHANGED <<ttyOpen, ttyCanon, ttyLine, ttyMeant, ttyHandlers, ttyRunning, ttyPast>>
  BY DEF ReadGet, ReaderGoes
<1>2. /\ r \in ReaderRecord /\ r.woken = "no" /\ r.got = ttyReader[t].got + 1 /\ r.got # 0
      /\ r.pc \in {"out", "test"} /\ (r.pc = "test" => r.size = ttyReader[t].size)
  <2>1. ttyReader[t] \in ReaderRecord
    OBVIOUS
  <2>2. /\ got \in ReaderRecord /\ got.woken = "no" /\ got.got = ttyReader[t].got + 1 /\ got.got # 0
        /\ got.size = ttyReader[t].size
    <3> DEFINE more == [ttyReader[t] EXCEPT !.got = @ + 1]
    <3>1. ttyReader[t].got \in Nat /\ ttyReader[t].size \in Nat
      BY <2>1 DEF ReaderRecord
    <3>2. /\ more \in ReaderRecord /\ more.got = ttyReader[t].got + 1 /\ more.got # 0
          /\ more.size = ttyReader[t].size
      <4>1. ttyReader[t].got + 1 \in Nat /\ ttyReader[t].got + 1 # 0
        BY <3>1
      <4>2. ASSUME NEW n \in Nat
            PROVE  /\ [ttyReader[t] EXCEPT !.got = n] \in ReaderRecord
                   /\ [ttyReader[t] EXCEPT !.got = n].got = n
                   /\ [ttyReader[t] EXCEPT !.got = n].size = ttyReader[t].size
        BY <2>1 DEF ReaderRecord
      <4>3. more = [ttyReader[t] EXCEPT !.got = ttyReader[t].got + 1]
        OBVIOUS
      <4> QED BY <4>1, <4>2, <4>3
    <3>3. got = [more EXCEPT !.woken = "no"]
      OBVIOUS
    <3> HIDE DEF more, got
    <3> QED BY <3>2, <3>3 DEF ReaderRecord
  <2> HIDE DEF got
  <2>3. /\ Returned(got) \in ReaderRecord /\ Returned(got).woken = "no"
        /\ Returned(got).got = got.got /\ Returned(got).pc = "out"
    BY <2>2 DEF Returned, ReaderRecord, ReaderAt
  <2>4. /\ [got EXCEPT !.pc = "test"] \in ReaderRecord /\ [got EXCEPT !.pc = "test"].woken = "no"
        /\ [got EXCEPT !.pc = "test"].got = got.got /\ [got EXCEPT !.pc = "test"].pc = "test"
        /\ [got EXCEPT !.pc = "test"].size = got.size
    BY <2>2 DEF ReaderRecord, ReaderAt
  <2> QED BY <2>2, <2>3, <2>4
<1> HIDE DEF c, got, r
<1>3. RbNumChars(ttyCin) > 0 /\ RbNumChars(ttyCin) \in Nat
  BY <1>1, NumFacts DEF TtyCalm, TtyReaderFinds
<1>4. /\ ttyCin' \in RingRecord /\ RbNumChars(ttyCin') = RbNumChars(ttyCin) - 1
      /\ RingSeq(ttyCin) # <<>> /\ RingSeq(ttyCin') = Tail(RingSeq(ttyCin))
      /\ RingSeq(ttyCin) \in Seq(RingChars)
  BY <1>1, <1>3, GetTakes, RingSeqFacts
<1>5. ttyExpect' \in Seq(RingChars)
  BY <1>1
<1>6. TtyShape'
  BY <1>1, <1>2, <1>4, <1>5
<1>7. \A u \in TtyReaders : ttyReader'[u] = r
  BY <1>1
<1>8. TtyWokenRight'
  <2>1. ttyReader[t].got < ttyReader[t].size /\ ttyReader[t].got \in Nat /\ ttyReader[t].size \in Nat
    <3>1. ttyReader[t] \in ReaderRecord
      OBVIOUS
    <3> QED BY <1>1, <3>1 DEF TtyWokenRight, AtSleep, ReaderRecord
  <2> QED BY <1>2, <1>7, <2>1 DEF TtyWokenRight, AtSleep
<1>9. TtyOneHandler' /\ ToCome' = ToCome
  BY <1>1 DEF TtyCalm, TtyOneHandler, ToCome
<1>10. TtyReaderFinds' /\ TtyNoneWaits'
  BY <1>2, <1>7 DEF TtyReaderFinds, TtyNoneWaits, AtSleep
<1>11. RingSeq(ttyCin') \o ToCome' = ttyExpect'
  <2>1. RingSeq(ttyCin) \o ToCome = ttyExpect
    BY DEF TtyCalm
  <2>2. ToCome \in Seq(RingChars)
    BY ToComeType
  <2>3. /\ RingSeq(ttyCin) \o ToCome # <<>>
        /\ Tail(RingSeq(ttyCin) \o ToCome) = Tail(RingSeq(ttyCin)) \o ToCome
    BY <1>4, <2>2, TailOfConcat
  <2> QED BY <1>1, <1>4, <1>9, <2>1, <2>3
<1> QED BY <1>1, <1>3, <1>4, <1>6, <1>8, <1>9, <1>10, <1>11, SizeFacts, SMTT(30) DEF TtyCalm

LEMMA ReaderInv ==
  ASSUME TtyInv, TtyClean, NEW t \in TtyReaders, \A u \in TtyReaders : u = t,
         \/ \E size \in ReadSizes : TtyRead(t, size)
         \/ ReadTest(t) \/ ReadSleep(t) \/ ReadAwake(t) \/ ReadGet(t)
         \/ ReaderSignalled(t) \/ ReaderSignal(t) \/ ReaderKilled(t)
  PROVE  TtyInv'
<1>1. /\ ttyReader[t] \in ReaderRecord /\ ttyReader[t].got \in Nat /\ ttyReader[t].size \in Nat
      /\ RbEmpty(ttyCin) <=> RbNumChars(ttyCin) = 0
      /\ RbNumChars(ttyCin) \in Nat
  <2>1. ttyReader[t] \in ReaderRecord /\ ttyCin \in RingRecord
    BY DEF TtyInv, TtyShape
  <2> QED BY <2>1, NumFacts DEF ReaderRecord
<1>2. /\ ttyReader[t].pc = "out" /\ ttyReader[t].got = 0 => ttyReader[t].woken # "input"
      /\ ttyReader[t].pc \in AtSleep \cup {"test"} => ttyReader[t].woken = "no"
      /\ ttyReader[t].pc = "test" => ttyReader[t].got <= ttyReader[t].size
      /\ ttyReader[t].pc \in AtSleep \cup {"awake", "get"} => ttyReader[t].got < ttyReader[t].size
      /\ ttyReader[t].pc = "awake" /\ ttyReader[t].woken = "input" => RbNumChars(ttyCin) > 0
  BY DEF TtyInv, TtyWokenRight, AtSleep, TtyCalm, TtyReaderFinds
<1>3. /\ Returned(ttyReader[t]) \in ReaderRecord /\ Returned(ttyReader[t]).pc = "out"
      /\ Returned(ttyReader[t]).woken = ttyReader[t].woken /\ Returned(ttyReader[t]).got = ttyReader[t].got
  BY <1>1 DEF Returned, ReaderRecord, ReaderAt
<1>4. \A l \in ReaderAt :
          /\ [ttyReader[t] EXCEPT !.pc = l] \in ReaderRecord /\ [ttyReader[t] EXCEPT !.pc = l].pc = l
          /\ [ttyReader[t] EXCEPT !.pc = l].woken = ttyReader[t].woken
          /\ [ttyReader[t] EXCEPT !.pc = l].got = ttyReader[t].got
          /\ [ttyReader[t] EXCEPT !.pc = l].size = ttyReader[t].size
  BY <1>1 DEF ReaderRecord
<1>5. ASSUME NEW size \in ReadSizes, TtyRead(t, size) PROVE TtyInv'
  <2>1. size \in Nat
    BY TtyAssumption
  <2>2. PICK awaken \in BOOLEAN :
            ReaderGoes(t, [pc |-> "test", size |-> size, got |-> 0, woken |-> "no", awaken |-> awaken])
    BY <1>5 DEF TtyRead
  <2> DEFINE r == [pc |-> "test", size |-> size, got |-> 0, woken |-> "no", awaken |-> awaken]
  <2>3. r \in ReaderRecord /\ r.pc = "test" /\ r.got = 0 /\ r.woken = "no" /\ r.got <= r.size
    BY <2>1 DEF ReaderRecord, ReaderAt
  <2>4. ReaderGoes(t, r) /\ UNCHANGED <<ttyCin, ttyExpect>>
    BY <1>5, <2>2 DEF TtyRead
  <2> HIDE DEF r
  <2> QED BY <2>3, <2>4, ReaderGoesInv DEF AtSleep
<1>6. CASE ReadTest(t)
  <2>1. /\ ttyReader[t].pc = "test" /\ UNCHANGED <<ttyCin, ttyExpect>>
        /\ \/ ttyReader[t].got = ttyReader[t].size /\ ReaderGoes(t, Returned(ttyReader[t]))
           \/ ttyReader[t].got < ttyReader[t].size /\ RbEmpty(ttyCin)
              /\ ReaderGoes(t, [ttyReader[t] EXCEPT !.pc = "window"])
           \/ ttyReader[t].got < ttyReader[t].size
              /\ ReaderGoes(t, [ttyReader[t] EXCEPT !.pc = "awake", !.woken = "awaken"])
           \/ ttyReader[t].got < ttyReader[t].size /\ ~RbEmpty(ttyCin)
              /\ ReaderGoes(t, [ttyReader[t] EXCEPT !.pc = "get"])
    BY <1>1, <1>2, <1>6 DEF ReadTest
  <2>2. CASE ReaderGoes(t, Returned(ttyReader[t]))
    BY <1>2, <1>3, <2>1, <2>2, ReaderGoesInv DEF AtSleep
  <2>3. CASE ttyReader[t].got < ttyReader[t].size /\ RbEmpty(ttyCin)
             /\ ReaderGoes(t, [ttyReader[t] EXCEPT !.pc = "window"])
    <3> DEFINE r == [ttyReader[t] EXCEPT !.pc = "window"]
    <3>1. /\ r \in ReaderRecord /\ r.pc = "window" /\ r.woken = ttyReader[t].woken
          /\ r.got = ttyReader[t].got /\ r.size = ttyReader[t].size
      BY <1>4 DEF ReaderAt
    <3> HIDE DEF r
    <3>2. ReaderGoes(t, r)
      BY <2>3 DEF r
    <3> QED BY <1>1, <1>2, <2>1, <2>3, <3>1, <3>2, ReaderGoesInv DEF AtSleep
  <2>4. CASE ttyReader[t].got < ttyReader[t].size /\ ~RbEmpty(ttyCin)
             /\ ReaderGoes(t, [ttyReader[t] EXCEPT !.pc = "get"])
    <3> DEFINE r == [ttyReader[t] EXCEPT !.pc = "get"]
    <3>1. /\ r \in ReaderRecord /\ r.pc = "get" /\ r.woken = ttyReader[t].woken
          /\ r.got = ttyReader[t].got /\ r.size = ttyReader[t].size
      BY <1>4 DEF ReaderAt
    <3> HIDE DEF r
    <3>2. ReaderGoes(t, r)
      BY <2>4 DEF r
    <3>3. RbNumChars(ttyCin) > 0
      BY <1>1, <2>4
    <3> QED BY <1>2, <2>1, <2>4, <3>1, <3>2, <3>3, ReaderGoesInv DEF AtSleep
  <2>5. CASE ttyReader[t].got < ttyReader[t].size
             /\ ReaderGoes(t, [ttyReader[t] EXCEPT !.pc = "awake", !.woken = "awaken"])
    <3> DEFINE r == [ttyReader[t] EXCEPT !.pc = "awake", !.woken = "awaken"]
    <3>1. /\ r \in ReaderRecord /\ r.pc = "awake" /\ r.woken = "awaken"
          /\ r.got = ttyReader[t].got /\ r.size = ttyReader[t].size
      BY <1>1 DEF ReaderRecord, ReaderAt
    <3> HIDE DEF r
    <3>2. ReaderGoes(t, r)
      BY <2>5 DEF r
    <3> QED BY <2>1, <2>5, <3>1, <3>2, ReaderGoesInv DEF AtSleep
  <2> QED BY <2>1, <2>2, <2>3, <2>4, <2>5
<1>7. CASE ReadSleep(t)
  <2> DEFINE r == [ttyReader[t] EXCEPT !.pc = "sleep"]
  <2>1. /\ r \in ReaderRecord /\ r.pc = "sleep" /\ r.woken = ttyReader[t].woken
        /\ r.got = ttyReader[t].got /\ r.size = ttyReader[t].size
    BY <1>4 DEF ReaderAt
  <2>2. ttyReader[t].pc = "window" /\ ReaderGoes(t, r) /\ UNCHANGED <<ttyCin, ttyExpect>>
    BY <1>7 DEF ReadSleep
  <2> HIDE DEF r
  <2> QED BY <1>2, <2>1, <2>2, ReaderGoesInv DEF AtSleep
<1>8. CASE ReadAwake(t)
  <2>1. ttyReader[t].pc = "awake" /\ UNCHANGED <<ttyCin, ttyExpect>>
    BY <1>8 DEF ReadAwake
  <2>2. CASE RbEmpty(ttyCin)
    <3>1. ReaderGoes(t, Returned(ttyReader[t]))
      BY <1>8, <2>2 DEF ReadAwake
    <3> QED BY <1>1, <1>2, <1>3, <2>1, <2>2, <3>1, ReaderGoesInv DEF AtSleep
  <2>3. CASE ~RbEmpty(ttyCin)
    <3> DEFINE r == [ttyReader[t] EXCEPT !.pc = "get"]
    <3>1. /\ r \in ReaderRecord /\ r.pc = "get" /\ r.woken = ttyReader[t].woken
          /\ r.got = ttyReader[t].got /\ r.size = ttyReader[t].size
      BY <1>4 DEF ReaderAt
    <3>2. ReaderGoes(t, r)
      BY <1>8, <2>3 DEF ReadAwake
    <3> HIDE DEF r
    <3>3. RbNumChars(ttyCin) > 0
      BY <1>1, <2>3
    <3> QED BY <1>2, <2>1, <3>1, <3>2, <3>3, ReaderGoesInv DEF AtSleep
  <2> QED BY <2>2, <2>3
<1>9. CASE ReadGet(t)
  BY <1>9, ReadGetInv
<1>10. ASSUME NEW l \in AtSleep, ttyReader[t].pc \in AtSleep,
              ReaderGoes(t, [ttyReader[t] EXCEPT !.pc = l]), UNCHANGED <<ttyCin, ttyExpect>>
       PROVE  TtyInv'
  <2> DEFINE r == [ttyReader[t] EXCEPT !.pc = l]
  <2>1. /\ r \in ReaderRecord /\ r.pc = l /\ r.woken = ttyReader[t].woken
        /\ r.got = ttyReader[t].got /\ r.size = ttyReader[t].size
    BY <1>4 DEF ReaderAt, AtSleep
  <2> HIDE DEF r
  <2>2. ReaderGoes(t, r)
    BY <1>10 DEF r
  <2> QED BY <1>2, <1>10, <2>1, <2>2, ReaderGoesInv DEF AtSleep
<1>11. CASE ReaderSignalled(t)
  BY <1>10, <1>11 DEF ReaderSignalled, AtSleep
<1>12. CASE ReaderSignal(t)
  <2>1. /\ UNCHANGED <<ttyCin, ttyExpect>> /\ ttyReader[t].pc \in AtSleep
        /\ \/ ReaderGoes(t, [ttyReader[t] EXCEPT !.pc = "awake", !.woken = "signal", !.awaken = TRUE])
           \/ \E l \in AtSleep : ReaderGoes(t, [ttyReader[t] EXCEPT !.pc = l])
    BY <1>12 DEF ReaderSignal, AtSleep
  <2>2. CASE ReaderGoes(t, [ttyReader[t] EXCEPT !.pc = "awake", !.woken = "signal", !.awaken = TRUE])
    <3> DEFINE r == [ttyReader[t] EXCEPT !.pc = "awake", !.woken = "signal", !.awaken = TRUE]
    <3>1. /\ r \in ReaderRecord /\ r.pc = "awake" /\ r.woken = "signal"
          /\ r.got = ttyReader[t].got /\ r.size = ttyReader[t].size
      BY <1>1 DEF ReaderRecord, ReaderAt
    <3> HIDE DEF r
    <3>2. ReaderGoes(t, r)
      BY <2>2 DEF r
    <3> QED BY <1>2, <2>1, <3>1, <3>2, ReaderGoesInv DEF AtSleep
  <2> QED BY <1>10, <2>1, <2>2
<1>13. CASE ReaderKilled(t)
  <2>1. NotReading \in ReaderRecord /\ NotReading.pc = "out" /\ NotReading.woken = "no"
    BY DEF NotReading, ReaderRecord, ReaderAt
  <2>2. ReaderGoes(t, NotReading) /\ UNCHANGED <<ttyCin, ttyExpect>>
    BY <1>13 DEF ReaderKilled
  <2> QED BY <2>1, <2>2, ReaderGoesInv DEF AtSleep
<1> QED BY <1>5, <1>6, <1>7, <1>8, <1>9, <1>11, <1>12, <1>13

-----------------------------------------------------------------------------
LEMMA TtyStep ==
  ASSUME TtyInv, [TtyNext]_ttyVars, \A t, u \in TtyReaders : t = u
  PROVE  TtyInv'
<1>1. CASE UNCHANGED ttyVars
  BY <1>1, UnchangedInv
<1>2. CASE TtyNext
  <2>1. TtyClean
    BY <1>2 DEF TtyNext, TtyClean
  <2>2. ASSUME NEW key \in Keys, TtyIn(key) PROVE TtyInv'
    BY <2>1, <2>2, KeyInv
  <2>3. ASSUME NEW k \in DOMAIN ttyHandlers, HandlerPuts(k) \/ HandlerEnds(k) PROVE TtyInv'
    BY <2>1, <2>3, HandlerPutsInv, HandlerEndsInv
  <2>4. ASSUME TtyOpens \/ TtyCloses \/ TtySetRaw PROVE TtyInv'
    BY <2>1, <2>4, OpensInv, ClosesInv, SetRawInv
  <2>5. ASSUME NEW t \in TtyReaders,
               \/ \E size \in ReadSizes : TtyRead(t, size)
               \/ ReadTest(t) \/ ReadSleep(t) \/ ReadAwake(t) \/ ReadGet(t)
               \/ ReaderSignalled(t) \/ ReaderSignal(t) \/ ReaderKilled(t)
        PROVE  TtyInv'
    BY <2>1, <2>5, ReaderInv
  <2> QED BY <1>2, <2>2, <2>3, <2>4, <2>5 DEF TtyNext
<1> QED BY <1>1, <1>2

(* What is typed on a terminal reaches its reader whole and in order, also when a
   line is longer than the ring and its handler is suspended in the middle of
   it; the reader does not sleep in tty_read beside it, and one that was woken
   for it does not find nothing: unless a key came while a handler was suspended,
   the ring was overrun, or the wakeup came between test and sleep or while a
   signal had made the reader AWAKEN.  A signal may end the reader, end its read
   or put it back to sleep at any time.  Two readers are excluded: the second may
   find the ring empty when it wakes up, and returns nothing.               *)
THEOREM LinesDelivered ==
  ASSUME \A t, u \in TtyReaders : t = u
  PROVE  TtySpec => []TtySafety
<1>1. TtyInv /\ [TtyNext]_ttyVars => TtyInv'
  BY TtyStep
<1> QED BY <1>1, TtyInitInv, InvTtySafety, PTL DEF TtySpec

-----------------------------------------------------------------------------
(***************************************************************************)
(* The packets between the stub of the remote debugger and the debugger,   *)
(* for every memory, number of breakpoints, list of tasks and number of    *)
(* damaged packets.                                                        *)
(*                                                                         *)
(* The exchange of one request is a cycle of a few states of both ends and *)
(* of the line; what the ends know of breakpoints, memory and threads is   *)
(* related in each of them: before the stub handles the request as the     *)
(* debugger knows it, after that as it will once the reply is there.       *)
(***************************************************************************)

Stopping == dbgPc \in {"run", "get"} /\ ~dbgReply

(* No request is under way; or the last reply is not acknowledged yet.      *)
Resting ==
    /\ gdbPc = "idle" /\ Stopping
    /\ dbgTo \in {<<>>, <<Ack>>} /\ dbgFrom = <<>>
Replied ==
    /\ gdbPc = "idle" /\ dbgPc = "put" /\ ~dbgReply
    /\ dbgTo = <<Ack>> /\ dbgFrom = <<>>
    /\ dbgReq = gdbReq /\ (~NoisyReplies => gdbGot = dbgAnswer)

(* A request is on the line, perhaps behind a +; or was refused.            *)
Asking ==
    /\ gdbPc = "ack" /\ ~dbgReply /\ dbgFrom = <<>>
    /\ \E good \in BOOLEAN :
           \/ dbgPc \in {"run", "get"} /\ dbgTo = <<Packet(gdbReq, good)>>
           \/ dbgPc \in {"run", "get", "put"} /\ dbgTo = <<Ack, Packet(gdbReq, good)>>
Refused ==
    /\ gdbPc = "ack" /\ dbgPc = "get" /\ ~dbgReply
    /\ dbgTo = <<>> /\ dbgFrom = <<Nak>>

(* It was accepted, and the debugger is told so before it is told more.     *)
Acked(all, rest) ==
    \/ gdbPc = "ack" /\ dbgFrom = all
    \/ gdbPc = (IF gdbReq.op = "k" THEN "done" ELSE "reply") /\ dbgFrom = rest
Handling ==
    /\ dbgPc = "handle" /\ ~dbgReply /\ dbgReq = gdbReq
    /\ dbgTo = <<>> /\ Acked(<<Ack>>, <<>>)
Going ==
    /\ dbgPc = "run" /\ dbgReply /\ dbgReq = gdbReq /\ gdbReq.op \in Resumes
    /\ dbgTo = <<>> /\ Acked(<<Ack>>, <<>>)
Killed ==
    /\ Stopping /\ gdbReq.op = "k"
    /\ dbgTo = <<>> /\ Acked(<<Ack>>, <<>>)

(* The reply is on the line, or what was sent in its place; or was refused. *)
Answering ==
    /\ dbgPc = "put" /\ ~dbgReply /\ dbgReq = gdbReq /\ gdbReq.op # "k" /\ dbgTo = <<>>
    /\ \E body \in {dbgAnswer, EmptyReply}, good \in BOOLEAN :
           /\ Acked(<<Ack, Packet(body, good)>>, <<Packet(body, good)>>)
           /\ ~NoisyReplies => body = dbgAnswer /\ good
Again ==
    /\ dbgPc = "put" /\ ~dbgReply /\ dbgReq = gdbReq /\ gdbReq.op # "k" /\ NoisyReplies
    /\ gdbPc = "reply" /\ dbgTo = <<Nak>> /\ dbgFrom = <<>>

Before == Resting \/ Replied \/ Asking \/ Refused \/ Handling

Phases == Before \/ Going \/ Killed \/ Answering \/ Again

-----------------------------------------------------------------------------
(* The table of breakpoints and memory are right for a debugger that has set those
   at bpts in this program.                                                 *)
InUse == {i \in 1..MAX_BREAK_POINTS : dbgBpts[i].addr # 0}

Exact(bpts, prog) ==
    /\ \A i \in InUse : dbgBpts[i].addr \in bpts /\ dbgBpts[i].val = prog[dbgBpts[i].addr]
    /\ \A a \in bpts : \E i \in InUse : dbgBpts[i].addr = a
    /\ \A i, j \in InUse : dbgBpts[i].addr = dbgBpts[j].addr => i = j
    /\ \A a \in DbgAddrs : dbgMem[a] = IF a \in bpts THEN BREAK_OPC ELSE prog[a]

(* A debugger that knows the threads of this list knows the first of task_queue;
   the next one it will be told of comes after them.                        *)
Told(list, listed) ==
    /\ list \in Seq(Nat) /\ Len(list) <= Len(TaskQueue)
    /\ \A k \in 1..Len(list) : list[k] = TaskQueue[k]
    /\ listed => list = TaskQueue
NextAfter(list) == list # <<>> => dbgLast = TaskQueue[Len(list)]

(* The debugger asks for what it may ask for.                               *)
Allowed ==
    /\ gdbReq.op \in {"Z", "M"} => gdbReq.addr \in DbgAddrs \ gdbBpts
    /\ gdbReq.op = "z" => gdbReq.addr \in gdbBpts
    /\ gdbReq.op = "M" => gdbReq.val \in Nat
    /\ gdbReq.op = "qs" => gdbList # <<>> /\ ~gdbListed

(* Both ends agree: before the request is handled; while the kernel goes on; and
   once it is answered, on what the debugger will make of the answer.       *)
AgreeBefore ==
    /\ Exact(gdbBpts, gdbProg)
    /\ NextAfter(gdbList)
AgreeGoing ==
    /\ Exact(gdbBpts, gdbProg)
AgreeAfter ==
    /\ Exact(LearntBpts(dbgAnswer), LearntProg(dbgAnswer))
    /\ Told(LearntList(dbgAnswer), LearntListed(dbgAnswer))
    /\ gdbReq.op \notin Resumes => NextAfter(LearntList(dbgAnswer))

StubType ==
    /\ dbgBpts \in [1..MAX_BREAK_POINTS -> [addr : DbgAddrs \cup {0}, val : Nat]]
    /\ dbgMem \in [DbgAddrs -> Nat]
    /\ dbgReply \in BOOLEAN
GdbType ==
    /\ gdbBpts \subseteq DbgAddrs
    /\ gdbProg \in [DbgAddrs -> Nat]
    /\ gdbListed \in BOOLEAN

KdbgFrame ==
    /\ StubType /\ GdbType
    /\ Told(gdbList, gdbListed)
    /\ gdbPc = "reply" /\ gdbReq.op \in Resumes => gdbList = <<>>
    /\ gdbPc \in {"ack", "reply"} => Allowed

KdbgStage ==
    \/ Before /\ AgreeBefore
    \/ (Going \/ Killed) /\ AgreeGoing
    \/ Answering /\ AgreeAfter

KdbgInv == KdbgFrame /\ KdbgStage

-----------------------------------------------------------------------------
(* Lines hold at most two packets.                                          *)
LEMMA TwoItems == \A x, y : Append(<<x>>, y) = <<x, y>>
<1> TAKE x, y
<1> DEFINE S == {x, y}
<1>1. <<x>> \in Seq(S) /\ y \in S /\ <<x, y>> \in Seq(S) /\ Len(<<x>>) = 1 /\ Len(<<x, y>>) = 2
  BY SMT
<1>2. /\ Append(<<x>>, y) \in Seq(S) /\ Len(Append(<<x>>, y)) = 2
      /\ Append(<<x>>, y)[1] = x /\ Append(<<x>>, y)[2] = y
  BY <1>1, AppendProperties, SMT
<1>3. <<x, y>>[1] = x /\ <<x, y>>[2] = y
  OBVIOUS
<1> HIDE DEF S
<1>4. \A i \in 1..2 : Append(<<x>>, y)[i] = <<x, y>>[i]
  BY <1>2, <1>3, SMT
<1> QED BY <1>1, <1>2, <1>4, SeqEqual, Zenon

LEMMA LineFacts ==
  /\ \A x : Head(<<x>>) = x /\ Tail(<<x>>) = <<>> /\ Append(<<>>, x) = <<x>> /\ <<x>> # <<>>
  /\ \A x, y : /\ Head(<<x, y>>) = x /\ Tail(<<x, y>>) = <<y>> /\ <<x, y>> # <<>>
               /\ Append(<<x>>, y) = <<x, y>>
<1>1. \A x : Head(<<x>>) = x /\ Tail(<<x>>) = <<>> /\ Append(<<>>, x) = <<x>> /\ <<x>> # <<>>
  BY SMT
<1>2. \A x, y : Head(<<x, y>>) = x /\ Tail(<<x, y>>) = <<y>> /\ <<x, y>> # <<>>
  BY SMT
<1> QED BY <1>1, <1>2, TwoItems

LEMMA PacketFacts ==
  /\ \A b, g : /\ Packet(b, g).kind = "packet" /\ Packet(b, g).body = b /\ Packet(b, g).good = g
               /\ Packet(b, g) # Ack
  /\ Ack.kind = "+" /\ Nak.kind = "-" /\ Ack # Nak
  BY SMT DEF Packet, Ack, Nak

(* The exchange: every step leads from one of its phases to another, or stays. *)
LEMMA SendFacts ==
  ASSUME NEW body, SendPacket(body)
  PROVE  \E good \in BOOLEAN : dbgTo' = Append(dbgTo, Packet(body, good))
  BY DEF SendPacket

LEMMA PutFacts ==
  ASSUME NEW reply, PutReply(reply)
  PROVE  \E good \in BOOLEAN : dbgFrom' = Append(dbgFrom, Packet(reply, good)) /\ (~NoisyReplies => good)
<1>1. PICK p \in {Packet(reply, g) : g \in IF NoisyReplies /\ noise < MaxNoise THEN BOOLEAN ELSE {TRUE}} :
          dbgFrom' = Append(dbgFrom, p)
  BY DEF PutReply
<1>2. PICK g \in IF NoisyReplies /\ noise < MaxNoise THEN BOOLEAN ELSE {TRUE} : p = Packet(reply, g)
  OBVIOUS
<1>3. g \in BOOLEAN /\ (~NoisyReplies => g)
  OBVIOUS
<1> QED BY <1>1, <1>2, <1>3

LEMMA PhaseAnswer ==
  ASSUME Phases, dbgPc = "handle", dbgReq.op # "k", NEW reply, Answers(reply)
  PROVE  Answering'
<1>1. Handling
  BY DEF Phases, Before, Resting, Replied, Asking, Refused, Going, Killed, Answering, Again, Stopping
<1>2. PICK good \in BOOLEAN : dbgFrom' = Append(dbgFrom, Packet(reply, good)) /\ (~NoisyReplies => good)
  BY PutFacts DEF Answers
<1> DEFINE p == Packet(reply, good)
<1>3. Acked(<<Ack, p>>, <<p>>)'
  <2> HIDE DEF p
  <2> QED BY <1>1, <1>2, LineFacts DEF Handling, Acked, Answers, gdbVars, p
<1> QED BY <1>1, <1>2, <1>3 DEF Handling, Answering, Answers, gdbVars

LEMMA PhaseSkips == Phases /\ GetSkips => Before'
<1> SUFFICES ASSUME Phases, GetSkips PROVE Before'
  OBVIOUS
<1>1. dbgPc = "get" /\ dbgTo # <<>> /\ Head(dbgTo).kind # "packet" /\ dbgTo' = Tail(dbgTo)
      /\ UNCHANGED <<dbgPc, dbgReq, dbgAnswer, dbgReply, gdbPc, gdbReq, gdbGot, dbgFrom>>
  BY DEF GetSkips, stubVars, gdbVars
<1>2. CASE Resting
  BY <1>1, <1>2, LineFacts DEF Resting, Stopping, Phases, Before
<1>3. CASE Asking
  <2>1. PICK good \in BOOLEAN : dbgTo = <<Ack, Packet(gdbReq, good)>>
    BY <1>1, <1>3, LineFacts, PacketFacts DEF Asking
  <2>2. dbgTo' = <<Packet(gdbReq, good)>>
    BY <1>1, <2>1, LineFacts
  <2> QED BY <1>1, <1>3, <2>2 DEF Asking, Phases, Before
<1> QED BY <1>1, <1>2, <1>3
        DEF Phases, Before, Replied, Refused, Handling, Going, Killed, Answering, Again, Stopping

LEMMA PhaseGetPacket == Phases /\ GetPacket => Before'
<1> SUFFICES ASSUME Phases, GetPacket PROVE Before'
  OBVIOUS
<1>1. dbgPc = "get" /\ dbgTo # <<>> /\ Head(dbgTo).kind = "packet" /\ dbgTo' = Tail(dbgTo)
      /\ UNCHANGED <<dbgAnswer, dbgReply, gdbPc, gdbReq, gdbGot>>
  BY DEF GetPacket, stubVars, gdbVars
<1>2. Asking
  BY <1>1, LineFacts, PacketFacts
     DEF Phases, Before, Resting, Replied, Refused, Handling, Going, Killed, Answering, Again, Stopping
<1>3. PICK good \in BOOLEAN : dbgTo = <<Packet(gdbReq, good)>>
  BY <1>1, <1>2, LineFacts, PacketFacts DEF Asking
<1>4. Head(dbgTo).body = gdbReq /\ Head(dbgTo).good = good /\ dbgTo' = <<>>
  BY <1>1, <1>3, LineFacts, PacketFacts
<1>5. CASE good
  <2>1. dbgFrom' = <<Ack>> /\ dbgReq' = gdbReq /\ dbgPc' = "handle"
    BY <1>2, <1>4, <1>5, LineFacts DEF GetPacket, Accepts, Asking
  <2> QED BY <1>1, <1>2, <1>4, <2>1 DEF Phases, Before, Handling, Acked, Asking
<1>6. CASE ~good
  <2>1. dbgFrom' = <<Nak>> /\ dbgPc' = "get"
    BY <1>1, <1>2, <1>4, <1>6, LineFacts DEF GetPacket, Accepts, Asking
  <2> QED BY <1>1, <1>2, <1>4, <2>1 DEF Phases, Before, Refused, Asking
<1> QED BY <1>5, <1>6

LEMMA PhasePutAcked == Phases /\ PutAcked => Before' \/ (NoisyReplies /\ Answering')
<1> SUFFICES ASSUME Phases, PutAcked PROVE Before' \/ (NoisyReplies /\ Answering')
  OBVIOUS
<1>1. dbgPc = "put" /\ dbgTo # <<>> /\ dbgTo' = Tail(dbgTo)
      /\ UNCHANGED <<dbgReply, gdbPc, gdbReq, gdbGot>>
  BY DEF PutAcked, gdbVars
<1>2. CASE Replied
  BY <1>1, <1>2, LineFacts DEF PutAcked, Replied, Resting, Stopping, Phases, Before
<1>3. CASE Asking
  <2>1. PICK good \in BOOLEAN : dbgTo = <<Ack, Packet(gdbReq, good)>>
    BY <1>1, <1>3 DEF Asking
  <2>2. dbgTo' = <<Packet(gdbReq, good)>> /\ dbgPc' = "get" /\ dbgFrom' = dbgFrom
    BY <1>1, <2>1, LineFacts DEF PutAcked
  <2> QED BY <1>1, <1>3, <2>2 DEF Asking, Phases, Before
<1>4. CASE Again
  <2>1. PutReply(EmptyReply) /\ UNCHANGED <<dbgPc, dbgReq, dbgAnswer>> /\ dbgTo' = <<>>
    BY <1>1, <1>4, LineFacts, PacketFacts DEF PutAcked, Again
  <2>2. PICK good \in BOOLEAN : dbgFrom' = Append(dbgFrom, Packet(EmptyReply, good))
    BY <2>1, PutFacts
  <2>3. dbgFrom' = <<Packet(EmptyReply, good)>>
    BY <1>4, <2>2, LineFacts DEF Again
  <2>4. Acked(<<Ack, Packet(EmptyReply, good)>>, <<Packet(EmptyReply, good)>>)'
    BY <1>1, <1>4, <2>3 DEF Again, Acked
  <2> QED BY <1>1, <1>4, <2>1, <2>4 DEF Again, Answering, Phases
<1> QED BY <1>1, <1>2, <1>3, <1>4
        DEF Phases, Before, Resting, Refused, Handling, Going, Killed, Answering, Stopping

LEMMA PhaseResume == Phases /\ HandleResume => (Going \/ Killed)'
<1> SUFFICES ASSUME Phases, HandleResume PROVE (Going \/ Killed)'
  OBVIOUS
<1>1. Handling
  BY DEF HandleResume, Handles, Phases, Before, Resting, Replied, Asking, Refused, Going, Killed,
         Answering, Again, Stopping
<1>2. /\ dbgReq.op \in {"s", "c", "k"} /\ dbgReply' = (dbgReply \/ dbgReq.op # "k") /\ dbgPc' = "run"
      /\ UNCHANGED <<dbgReq, dbgTo, dbgFrom, gdbPc, gdbReq>>
  BY DEF HandleResume, Handles, gdbVars
<1>3. Acked(<<Ack>>, <<>>)'
  BY <1>1, <1>2 DEF Handling, Acked
<1> QED BY <1>1, <1>2, <1>3 DEF Handling, Going, Killed, Stopping, Resumes

LEMMA PhaseStop ==
  ASSUME Phases, NEW t, Stop(t)
  PROVE  \/ /\ ~Going /\ dbgAnswer' = dbgAnswer
            /\ (Resting /\ Resting') \/ (Asking /\ Asking') \/ (Killed /\ Killed')
         \/ Going /\ Answering' /\ dbgAnswer' = Reply("S", 5)
<1>1. dbgPc = "run" /\ dbgReply' = FALSE /\ UNCHANGED <<dbgReq, dbgTo, gdbPc, gdbReq, gdbGot>>
  BY DEF Stop, gdbVars
<1>2. CASE Going
  <2>1. dbgPc' = "put" /\ dbgAnswer' = Reply("S", 5) /\ PutReply(Reply("S", 5))
    BY <1>2 DEF Stop, Going
  <2>2. PICK good \in BOOLEAN :
            dbgFrom' = Append(dbgFrom, Packet(dbgAnswer', good)) /\ (~NoisyReplies => good)
    BY <2>1, PutFacts
  <2> DEFINE p == Packet(dbgAnswer', good)
  <2>3. (gdbPc = "ack" /\ dbgFrom' = <<Ack, p>>) \/ (gdbPc = "reply" /\ dbgFrom' = <<p>>)
    <3> HIDE DEF p
    <3> QED BY <1>2, <2>2, LineFacts DEF Going, Acked, Resumes, p
  <2>4. gdbReq.op # "k"
    BY <1>2 DEF Going, Resumes
  <2> QED BY <1>1, <1>2, <2>1, <2>2, <2>3, <2>4 DEF Going, Answering, Acked
<1>3. CASE ~dbgReply
  <2>1. dbgPc' = "get" /\ UNCHANGED <<dbgAnswer, dbgFrom>> /\ ~dbgReply' /\ ~Going
    BY <1>1, <1>3 DEF Stop, Going
  <2>2. CASE Resting
    <3>1. dbgTo' \in {<<>>, <<Ack>>}
      BY <1>1, <2>2 DEF Resting
    <3>2. dbgFrom' = <<>> /\ gdbPc' = "idle" /\ dbgPc' \in {"run", "get"}
      BY <1>1, <2>1, <2>2 DEF Resting
    <3>3. Resting'
      BY <2>1, <3>1, <3>2 DEF Resting, Stopping
    <3> QED BY <2>1, <2>2, <3>3
  <2>3. CASE Asking
    <3>1. PICK good \in BOOLEAN : dbgTo = <<Packet(gdbReq, good)>> \/ dbgTo = <<Ack, Packet(gdbReq, good)>>
      BY <2>3 DEF Asking
    <3> QED BY <1>1, <2>1, <2>3, <3>1 DEF Asking
  <2>4. CASE Killed
    BY <1>1, <2>1, <2>4 DEF Killed, Acked, Stopping
  <2> QED BY <1>1, <1>3, <2>2, <2>3, <2>4
          DEF Phases, Before, Replied, Refused, Handling, Going, Answering, Again
<1> QED BY <1>1, <1>2, <1>3
        DEF Phases, Before, Resting, Replied, Asking, Refused, Handling, Killed, Answering, Again, Stopping

LEMMA PhaseAsks == ASSUME Phases, NEW req, GdbAsks(req) PROVE Asking' /\ (Resting \/ Replied)
<1>1. /\ gdbPc = "idle" /\ gdbReq' = req /\ gdbPc' = "ack" /\ SendPacket(req)
      /\ dbgPc' = dbgPc /\ dbgReply' = dbgReply /\ dbgFrom' = dbgFrom
  BY DEF GdbAsks, stubVars
<1>2. PICK good \in BOOLEAN : dbgTo' = Append(dbgTo, Packet(req, good))
  BY <1>1, SendFacts
<1> DEFINE p == Packet(req, good)
<1>3. Resting \/ Replied
  BY <1>1 DEF Phases, Before, Asking, Refused, Handling, Going, Killed, Answering, Again, Acked
<1>4. dbgTo' = <<Ack, p>> \/ (dbgTo' = <<p>> /\ dbgPc # "put")
  <2> HIDE DEF p
  <2> QED BY <1>2, <1>3, LineFacts DEF Resting, Replied, Stopping, p
<1>5. dbgPc' \in {"run", "get", "put"} /\ ~dbgReply' /\ dbgFrom' = <<>>
  BY <1>1, <1>3 DEF Resting, Replied, Stopping
<1>6. Asking'
  BY <1>1, <1>4, <1>5 DEF Asking
<1> QED BY <1>3, <1>6

LEMMA PhaseAcked ==
  ASSUME Phases, GdbAcked
  PROVE  \/ Refused /\ Asking'
         \/ Handling /\ Handling'
         \/ Going /\ Going'
         \/ Killed /\ Killed'
         \/ Answering /\ Answering'
<1>1. /\ gdbPc = "ack" /\ dbgFrom # <<>> /\ Head(dbgFrom).kind # "packet" /\ dbgFrom' = Tail(dbgFrom)
      /\ UNCHANGED <<dbgPc, dbgReq, dbgAnswer, dbgReply, gdbReq, gdbGot>>
  BY DEF GdbAcked, stubVars
<1>2. CASE Refused
  <2>1. SendPacket(gdbReq) /\ gdbPc' = gdbPc /\ dbgFrom' = <<>>
    BY <1>1, <1>2, LineFacts, PacketFacts DEF GdbAcked, Refused
  <2>2. PICK good \in BOOLEAN : dbgTo' = Append(dbgTo, Packet(gdbReq, good))
    BY <2>1, SendFacts
  <2>3. dbgTo' = <<Packet(gdbReq', good)>>
    BY <1>1, <1>2, <2>2, LineFacts DEF Refused
  <2>4. Asking'
    BY <1>1, <1>2, <2>1, <2>3 DEF Refused, Asking
  <2> QED BY <1>2, <2>4
<1>3. ASSUME NEW rest,
             \/ dbgFrom = <<Ack>> /\ rest = <<>>
             \/ \E p : dbgFrom = <<Ack, p>> /\ rest = <<p>>
      PROVE  dbgFrom' = rest /\ gdbPc' = (IF gdbReq.op = "k" THEN "done" ELSE "reply") /\ dbgTo' = dbgTo
  <2>1. Head(dbgFrom) = Ack
    BY <1>3, LineFacts
  <2> QED BY <1>1, <1>3, <2>1, LineFacts, ZenonT(60) DEF GdbAcked
<1>4. ASSUME Acked(<<Ack>>, <<>>) PROVE Acked(<<Ack>>, <<>>)' /\ dbgTo' = dbgTo
  BY <1>1, <1>3, <1>4 DEF Acked
<1>5. CASE Handling
  BY <1>1, <1>4, <1>5 DEF Handling
<1>6. CASE Going
  BY <1>1, <1>4, <1>6 DEF Going
<1>7. CASE Killed
  BY <1>1, <1>4, <1>7 DEF Killed, Stopping
<1>8. CASE Answering
  <2>1. PICK body \in {dbgAnswer, EmptyReply}, good \in BOOLEAN :
            /\ Acked(<<Ack, Packet(body, good)>>, <<Packet(body, good)>>)
            /\ ~NoisyReplies => body = dbgAnswer /\ good
    BY <1>8 DEF Answering
  <2>2. dbgFrom = <<Ack, Packet(body, good)>>
    BY <1>1, <1>8, <2>1 DEF Acked, Answering
  <2>3. dbgFrom' = <<Packet(body, good)>> /\ gdbPc' = "reply" /\ dbgTo' = dbgTo
    BY <1>3, <1>8, <2>2 DEF Answering
  <2>4. Acked(<<Ack, Packet(body, good)>>, <<Packet(body, good)>>)'
    BY <1>1, <1>8, <2>3 DEF Acked, Answering
  <2>5. Answering'
    BY <1>1, <1>8, <2>1, <2>3, <2>4 DEF Answering
  <2> QED BY <1>8, <2>5
<1> QED BY <1>1, <1>2, <1>5, <1>6, <1>7, <1>8 DEF Phases, Before, Resting, Replied, Asking, Again

LEMMA PhaseGetsReply ==
  ASSUME Phases, GdbGetsReply
  PROVE  /\ Answering
         /\ \/ Replied' /\ \E body : Learns(body) /\ (~NoisyReplies => body = dbgAnswer)
            \/ NoisyReplies /\ Again'
<1>1. /\ gdbPc = "reply" /\ dbgFrom # <<>> /\ Head(dbgFrom).kind = "packet" /\ dbgFrom' = Tail(dbgFrom)
      /\ UNCHANGED <<dbgPc, dbgReq, dbgAnswer, dbgReply, gdbReq>>
  BY DEF GdbGetsReply, stubVars
<1>2. Answering
  BY <1>1 DEF Phases, Before, Resting, Replied, Asking, Refused, Handling, Going, Killed, Again, Acked
<1>3. PICK body \in {dbgAnswer, EmptyReply}, good \in BOOLEAN :
          /\ dbgFrom = <<Packet(body, good)>>
          /\ ~NoisyReplies => body = dbgAnswer /\ good
  BY <1>1, <1>2 DEF Answering, Acked
<1>4. Head(dbgFrom).good = good /\ Head(dbgFrom).body = body /\ dbgFrom' = <<>>
  BY <1>1, <1>3, LineFacts, PacketFacts
<1>5. CASE good
  <2>1. dbgTo' = <<Ack>> /\ gdbPc' = "idle" /\ Learns(body)
    BY <1>2, <1>4, <1>5, LineFacts DEF GdbGetsReply, Answering
  <2>2. gdbGot' = body
    BY <2>1 DEF Learns
  <2>3. Replied'
    BY <1>1, <1>2, <1>3, <1>4, <2>1, <2>2 DEF Replied, Answering
  <2> QED BY <1>2, <1>3, <2>1, <2>3
<1>6. CASE ~good
  <2>1. dbgTo' = <<Nak>> /\ gdbPc' = gdbPc
    BY <1>2, <1>4, <1>6, LineFacts DEF GdbGetsReply, Answering
  <2>2. Again'
    BY <1>1, <1>2, <1>3, <1>4, <1>6, <2>1 DEF Again, Answering
  <2> QED BY <1>2, <1>3, <1>6, <2>2
<1> QED BY <1>5, <1>6

-----------------------------------------------------------------------------
(* What the ends know, as long as replies are not damaged.                  *)
LEMMA Sizes ==
  /\ MAX_BREAK_POINTS \in Nat /\ 0 \notin DbgAddrs /\ Mapped \subseteq DbgAddrs /\ MemBytes \subseteq Nat
  /\ TaskQueue \in Seq(Nat \ {0}) /\ TaskQueue # <<>>
  /\ \A i, j \in DOMAIN TaskQueue : TaskQueue[i] = TaskQueue[j] => i = j
  BY KdbgAssumption

LEMMA Threads ==
  /\ Len(TaskQueue) \in Nat \ {0} /\ DOMAIN TaskQueue = 1..Len(TaskQueue)
  /\ Head(TaskQueue) = TaskQueue[1]
  /\ \A i \in 1..Len(TaskQueue) : TaskQueue[i] \in Nat \ {0}
  BY Sizes

LEMMA InvPhases == KdbgInv => Phases
  BY DEF KdbgInv, KdbgStage, Phases

LEMMA InvHandling ==
  ASSUME KdbgInv, dbgPc = "handle"
  PROVE  Handling /\ AgreeBefore /\ Allowed /\ dbgReq = gdbReq /\ KdbgFrame
<1>1. Handling /\ AgreeBefore
  BY DEF KdbgInv, KdbgStage, Before, Resting, Replied, Asking, Refused, Going, Killed, Answering, Stopping
<1>2. Allowed
  BY <1>1 DEF KdbgInv, KdbgFrame, Handling, Acked, Allowed
<1> QED BY <1>1, <1>2 DEF KdbgInv, Handling

(* Every answer leaves what the debugger knows alone.                       *)
LEMMA AnswerFrame ==
  ASSUME KdbgInv, dbgPc = "handle", dbgReq.op # "k", NEW reply, Answers(reply), StubType'
  PROVE  KdbgFrame' /\ Answering'
<1>1. UNCHANGED <<gdbPc, gdbReq, gdbBpts, gdbProg, gdbList, gdbListed>>
  BY DEF Answers, gdbVars
<1>2. GdbType' /\ Told(gdbList, gdbListed)' /\ (gdbPc \in {"ack", "reply"} => Allowed)'
  BY <1>1 DEF KdbgInv, KdbgFrame, GdbType, Told, Allowed
<1>3. (gdbPc = "reply" /\ gdbReq.op \in Resumes => gdbList = <<>>)'
  BY <1>1 DEF KdbgInv, KdbgFrame, Resumes
<1>4. Answering'
  BY InvPhases, PhaseAnswer
<1> QED BY <1>2, <1>3, <1>4 DEF KdbgFrame

LEMMA AnswerQuiet ==
  ASSUME KdbgInv, dbgPc = "handle", dbgReq.op \notin {"k", "qf", "qs"}, NEW reply, Answers(reply),
         UNCHANGED <<dbgBpts, dbgMem, dbgLast>>,
         reply # Ok \/ dbgReq.op \notin {"Z", "z", "M"}
  PROVE  KdbgInv'
<1>0. Handling /\ AgreeBefore /\ Allowed /\ dbgReq = gdbReq /\ KdbgFrame
  BY InvHandling
<1>1. /\ dbgAnswer' = reply /\ dbgReply' = dbgReply
      /\ UNCHANGED <<gdbReq, gdbBpts, gdbProg, gdbList, gdbListed>>
  BY DEF Answers, gdbVars
<1>2. StubType'
  BY <1>0, <1>1 DEF KdbgFrame, StubType
<1>3. LearntBpts(dbgAnswer)' = gdbBpts /\ LearntProg(dbgAnswer)' = gdbProg
  BY <1>0, <1>1 DEF LearntBpts, LearntProg, Ok, Reply
<1>4. LearntList(dbgAnswer)' = gdbList /\ LearntListed(dbgAnswer)' = gdbListed
  BY <1>0, <1>1 DEF LearntList, LearntListed
<1>5. Exact(LearntBpts(dbgAnswer), LearntProg(dbgAnswer))'
  BY <1>0, <1>3 DEF AgreeBefore, Exact, InUse
<1>6. Told(LearntList(dbgAnswer), LearntListed(dbgAnswer))' /\ NextAfter(LearntList(dbgAnswer))'
  BY <1>0, <1>4 DEF AgreeBefore, KdbgFrame, Told, NextAfter
<1> QED BY <1>2, <1>5, <1>6, AnswerFrame DEF KdbgInv, KdbgStage, AgreeAfter

LEMMA QueryKeeps == KdbgInv /\ (HandleQuery \/ HandleAlive \/ HandleReadMem \/ HandleThread \/ HandleOther) => KdbgInv'
<1> SUFFICES ASSUME KdbgInv PROVE HandleQuery \/ HandleAlive \/ HandleReadMem \/ HandleThread \/ HandleOther => KdbgInv'
  OBVIOUS
<1>1. CASE HandleQuery
  <2>1. PICK reply : Answers(reply)
    BY <1>1 DEF HandleQuery
  <2> QED BY <1>1, <2>1, AnswerQuiet DEF HandleQuery, Handles
<1>2. CASE HandleAlive
  <2>1. PICK reply : Answers(reply)
    BY <1>2 DEF HandleAlive
  <2> QED BY <1>2, <2>1, AnswerQuiet DEF HandleAlive, Handles
<1>3. CASE HandleReadMem
  <2>1. PICK reply : Answers(reply)
    BY <1>3 DEF HandleReadMem
  <2> QED BY <1>3, <2>1, AnswerQuiet DEF HandleReadMem, Handles
<1>4. CASE HandleThread
  <2>1. PICK reply : Answers(reply)
    BY <1>4, Zenon DEF HandleThread
  <2> QED BY <1>4, <2>1, AnswerQuiet DEF HandleThread, Handles
<1>5. CASE HandleOther
  <2>1. PICK reply : Answers(reply)
    BY <1>5 DEF HandleOther
  <2> QED BY <1>5, <2>1, AnswerQuiet DEF HandleOther, Handles
<1> QED BY <1>1, <1>2, <1>3, <1>4, <1>5

(* The replies that are told apart.                                         *)
LEMMA Replies == Ok # Error /\ Ok # Reply("S", 5)
  BY DEF Ok, Error, Reply

LEMMA WriteMemKeeps == KdbgInv /\ HandleWriteMem => KdbgInv'
<1> SUFFICES ASSUME KdbgInv, HandleWriteMem PROVE KdbgInv'
  OBVIOUS
<1>1. /\ dbgPc = "handle" /\ dbgReq.op = "M"
      /\ UNCHANGED <<dbgBpts, dbgLast>>
  BY DEF HandleWriteMem, Handles
<1>2. Handling /\ AgreeBefore /\ Allowed /\ dbgReq = gdbReq /\ KdbgFrame
  BY <1>1, InvHandling
<1>3. CASE dbgReq.addr \notin Mapped
  <2>1. Answers(Error) /\ dbgMem' = dbgMem
    BY <1>3 DEF HandleWriteMem, Hex2mem
  <2> QED BY <1>1, <2>1, AnswerQuiet, Replies
<1>4. CASE dbgReq.addr \in Mapped
  <2>1. Answers(Ok) /\ dbgMem' = [dbgMem EXCEPT ![gdbReq.addr] = gdbReq.val]
    BY <1>2, <1>4 DEF HandleWriteMem, Hex2mem
  <2>2. /\ dbgAnswer' = Ok /\ dbgReply' = dbgReply
        /\ UNCHANGED <<gdbReq, gdbBpts, gdbProg, gdbList, gdbListed>>
    BY <2>1 DEF Answers, gdbVars
  <2>3. gdbReq.addr \in DbgAddrs \ gdbBpts /\ gdbReq.val \in Nat
    BY <1>1, <1>2 DEF Allowed
  <2>4. StubType'
    BY <1>1, <1>2, <2>1, <2>2, <2>3 DEF KdbgFrame, StubType
  <2>5. /\ LearntBpts(dbgAnswer)' = gdbBpts
        /\ LearntProg(dbgAnswer)' = [gdbProg EXCEPT ![gdbReq.addr] = gdbReq.val]
    BY <1>1, <1>2, <2>2 DEF LearntBpts, LearntProg
  <2>6. LearntList(dbgAnswer)' = gdbList /\ LearntListed(dbgAnswer)' = gdbListed
    BY <1>1, <1>2, <2>2 DEF LearntList, LearntListed
  <2>7. Exact(LearntBpts(dbgAnswer), LearntProg(dbgAnswer))'
    BY <1>1, <1>2, <2>1, <2>3, <2>5 DEF AgreeBefore, Exact, InUse, KdbgFrame, StubType, GdbType
  <2>8. Told(LearntList(dbgAnswer), LearntListed(dbgAnswer))' /\ NextAfter(LearntList(dbgAnswer))'
    BY <1>1, <1>2, <2>6 DEF AgreeBefore, KdbgFrame, Told, NextAfter
  <2> QED BY <1>1, <2>1, <2>4, <2>7, <2>8, AnswerFrame DEF KdbgInv, KdbgStage, AgreeAfter
<1> QED BY <1>3, <1>4

LEMMA FirstThreadKeeps == KdbgInv /\ HandleFirstThread => KdbgInv'
<1> SUFFICES ASSUME KdbgInv, HandleFirstThread PROVE KdbgInv'
  OBVIOUS
<1>1. /\ dbgPc = "handle" /\ dbgReq.op = "qf"
      /\ dbgLast' = Head(TaskQueue) /\ Answers(Reply("m", Head(TaskQueue)))
      /\ UNCHANGED <<dbgBpts, dbgMem>>
  BY DEF HandleFirstThread, Handles
<1>2. Handling /\ AgreeBefore /\ Allowed /\ dbgReq = gdbReq /\ KdbgFrame
  BY <1>1, InvHandling
<1>3. /\ dbgAnswer' = Reply("m", Head(TaskQueue)) /\ dbgReply' = dbgReply
      /\ UNCHANGED <<gdbReq, gdbBpts, gdbProg, gdbList, gdbListed>>
  BY <1>1 DEF Answers, gdbVars
<1>4. StubType'
  BY <1>1, <1>2, <1>3 DEF KdbgFrame, StubType
<1>5. LearntBpts(dbgAnswer)' = gdbBpts /\ LearntProg(dbgAnswer)' = gdbProg
  BY <1>1, <1>2, <1>3 DEF LearntBpts, LearntProg
<1>6. LearntList(dbgAnswer)' = <<TaskQueue[1]>> /\ ~LearntListed(dbgAnswer)'
  BY <1>1, <1>2, <1>3, Threads DEF LearntList, LearntListed, Reply
<1>7. Exact(LearntBpts(dbgAnswer), LearntProg(dbgAnswer))'
  BY <1>1, <1>2, <1>5 DEF AgreeBefore, Exact, InUse
<1>8. /\ <<TaskQueue[1]>> \in Seq(Nat) /\ Len(<<TaskQueue[1]>>) = 1 /\ <<TaskQueue[1]>>[1] = TaskQueue[1]
  BY Threads
<1>9. Told(LearntList(dbgAnswer), LearntListed(dbgAnswer))'
  <2> DEFINE one == <<TaskQueue[1]>>
  <2>1. one \in Seq(Nat) /\ Len(one) = 1 /\ one[1] = TaskQueue[1]
    BY <1>8
  <2> HIDE DEF one
  <2>2. Told(one, FALSE)
    BY <2>1, Threads DEF Told
  <2> QED BY <1>6, <2>2 DEF Told, one
<1>10. NextAfter(LearntList(dbgAnswer))'
  BY <1>1, <1>6, <1>8, Threads DEF NextAfter
<1> QED BY <1>1, <1>4, <1>7, <1>9, <1>10, AnswerFrame DEF KdbgInv, KdbgStage, AgreeAfter

LEMMA NextThreadKeeps == KdbgInv /\ HandleNextThread => KdbgInv'
<1> SUFFICES ASSUME KdbgInv, HandleNextThread PROVE KdbgInv'
  OBVIOUS
<1>1. dbgPc = "handle" /\ dbgReq.op = "qs" /\ UNCHANGED <<dbgBpts, dbgMem>>
  BY DEF HandleNextThread, Handles
<1>2. Handling /\ AgreeBefore /\ Allowed /\ dbgReq = gdbReq /\ KdbgFrame
  BY <1>1, InvHandling
<1> DEFINE n == Len(gdbList)
<1>3. n \in 1..Len(TaskQueue) /\ dbgLast = TaskQueue[n] /\ gdbList \in Seq(Nat)
      /\ \A k \in 1..n : gdbList[k] = TaskQueue[k]
  <2>1. gdbList \in Seq(Nat) /\ gdbList # <<>> /\ n <= Len(TaskQueue)
    BY <1>1, <1>2 DEF Allowed, KdbgFrame, Told
  <2>2. n \in Nat /\ n # 0
    BY <2>1
  <2> QED BY <1>1, <1>2, <2>1, <2>2, Threads DEF AgreeBefore, NextAfter, KdbgFrame, Told
<1>4. NextThread = IF n < Len(TaskQueue) THEN TaskQueue[n + 1] ELSE 0
  <2> DEFINE c == CHOOSE k \in DOMAIN TaskQueue : TaskQueue[k] = dbgLast
  <2>1. n \in DOMAIN TaskQueue /\ \A k \in DOMAIN TaskQueue : TaskQueue[k] = dbgLast <=> k = n
    BY <1>3, Sizes, Threads
  <2>2. NextThread = IF c < Len(TaskQueue) THEN TaskQueue[c + 1] ELSE 0
    BY Zenon DEF NextThread
  <2> HIDE DEF n
  <2>3. c \in DOMAIN TaskQueue /\ TaskQueue[c] = dbgLast
    BY <2>1, Zenon
  <2> HIDE DEF c
  <2>4. c = n
    BY <2>1, <2>3
  <2> QED BY <2>2, <2>4
<1>5. LearntBpts(dbgAnswer)' = gdbBpts /\ LearntProg(dbgAnswer)' = gdbProg
  BY <1>1, <1>2 DEF LearntBpts, LearntProg, HandleNextThread, Answers, gdbVars
<1>6. Exact(LearntBpts(dbgAnswer), LearntProg(dbgAnswer))'
  BY <1>1, <1>2, <1>5 DEF AgreeBefore, Exact, InUse
<1>7. ASSUME NEW reply, Answers(reply) PROVE StubType' /\ dbgAnswer' = reply /\ gdbReq' = gdbReq /\ gdbList' = gdbList
  BY <1>1, <1>2, <1>7 DEF Answers, gdbVars, KdbgFrame, StubType
<1>8. CASE n < Len(TaskQueue)
  <2> DEFINE pid == TaskQueue[n + 1]  list == Append(gdbList, pid)
  <2>1. pid \in Nat \ {0}
    BY <1>3, <1>8, Threads
  <2>2. dbgLast' = pid /\ Answers(Reply("m", pid))
    BY <1>4, <1>8, <2>1, Zenon DEF HandleNextThread
  <2>3. LearntList(dbgAnswer)' = list /\ ~LearntListed(dbgAnswer)'
    BY <1>1, <1>2, <1>7, <2>2 DEF LearntList, LearntListed, Reply
  <2>4. list \in Seq(Nat) /\ Len(list) = n + 1 /\ \A k \in 1..(n + 1) : list[k] = TaskQueue[k]
    BY <1>3, <2>1
  <2>5. list # <<>>
    BY <1>3, <2>4
  <2> HIDE DEF list
  <2>6. Told(LearntList(dbgAnswer), LearntListed(dbgAnswer))'
    BY <1>3, <1>8, <2>3, <2>4, Threads DEF Told
  <2>7. NextAfter(LearntList(dbgAnswer))'
    BY <2>2, <2>3, <2>4 DEF NextAfter
  <2> QED BY <1>1, <1>6, <1>7, <2>2, <2>6, <2>7, AnswerFrame DEF KdbgInv, KdbgStage, AgreeAfter
<1>9. CASE ~(n < Len(TaskQueue))
  <2>1. Answers(Reply("l", 0)) /\ dbgLast' = dbgLast
    BY <1>4, <1>9, Zenon DEF HandleNextThread
  <2>2. LearntList(dbgAnswer)' = gdbList
    BY <1>1, <1>2, <1>7, <2>1 DEF LearntList, LearntListed, Reply
  <2>3. n = Len(TaskQueue) /\ gdbList = TaskQueue
    <3>1. n = Len(TaskQueue)
      BY <1>3, <1>9, Threads
    <3>2. TaskQueue \in Seq(Nat)
      BY Sizes
    <3> QED BY <1>3, <3>1, <3>2, SeqEqual
  <2>4. Told(LearntList(dbgAnswer), LearntListed(dbgAnswer))'
    BY <1>3, <2>2, <2>3 DEF Told
  <2>5. NextAfter(LearntList(dbgAnswer))'
    BY <1>3, <2>1, <2>2 DEF NextAfter
  <2> QED BY <1>1, <1>6, <1>7, <2>1, <2>4, <2>5, AnswerFrame DEF KdbgInv, KdbgStage, AgreeAfter
<1> QED BY <1>8, <1>9

(* A search finds a slot if there is one.                                   *)
LEMMA MinThere ==
  ASSUME NEW S \in SUBSET Nat, S # {}
  PROVE  Min(S) \in S
<1>1. PICK n \in S : \A m \in S : n <= m
  BY LeastExists
<1> QED BY <1>1 DEF Min

LEMMA SetBreakKeeps == KdbgInv /\ HandleSetBreak => KdbgInv'
<1> SUFFICES ASSUME KdbgInv, HandleSetBreak PROVE KdbgInv'
  OBVIOUS
<1>1. dbgPc = "handle" /\ dbgReq.op = "Z" /\ dbgLast' = dbgLast
  BY DEF HandleSetBreak, Handles
<1>2. Handling /\ AgreeBefore /\ Allowed /\ dbgReq = gdbReq /\ KdbgFrame
  BY <1>1, InvHandling
<1>3. CASE ~(FreeBpts # {} /\ dbgReq.addr \in Mapped)
  <2>1. Answers(Error) /\ dbgMem' = dbgMem /\ dbgBpts' = dbgBpts
    BY <1>3, Zenon DEF HandleSetBreak
  <2> QED BY <1>1, <2>1, AnswerQuiet, Replies
<1>4. CASE FreeBpts # {} /\ dbgReq.addr \in Mapped
  <2> DEFINE a == gdbReq.addr  i == Min(FreeBpts)
  <2>1. /\ dbgBpts' = [dbgBpts EXCEPT ![i] = [addr |-> a, val |-> dbgMem[a]]]
        /\ dbgMem' = [dbgMem EXCEPT ![a] = BREAK_OPC]
        /\ Answers(Ok)
    BY <1>2, <1>4, Zenon DEF HandleSetBreak
  <2>2. a \in DbgAddrs \ gdbBpts /\ a # 0
    BY <1>1, <1>2, Sizes DEF Allowed
  <2>3. i \in 1..MAX_BREAK_POINTS /\ dbgBpts[i].addr = 0
    <3>1. FreeBpts \in SUBSET Nat /\ FreeBpts \subseteq 1..MAX_BREAK_POINTS
      BY <1>2 DEF FreeBpts, KdbgFrame, StubType
    <3>2. i \in FreeBpts
      BY <1>4, <3>1, MinThere
    <3> QED BY <3>1, <3>2 DEF FreeBpts
  <2>4. dbgMem[a] = gdbProg[a] /\ dbgMem[a] \in Nat
    BY <1>2, <2>2 DEF AgreeBefore, Exact, KdbgFrame, StubType
  <2>5. /\ dbgAnswer' = Ok /\ dbgReply' = dbgReply
        /\ UNCHANGED <<gdbReq, gdbBpts, gdbProg, gdbList, gdbListed>>
    BY <2>1 DEF Answers, gdbVars
  <2> HIDE DEF i
  <2>6. StubType'
    BY <1>2, <2>1, <2>2, <2>3, <2>4, <2>5 DEF KdbgFrame, StubType, BREAK_OPC
  <2>7. LearntBpts(dbgAnswer)' = gdbBpts \cup {a} /\ LearntProg(dbgAnswer)' = gdbProg
    BY <1>1, <1>2, <2>5 DEF LearntBpts, LearntProg
  <2>8. LearntList(dbgAnswer)' = gdbList /\ LearntListed(dbgAnswer)' = gdbListed
    BY <1>1, <1>2, <2>5 DEF LearntList, LearntListed
  <2>9. Exact(LearntBpts(dbgAnswer), LearntProg(dbgAnswer))'
    <3>1. InUse' = InUse \cup {i} /\ i \notin InUse
      BY <1>2, <2>1, <2>2, <2>3 DEF InUse, KdbgFrame, StubType
    <3>2. /\ dbgBpts'[i].addr = a /\ dbgBpts'[i].val = gdbProg[a]
          /\ \A j \in InUse : dbgBpts'[j] = dbgBpts[j]
      BY <1>2, <2>1, <2>3, <2>4, <3>1 DEF InUse, KdbgFrame, StubType
    <3>3. \A b \in DbgAddrs : dbgMem'[b] = IF b = a THEN BREAK_OPC ELSE dbgMem[b]
      BY <1>2, <2>1 DEF KdbgFrame, StubType
    <3> QED BY <1>2, <2>2, <2>7, <3>1, <3>2, <3>3 DEF AgreeBefore, Exact
  <2>10. Told(LearntList(dbgAnswer), LearntListed(dbgAnswer))' /\ NextAfter(LearntList(dbgAnswer))'
    BY <1>1, <1>2, <2>8 DEF AgreeBefore, KdbgFrame, Told, NextAfter
  <2> QED BY <1>1, <2>1, <2>6, <2>9, <2>10, AnswerFrame DEF KdbgInv, KdbgStage, AgreeAfter
<1> QED BY <1>3, <1>4

LEMMA ResetBreakKeeps == KdbgInv /\ HandleResetBreak => KdbgInv'
<1> SUFFICES ASSUME KdbgInv, HandleResetBreak PROVE KdbgInv'
  OBVIOUS
<1>1. dbgPc = "handle" /\ dbgReq.op = "z" /\ dbgLast' = dbgLast
  BY DEF HandleResetBreak, Handles
<1>2. Handling /\ AgreeBefore /\ Allowed /\ dbgReq = gdbReq /\ KdbgFrame
  BY <1>1, InvHandling
<1> DEFINE a == gdbReq.addr  i == Min(BptsAt(a))
<1>3. a \in gdbBpts /\ a \in DbgAddrs /\ a # 0
  BY <1>1, <1>2, Sizes DEF Allowed, KdbgFrame, GdbType
<1>4. BptsAt(a) \in SUBSET Nat /\ BptsAt(a) \subseteq InUse /\ BptsAt(a) # {}
  BY <1>2, <1>3 DEF BptsAt, InUse, KdbgFrame, StubType, AgreeBefore, Exact
<1>5. i \in InUse /\ i \in 1..MAX_BREAK_POINTS /\ dbgBpts[i].addr = a /\ dbgBpts[i].val = gdbProg[a]
  <2>1. i \in BptsAt(a)
    BY <1>4, MinThere
  <2> QED BY <1>2, <1>4, <2>1 DEF BptsAt, InUse, AgreeBefore, Exact
<1>6. /\ dbgMem' = [dbgMem EXCEPT ![a] = gdbProg[a]]
      /\ dbgBpts' = [dbgBpts EXCEPT ![i] = NoBpt]
      /\ Answers(Ok)
  BY <1>2, <1>4, <1>5, Zenon DEF HandleResetBreak, FreedBpt
<1>7. /\ dbgAnswer' = Ok /\ dbgReply' = dbgReply
      /\ UNCHANGED <<gdbReq, gdbBpts, gdbProg, gdbList, gdbListed>>
  BY <1>6 DEF Answers, gdbVars
<1> HIDE DEF i
<1>8. StubType'
  BY <1>2, <1>3, <1>5, <1>6, <1>7 DEF KdbgFrame, StubType, GdbType, NoBpt
<1>9. LearntBpts(dbgAnswer)' = gdbBpts \ {a} /\ LearntProg(dbgAnswer)' = gdbProg
  BY <1>1, <1>2, <1>7 DEF LearntBpts, LearntProg
<1>10. LearntList(dbgAnswer)' = gdbList /\ LearntListed(dbgAnswer)' = gdbListed
  BY <1>1, <1>2, <1>7 DEF LearntList, LearntListed
<1>11. Exact(LearntBpts(dbgAnswer), LearntProg(dbgAnswer))'
  <2>1. InUse' = InUse \ {i}
    BY <1>2, <1>5, <1>6 DEF InUse, KdbgFrame, StubType, NoBpt
  <2>2. \A j \in InUse \ {i} : dbgBpts'[j] = dbgBpts[j] /\ dbgBpts[j].addr # a
    BY <1>2, <1>5, <1>6 DEF InUse, KdbgFrame, StubType, AgreeBefore, Exact
  <2>3. \A b \in DbgAddrs : dbgMem'[b] = IF b = a THEN gdbProg[a] ELSE dbgMem[b]
    BY <1>2, <1>6 DEF KdbgFrame, StubType
  <2> QED BY <1>2, <1>3, <1>5, <1>9, <2>1, <2>2, <2>3 DEF AgreeBefore, Exact
<1>12. Told(LearntList(dbgAnswer), LearntListed(dbgAnswer))' /\ NextAfter(LearntList(dbgAnswer))'
  BY <1>1, <1>2, <1>10 DEF AgreeBefore, KdbgFrame, Told, NextAfter
<1> QED BY <1>1, <1>6, <1>8, <1>11, <1>12, AnswerFrame DEF KdbgInv, KdbgStage, AgreeAfter

-----------------------------------------------------------------------------
(* Steps that leave alone what the ends know of breakpoints and memory.     *)
Known == <<dbgBpts, dbgMem, gdbBpts, gdbProg>>

LEMMA SameExact == Exact(gdbBpts, gdbProg) /\ UNCHANGED Known => Exact(gdbBpts, gdbProg)'
  BY DEF Exact, InUse, Known

LEMMA SameBefore == AgreeBefore /\ UNCHANGED <<Known, dbgLast, gdbList>> => AgreeBefore'
<1> SUFFICES ASSUME AgreeBefore, UNCHANGED <<Known, dbgLast, gdbList>> PROVE AgreeBefore'
  OBVIOUS
<1>1. Exact(gdbBpts, gdbProg)'
  BY SameExact DEF AgreeBefore
<1>2. NextAfter(gdbList)'
  BY DEF AgreeBefore, NextAfter
<1> QED BY <1>1, <1>2 DEF AgreeBefore

LEMMA SameFrame ==
  ASSUME KdbgFrame, UNCHANGED <<Known, gdbPc, gdbReq, gdbList, gdbListed>>, dbgReply' \in BOOLEAN
  PROVE  KdbgFrame'
<1>1. StubType' /\ GdbType'
  BY DEF KdbgFrame, StubType, GdbType, Known
<1>2. Told(gdbList, gdbListed)'
  BY DEF KdbgFrame, Told
<1>3. (gdbPc = "reply" /\ gdbReq.op \in Resumes => gdbList = <<>>)'
  BY DEF KdbgFrame, Resumes
<1>4. (gdbPc \in {"ack", "reply"} => Allowed)'
  BY DEF KdbgFrame, Allowed, Known
<1> QED BY <1>1, <1>2, <1>3, <1>4 DEF KdbgFrame

(* Packets are taken from the line: what the ends know does not change.     *)
LEMMA TakesKeep == KdbgInv /\ (GetSkips \/ GetPacket \/ PutAcked) /\ ~NoisyReplies => KdbgInv'
<1> SUFFICES ASSUME KdbgInv, GetSkips \/ GetPacket \/ PutAcked, ~NoisyReplies PROVE KdbgInv'
  OBVIOUS
<1>1. UNCHANGED <<Known, gdbPc, gdbReq, gdbList, gdbListed, dbgReply, dbgLast>>
  BY DEF GetSkips, GetPacket, PutAcked, stubVars, gdbVars, Known
<1>2. KdbgFrame'
  BY <1>1, SameFrame DEF KdbgInv, KdbgFrame, StubType
<1>3. dbgTo # <<>>
  BY DEF GetSkips, GetPacket, PutAcked
<1>4. Before /\ AgreeBefore
  BY <1>3 DEF KdbgInv, KdbgStage, Going, Killed, Answering
<1>5. AgreeBefore'
  BY <1>1, <1>4, SameBefore
<1>6. Before'
  BY InvPhases, PhaseSkips, PhaseGetPacket, PhasePutAcked
<1> QED BY <1>2, <1>5, <1>6 DEF KdbgInv, KdbgStage

LEMMA ResumeKeeps == KdbgInv /\ HandleResume => KdbgInv'
<1> SUFFICES ASSUME KdbgInv, HandleResume PROVE KdbgInv'
  OBVIOUS
<1>1. dbgPc = "handle" /\ UNCHANGED <<Known, gdbPc, gdbReq, gdbList, gdbListed>>
  BY DEF HandleResume, Handles, gdbVars, Known
<1>2. (Going \/ Killed)'
  BY InvPhases, PhaseResume
<1>3. KdbgFrame'
  <2>1. dbgReply' \in BOOLEAN
    BY DEF HandleResume
  <2> QED BY <1>1, <2>1, SameFrame DEF KdbgInv
<1>4. AgreeGoing'
  BY <1>1, InvHandling, SameExact DEF AgreeBefore, AgreeGoing
<1> QED BY <1>2, <1>3, <1>4 DEF KdbgInv, KdbgStage

LEMMA StopKeeps == ASSUME KdbgInv, NEW t, Stop(t) PROVE KdbgInv'
<1>1. UNCHANGED <<Known, gdbPc, gdbReq, gdbList, gdbListed, dbgLast>> /\ dbgReply' = FALSE
  BY DEF Stop, gdbVars, Known
<1>2. KdbgFrame'
  BY <1>1, SameFrame DEF KdbgInv
<1>3. CASE ~Going /\ (Resting /\ Resting')
  <2>1. AgreeBefore
    BY <1>3 DEF KdbgInv, KdbgStage, Resting, Going, Killed, Answering, Acked
  <2> QED BY <1>1, <1>2, <1>3, <2>1, SameBefore DEF KdbgInv, KdbgStage, Before
<1>4. CASE ~Going /\ (Asking /\ Asking')
  <2>1. AgreeBefore
    BY <1>4, LineFacts DEF KdbgInv, KdbgStage, Asking, Going, Killed, Answering
  <2> QED BY <1>1, <1>2, <1>4, <2>1, SameBefore DEF KdbgInv, KdbgStage, Before
<1>5. CASE ~Going /\ (Killed /\ Killed')
  <2>1. Exact(gdbBpts, gdbProg)
    BY <1>5 DEF KdbgInv, KdbgStage, Killed, Answering, AgreeBefore, AgreeGoing
  <2> QED BY <1>1, <1>2, <1>5, <2>1, SameExact DEF KdbgInv, KdbgStage, AgreeGoing
<1>6. CASE Going /\ Answering' /\ dbgAnswer' = Reply("S", 5)
  <2>1. Exact(gdbBpts, gdbProg)
    BY <1>6 DEF KdbgInv, KdbgStage, Going, Answering, AgreeBefore, AgreeGoing
  <2>2. gdbReq.op \in Resumes /\ gdbReq' = gdbReq
    BY <1>1, <1>6 DEF Going
  <2>3. UNCHANGED <<gdbBpts, gdbProg, gdbList, gdbListed>>
    BY <1>1 DEF Known
  <2>4. LearntBpts(dbgAnswer)' = gdbBpts /\ LearntProg(dbgAnswer)' = gdbProg
    BY <1>6, <2>2, <2>3, Replies DEF LearntBpts, LearntProg
  <2>5. LearntList(dbgAnswer)' = gdbList /\ LearntListed(dbgAnswer)' = gdbListed
    BY <2>2, <2>3 DEF LearntList, LearntListed, Resumes
  <2>6. Exact(LearntBpts(dbgAnswer), LearntProg(dbgAnswer))'
    BY <1>1, <2>1, <2>4 DEF Exact, InUse, Known
  <2>7. Told(LearntList(dbgAnswer), LearntListed(dbgAnswer))'
    BY <2>5 DEF KdbgInv, KdbgFrame, Told
  <2>8. (gdbReq.op \notin Resumes => NextAfter(LearntList(dbgAnswer)))'
    BY <2>2 DEF Resumes
  <2> QED BY <1>2, <1>6, <2>6, <2>7, <2>8 DEF KdbgInv, KdbgStage, AgreeAfter
<1> QED BY <1>3, <1>4, <1>5, <1>6, InvPhases, PhaseStop

PlainAsked == {Request(op, 0, 0) : op \in {"?", "g", "G", "qC", "qf", "", "k"} \cup Resumes}
ThreadAsked == {Request(op, 0, v) : op \in {"T", "H", "Hc"}, v \in {0} \cup Range(TaskQueue)}
ReadAsked == {Request("m", a, 0) : a \in DbgAddrs}
WriteAsked == {Request("M", a, v) : a \in DbgAddrs \ gdbBpts, v \in MemBytes}
SetAsked == {Request("Z", a, 0) : a \in DbgAddrs \ gdbBpts}
ResetAsked == {Request("z", a, 0) : a \in gdbBpts}
NextAsked == IF gdbList # <<>> /\ ~gdbListed THEN {Request("qs", 0, 0)} ELSE {}

LEMMA RequestKinds ==
  Requests = PlainAsked \cup ThreadAsked \cup ReadAsked \cup WriteAsked \cup SetAsked \cup ResetAsked \cup NextAsked
  BY DEF Requests, PlainAsked, ThreadAsked, ReadAsked, WriteAsked, SetAsked, ResetAsked, NextAsked

LEMMA RequestsAllowed ==
  ASSUME NEW req \in Requests
  PROVE  /\ req.op \in {"Z", "M"} => req.addr \in DbgAddrs \ gdbBpts
         /\ req.op = "z" => req.addr \in gdbBpts
         /\ req.op = "M" => req.val \in MemBytes
         /\ req.op = "qs" => gdbList # <<>> /\ ~gdbListed
<1>1. ASSUME NEW op, NEW a, NEW v, req = Request(op, a, v)
      PROVE  req.op = op /\ req.addr = a /\ req.val = v
  BY <1>1 DEF Request
<1>2. CASE req \in PlainAsked
  <2>1. PICK op \in {"?", "g", "G", "qC", "qf", "", "k"} \cup Resumes : req = Request(op, 0, 0)
    BY <1>2 DEF PlainAsked
  <2>2. req.op = op
    BY <1>1, <2>1
  <2> QED BY <2>1, <2>2 DEF Resumes
<1>3. CASE req \in ThreadAsked
  <2>1. PICK op \in {"T", "H", "Hc"}, v \in {0} \cup Range(TaskQueue) : req = Request(op, 0, v)
    BY <1>3 DEF ThreadAsked
  <2>2. req.op = op
    BY <1>1, <2>1
  <2> QED BY <2>2
<1>4. CASE req \in ReadAsked
  BY <1>1, <1>4 DEF ReadAsked
<1>5. CASE req \in WriteAsked
  BY <1>1, <1>5 DEF WriteAsked
<1>6. CASE req \in SetAsked
  BY <1>1, <1>6 DEF SetAsked
<1>7. CASE req \in ResetAsked
  BY <1>1, <1>7 DEF ResetAsked
<1>8. CASE req \in NextAsked
  BY <1>1, <1>8 DEF NextAsked
<1> QED BY <1>2, <1>3, <1>4, <1>5, <1>6, <1>7, <1>8, RequestKinds

LEMMA AsksKeep == ASSUME KdbgInv, NEW req \in Requests, GdbAsks(req) PROVE KdbgInv'
<1>1. /\ UNCHANGED <<Known, dbgReply, dbgLast, gdbList, gdbListed>>
      /\ gdbPc' = "ack" /\ gdbReq' = req
  BY DEF GdbAsks, stubVars, Known
<1>2. Asking' /\ (Resting \/ Replied)
  BY InvPhases, PhaseAsks
<1>3. AgreeBefore
  BY <1>2 DEF KdbgInv, KdbgStage, Resting, Replied, Going, Killed, Answering, Acked
<1>4. Allowed'
  <2>1. /\ req.op \in {"Z", "M"} => req.addr \in DbgAddrs \ gdbBpts
        /\ req.op = "z" => req.addr \in gdbBpts
        /\ req.op = "M" => req.val \in MemBytes
        /\ req.op = "qs" => gdbList # <<>> /\ ~gdbListed
    BY RequestsAllowed
  <2> QED BY <1>1, <2>1, Sizes DEF Allowed, Known
<1>5. KdbgFrame'
  <2>1. StubType' /\ GdbType'
    BY <1>1 DEF KdbgInv, KdbgFrame, StubType, GdbType, Known
  <2>2. Told(gdbList, gdbListed)'
    BY <1>1 DEF KdbgInv, KdbgFrame, Told
  <2> QED BY <1>1, <1>4, <2>1, <2>2 DEF KdbgFrame
<1> QED BY <1>1, <1>2, <1>3, <1>5, SameBefore DEF KdbgInv, KdbgStage, Before

LEMMA AckedKeeps == KdbgInv /\ GdbAcked => KdbgInv'
<1> SUFFICES ASSUME KdbgInv, GdbAcked PROVE KdbgInv'
  OBVIOUS
<1>1. UNCHANGED <<Known, dbgReply, dbgLast, dbgAnswer, gdbReq>> /\ gdbPc = "ack"
  BY DEF GdbAcked, stubVars, Known
<1>2. \/ gdbPc' = "ack" /\ UNCHANGED <<gdbList, gdbListed>>
      \/ gdbReq.op \notin Resumes /\ UNCHANGED <<gdbList, gdbListed>>
      \/ gdbReq.op \in Resumes /\ gdbList' = <<>> /\ gdbListed' = FALSE
  BY <1>1 DEF GdbAcked, KdbgInv, KdbgFrame, GdbType
<1>3. StubType' /\ GdbType'
  BY <1>1, <1>2 DEF KdbgInv, KdbgFrame, StubType, GdbType, Known
<1>4. Told(gdbList, gdbListed)'
  <2>1. CASE UNCHANGED <<gdbList, gdbListed>>
    BY <2>1 DEF KdbgInv, KdbgFrame, Told
  <2>2. CASE gdbList' = <<>> /\ gdbListed' = FALSE
    <3>1. <<>> \in Seq(Nat) /\ Len(<<>>) = 0
      OBVIOUS
    <3> QED BY <2>2, <3>1, Threads DEF Told
  <2> QED BY <1>2, <2>1, <2>2
<1>5. (gdbPc = "reply" /\ gdbReq.op \in Resumes => gdbList = <<>>)'
  BY <1>1, <1>2 DEF Resumes
<1>6. Allowed'
  BY <1>1, <1>2 DEF KdbgInv, KdbgFrame, Allowed, Known, Resumes
<1>7. KdbgFrame'
  BY <1>3, <1>4, <1>5, <1>6 DEF KdbgFrame
<1>8. ASSUME AgreeBefore PROVE AgreeBefore'
  <2>1. Exact(gdbBpts, gdbProg)'
    BY <1>1, <1>8, SameExact DEF AgreeBefore
  <2>2. NextAfter(gdbList)'
    BY <1>1, <1>2, <1>8 DEF AgreeBefore, NextAfter
  <2> QED BY <2>1, <2>2 DEF AgreeBefore
<1>9. ASSUME AgreeGoing PROVE AgreeGoing'
  BY <1>1, <1>9, SameExact DEF AgreeGoing
<1>10. ASSUME AgreeAfter, gdbReq.op # "k" PROVE AgreeAfter'
  <2>1. LearntBpts(dbgAnswer)' = LearntBpts(dbgAnswer) /\ LearntProg(dbgAnswer)' = LearntProg(dbgAnswer)
    BY <1>1 DEF LearntBpts, LearntProg, Known
  <2>2. Exact(LearntBpts(dbgAnswer), LearntProg(dbgAnswer))'
    BY <1>1, <1>10, <2>1 DEF AgreeAfter, Exact, InUse, Known
  <2>3. CASE UNCHANGED <<gdbList, gdbListed>>
    <3>1. /\ LearntList(dbgAnswer)' = LearntList(dbgAnswer)
          /\ LearntListed(dbgAnswer)' = LearntListed(dbgAnswer)
      BY <1>1, <2>3 DEF LearntList, LearntListed
    <3>2. Told(LearntList(dbgAnswer), LearntListed(dbgAnswer))'
      BY <1>10, <3>1 DEF AgreeAfter, Told
    <3>3. (gdbReq.op \notin Resumes => NextAfter(LearntList(dbgAnswer)))'
      BY <1>1, <1>10, <3>1 DEF AgreeAfter, NextAfter, Resumes
    <3> QED BY <2>2, <3>2, <3>3 DEF AgreeAfter
  <2>4. CASE gdbReq.op \in Resumes
    <3>1. LearntList(dbgAnswer)' = gdbList' /\ LearntListed(dbgAnswer)' = gdbListed'
      BY <1>1, <2>4 DEF LearntList, LearntListed, Resumes
    <3>2. Told(LearntList(dbgAnswer), LearntListed(dbgAnswer))'
      BY <1>4, <3>1 DEF Told
    <3> QED BY <1>1, <2>2, <2>4, <3>2 DEF AgreeAfter, Resumes
  <2> QED BY <1>2, <2>3, <2>4
<1>11. /\ Refused => AgreeBefore
       /\ Handling => AgreeBefore
       /\ Going \/ Killed => AgreeGoing
       /\ Answering => AgreeAfter
  <2>1. Before => ~Going /\ ~Killed
    <3>1. <<Ack>> # <<Nak>> /\ <<Nak>> # <<>>
      BY LineFacts, PacketFacts
    <3>2. Asking => dbgTo # <<>>
      BY LineFacts DEF Asking
    <3> QED BY <1>1, <3>1, <3>2
            DEF Before, Resting, Replied, Refused, Handling, Going, Killed, Acked, Stopping
  <2>2. Before => ~Answering
    BY <1>1, LineFacts DEF Before, Resting, Replied, Asking, Refused, Handling, Answering, Acked, Stopping
  <2>3. Answering => ~Going /\ ~Killed
    BY DEF Answering, Going, Killed, Stopping
  <2>4. (Refused => Before) /\ (Handling => Before)
    BY DEF Before
  <2> QED BY <2>1, <2>2, <2>3, <2>4 DEF KdbgInv, KdbgStage
<1>12. Answering => gdbReq.op # "k"
  BY DEF Answering
<1> QED BY <1>7, <1>8, <1>9, <1>10, <1>11, <1>12, InvPhases, PhaseAcked DEF KdbgInv, KdbgStage, Before, AgreeGoing

LEMMA GetsReplyKeeps == KdbgInv /\ GdbGetsReply /\ ~NoisyReplies => KdbgInv'
<1> SUFFICES ASSUME KdbgInv, GdbGetsReply, ~NoisyReplies PROVE KdbgInv'
  OBVIOUS
<1>1. Answering /\ Replied' /\ Learns(dbgAnswer)
  BY InvPhases, PhaseGetsReply
<1>2. AgreeAfter
  BY <1>1, LineFacts DEF KdbgInv, KdbgStage, Before, Resting, Replied, Asking, Refused, Handling, Going,
     Killed, Answering, Acked, Stopping
<1>3. /\ gdbPc = "reply" /\ gdbPc' = "idle"
      /\ UNCHANGED <<dbgBpts, dbgMem, dbgReply, dbgLast, gdbReq>>
  BY <1>1 DEF GdbGetsReply, stubVars, Replied
<1>4. /\ gdbBpts' = LearntBpts(dbgAnswer) /\ gdbProg' = LearntProg(dbgAnswer)
      /\ gdbList' = LearntList(dbgAnswer) /\ gdbListed' = LearntListed(dbgAnswer)
  BY <1>1 DEF Learns
<1>5. StubType'
  BY <1>3 DEF KdbgInv, KdbgFrame, StubType
<1>6. GdbType'
  <2>1. Allowed
    BY <1>3 DEF KdbgInv, KdbgFrame
  <2>2. LearntBpts(dbgAnswer) \subseteq DbgAddrs
    BY <2>1 DEF LearntBpts, Allowed, KdbgInv, KdbgFrame, GdbType
  <2>3. LearntProg(dbgAnswer) \in [DbgAddrs -> Nat]
    BY <2>1 DEF LearntProg, Allowed, KdbgInv, KdbgFrame, GdbType
  <2>4. LearntListed(dbgAnswer) \in BOOLEAN
    BY DEF LearntListed, KdbgInv, KdbgFrame, GdbType
  <2> QED BY <1>4, <2>2, <2>3, <2>4 DEF GdbType
<1>7. Told(gdbList, gdbListed)'
  BY <1>2, <1>4 DEF AgreeAfter, Told
<1>8. KdbgFrame'
  BY <1>3, <1>5, <1>6, <1>7 DEF KdbgFrame
<1>9. Exact(gdbBpts, gdbProg)'
  BY <1>2, <1>3, <1>4 DEF AgreeAfter, Exact, InUse
<1>10. NextAfter(gdbList)'
  <2>1. CASE gdbReq.op \notin Resumes
    BY <1>2, <1>3, <1>4, <2>1 DEF AgreeAfter, NextAfter
  <2>2. CASE gdbReq.op \in Resumes
    <3>1. gdbList' = gdbList
      BY <1>4, <2>2 DEF LearntList, Resumes
    <3>2. gdbList = <<>>
      BY <1>3, <2>2 DEF KdbgInv, KdbgFrame
    <3> QED BY <3>1, <3>2 DEF NextAfter
  <2> QED BY <2>1, <2>2
<1> QED BY <1>1, <1>8, <1>9, <1>10 DEF KdbgInv, KdbgStage, Before, AgreeBefore

-----------------------------------------------------------------------------
LEMMA PhasesInit == KdbgInit => Phases
  BY DEF KdbgInit, Phases, Before, Resting, Stopping

LEMMA PhasesNext == Phases /\ [KdbgNext]_kdbgVars => Phases'
<1> SUFFICES ASSUME Phases, [KdbgNext]_kdbgVars PROVE Phases'
  OBVIOUS
<1>1. CASE GetSkips \/ GetPacket \/ PutAcked
  BY <1>1, PhaseSkips, PhaseGetPacket, PhasePutAcked DEF Phases
<1>2. ASSUME NEW reply, Answers(reply), dbgPc = "handle", dbgReq.op # "k" PROVE Phases'
  BY <1>2, PhaseAnswer DEF Phases
<1>3. CASE \/ HandleQuery \/ HandleAlive \/ HandleReadMem \/ HandleWriteMem \/ HandleFirstThread
           \/ HandleNextThread \/ HandleThread \/ HandleSetBreak \/ HandleResetBreak \/ HandleOther
  <2>1. dbgPc = "handle" /\ dbgReq.op # "k"
    BY <1>3 DEF HandleQuery, HandleAlive, HandleReadMem, HandleWriteMem, HandleFirstThread, HandleNextThread,
       HandleThread, HandleSetBreak, HandleResetBreak, HandleOther, Handles
  <2>2. \E reply : Answers(reply)
    BY <1>3, Zenon DEF HandleQuery, HandleAlive, HandleReadMem, HandleWriteMem, HandleFirstThread,
       HandleNextThread, HandleThread, HandleSetBreak, HandleResetBreak, HandleOther
  <2> QED BY <1>2, <2>1, <2>2
<1>4. CASE HandleResume
  BY <1>4, PhaseResume DEF Phases
<1>5. CASE \E t \in Range(TaskQueue) : Stop(t)
  BY <1>5, PhaseStop DEF Phases, Before
<1>6. CASE \E req \in Requests : GdbAsks(req)
  BY <1>6, PhaseAsks DEF Phases, Before
<1>7. CASE GdbAcked
  BY <1>7, PhaseAcked DEF Phases, Before
<1>8. CASE GdbGetsReply
  BY <1>8, PhaseGetsReply DEF Phases, Before
<1>9. CASE UNCHANGED kdbgVars
  BY <1>9 DEF kdbgVars, stubVars, gdbVars, Phases, Before, Resting, Replied, Asking, Refused, Handling, Going,
     Killed, Answering, Again, Acked, Stopping
<1> QED BY <1>1, <1>3, <1>4, <1>5, <1>6, <1>7, <1>8, <1>9 DEF KdbgNext

LEMMA PhasesSafe == Phases => NotBothWaiting
  BY LineFacts DEF Phases, Before, Resting, Replied, Asking, Refused, Handling, Going, Killed, Answering, Again,
     Acked, Stopping, NotBothWaiting

(* The stub in kdbg_get_packet and kdbg_put_packet and the debugger never wait for
   each other with nothing on the line: neither loses a packet the other waits to
   have acknowledged or answered, whichever packets are damaged, also where the
   stub sends something else again.                                         *)
THEOREM NeverBothWait == KdbgSpec => []NotBothWaiting
<1> QED BY PhasesInit, PhasesNext, PhasesSafe, PTL DEF KdbgSpec

LEMMA KdbgInvInit == KdbgInit => KdbgInv
<1> SUFFICES ASSUME KdbgInit PROVE KdbgInv
  OBVIOUS
<1>1. /\ gdbPc = "idle" /\ Resting
      /\ dbgBpts = [i \in 1..MAX_BREAK_POINTS |-> NoBpt] /\ gdbBpts = {} /\ gdbProg = dbgMem
      /\ dbgReply = FALSE /\ gdbList = <<>> /\ gdbListed = FALSE
  BY DEF KdbgInit, Resting, Stopping
<1>2. ByteAt0 \in Nat /\ dbgMem = [a \in DbgAddrs |-> ByteAt0]
  BY KdbgAssumption DEF ByteAt0, KdbgInit
<1>3. StubType /\ GdbType
  BY <1>1, <1>2 DEF StubType, GdbType, NoBpt
<1>4. Told(gdbList, gdbListed) /\ NextAfter(gdbList)
  BY <1>1, Threads DEF Told, NextAfter
<1>5. KdbgFrame
  BY <1>1, <1>3, <1>4 DEF KdbgFrame
<1>6. Exact(gdbBpts, gdbProg)
  BY <1>1, <1>2 DEF Exact, InUse, NoBpt
<1> QED BY <1>1, <1>4, <1>5, <1>6 DEF KdbgInv, KdbgStage, Before, AgreeBefore

LEMMA KdbgInvNext == ~NoisyReplies /\ KdbgInv /\ [KdbgNext]_kdbgVars => KdbgInv'
<1> SUFFICES ASSUME ~NoisyReplies, KdbgInv, [KdbgNext]_kdbgVars PROVE KdbgInv'
  OBVIOUS
<1>1. CASE UNCHANGED kdbgVars
  BY <1>1, SMTT(30) DEF kdbgVars, stubVars, gdbVars, KdbgInv, KdbgFrame, KdbgStage, StubType, GdbType, Told, Allowed,
     AgreeBefore, AgreeGoing, AgreeAfter, Exact, InUse, NextAfter, LearntBpts, LearntProg, LearntList,
     LearntListed, Before, Resting, Replied, Asking, Refused, Handling, Going,
     Killed, Answering, Acked, Stopping
<1> QED BY <1>1, TakesKeep, QueryKeeps, WriteMemKeeps, FirstThreadKeeps, NextThreadKeeps, SetBreakKeeps,
           ResetBreakKeeps, ResumeKeeps, StopKeeps, AsksKeep, AckedKeeps, GetsReplyKeeps DEF KdbgNext

LEMMA InvSafety == ~NoisyReplies /\ KdbgInv => KdbgSafety
<1> SUFFICES ASSUME ~NoisyReplies, KdbgInv PROVE KdbgSafety
  OBVIOUS
<1>1. NotBothWaiting
  BY InvPhases, PhasesSafe
<1>2. ThreadsListed
  BY DEF KdbgInv, KdbgFrame, Told, ThreadsListed
<1>3. ReplyMatches
  BY DEF KdbgInv, KdbgStage, Before, Resting, Replied, Asking, Refused, Handling, Going,
     Killed, Answering, Acked, Stopping, ReplyMatches
<1>4. BreakpointsExact
  <2> SUFFICES ASSUME gdbPc = "idle" PROVE BreakpointsExact
    BY DEF BreakpointsExact
  <2>1. Exact(gdbBpts, gdbProg)
    BY DEF KdbgInv, KdbgStage, Going, Killed, Answering, Acked, AgreeBefore
  <2>2. {i \in DOMAIN dbgBpts : dbgBpts[i].addr # 0} = InUse
    BY DEF InUse, KdbgInv, KdbgFrame, StubType
  <2>3. {dbgBpts[i].addr : i \in InUse} = gdbBpts
    BY <2>1 DEF Exact
  <2>4. Cardinality(InUse) = Cardinality(gdbBpts)
    <3>1. IsFiniteSet(InUse)
      <4>1. IsFiniteSet(1..MAX_BREAK_POINTS)
        BY Sizes, FS_Interval
      <4> QED BY <4>1, FS_Subset DEF InUse
    <3> DEFINE F == [i \in InUse |-> dbgBpts[i].addr]
    <3>2. F \in Bijection(InUse, gdbBpts)
      <4>1. F \in [InUse -> gdbBpts] /\ \A i, j \in InUse : F[i] = F[j] => i = j
        BY <2>1 DEF Exact
      <4>2. \A a \in gdbBpts : \E i \in InUse : F[i] = a
        BY <2>1 DEF Exact
      <4> HIDE DEF F
      <4> QED BY <4>1, <4>2 DEF Bijection, Injection, Surjection, IsInjective
    <3> QED BY <3>1, <3>2, FS_Bijection DEF ExistsBijection
  <2>5. dbgMem = [a \in DbgAddrs |-> IF a \in gdbBpts THEN BREAK_OPC ELSE gdbProg[a]]
    BY <2>1 DEF Exact, KdbgInv, KdbgFrame, StubType
  <2>6. \A i \in InUse : dbgBpts[i].val = gdbProg[dbgBpts[i].addr]
    BY <2>1 DEF Exact
  <2> QED BY <2>2, <2>3, <2>4, <2>5, <2>6, Zenon DEF BreakpointsExact
<1> QED BY <1>1, <1>2, <1>3, <1>4 DEF KdbgSafety

(* Requests may be damaged, and are sent again: the debugger ends up with the reply
   to its own request; set_break_point and reset_break_point keep the table, the
   bytes they saved and memory as the debugger's requests and the replies it got
   imply; and the threads it is told one by one are task_queue.             *)
THEOREM DebuggerAgrees ==
  ASSUME ~NoisyReplies
  PROVE  KdbgSpec => []KdbgSafety
<1>1. KdbgInv /\ [KdbgNext]_kdbgVars => KdbgInv'
  BY KdbgInvNext
<1>2. KdbgInv => KdbgSafety
  BY InvSafety
<1> QED BY KdbgInvInit, <1>1, <1>2, PTL DEF KdbgSpec

-----------------------------------------------------------------------------
(***************************************************************************)
(* The keyboard, for every size of its buffer that holds an escape         *)
(* sequence and any number of keys and of suspended calls of the handler.  *)
(*                                                                         *)
(* The codes that wait in the controller are a chain: the modifiers and    *)
(* what was given on, before and after each of them, lead from those of    *)
(* the driver to those of the user.                                        *)
(***************************************************************************)
Chars == {"ESC", "[", "A", "5", "~", "a", "^A", "!", "1"}
Stats == SUBSET Modifiers

LEMMA StatType ==
  ASSUME NEW stat \in Stats, NEW code \in ScanCodes
  PROVE  StatAfter(stat, code) \in Stats
BY DEF StatAfter, Stats, Modifiers, ScanCodes

LEMMA EscapeType ==
  ASSUME NEW code \in DOMAIN Escapes
  PROVE  Escapes[code] \in Seq(Chars) /\ Len(Escapes[code]) \in 1..3
<1>1. code \in {"UP", "PGUP"}
  BY DEF Escapes
<1>2. CASE code = "UP"
  <2>1. Escapes[code] = <<"[", "A">>
    BY <1>2 DEF Escapes
  <2> QED BY <2>1 DEF Chars
<1>3. CASE code = "PGUP"
  <2>1. Escapes[code] = <<"[", "5", "~">>
    BY <1>3 DEF Escapes
  <2> QED BY <2>1 DEF Chars
<1> QED BY <1>1, <1>2, <1>3

LEMMA CharType ==
  ASSUME NEW stat, NEW code
  PROVE  CharOf(stat, code) \in Seq(Chars) /\ (CharOf(stat, code) # <<>> => \E c \in Chars : CharOf(stat, code) = <<c>>)
<1>1. CharOf(stat, code) = <<>> \/ \E c \in Chars : CharOf(stat, code) = <<c>>
  BY DEF CharOf, Chars
<1>2. ASSUME NEW c \in Chars PROVE <<c>> \in Seq(Chars)
  OBVIOUS
<1>3. <<>> \in Seq(Chars)
  OBVIOUS
<1> QED BY <1>1, <1>2, <1>3

LEMMA KeyType ==
  ASSUME NEW stat, NEW code
  PROVE  KeyChars(stat, code) \in Seq(Chars)
<1>1. CASE code \in DOMAIN Escapes
  <2>1. <<"ESC">> \in Seq(Chars)
    BY DEF Chars
  <2> QED BY <1>1, <2>1, EscapeType, ConcatProperties DEF KeyChars
<1>2. CASE code \notin DOMAIN Escapes
  BY <1>2, CharType DEF KeyChars
<1> QED BY <1>1, <1>2

(* What is joined behind a sequence stays behind its tail.                  *)
LEMMA TailJoin ==
  ASSUME NEW S, NEW a \in Seq(S), NEW b \in Seq(S), a # <<>>
  PROVE  Tail(a \o b) = Tail(a) \o b /\ Tail(a) \in Seq(S) /\ Len(Tail(a)) = Len(a) - 1
<1>1. PICK c : c = a \o b
  OBVIOUS
<1>2. /\ c \in Seq(S) /\ Len(c) = Len(a) + Len(b)
      /\ \A i \in 1..(Len(a) + Len(b)) : c[i] = IF i <= Len(a) THEN a[i] ELSE b[i - Len(a)]
  BY <1>1, ConcatProperties
<1>3. Len(a) \in Nat \ {0} /\ Len(b) \in Nat
  BY EmptySeq, LenProperties
<1>4. c # <<>>
  BY <1>2, <1>3
<1>5. PICK t : t = Tail(a)
  OBVIOUS
<1>6. t \in Seq(S) /\ Len(t) = Len(a) - 1 /\ \A i \in 1..Len(t) : t[i] = a[i + 1]
  BY <1>5, HeadTailProperties
<1>7. PICK u : u = Tail(c)
  OBVIOUS
<1>8. u \in Seq(S) /\ Len(u) = Len(c) - 1 /\ \A i \in 1..Len(u) : u[i] = c[i + 1]
  BY <1>4, <1>2, <1>7, HeadTailProperties
<1>9. PICK v : v = t \o b
  OBVIOUS
<1>10. /\ v \in Seq(S) /\ Len(v) = Len(t) + Len(b)
       /\ \A i \in 1..(Len(t) + Len(b)) : v[i] = IF i <= Len(t) THEN t[i] ELSE b[i - Len(t)]
  BY <1>6, <1>9, ConcatProperties
<1>11. Len(u) = Len(v) /\ Len(u) \in Nat
  BY <1>2, <1>3, <1>6, <1>8, <1>10
<1>12. ASSUME NEW i \in 1..Len(u) PROVE u[i] = v[i]
  <2>1. i + 1 \in 1..(Len(a) + Len(b)) /\ i \in 1..(Len(t) + Len(b))
    BY <1>2, <1>3, <1>6, <1>8
  <2>2. CASE i <= Len(t)
    <3>1. i + 1 <= Len(a) /\ i \in 1..Len(t)
      BY <1>3, <1>6, <2>2
    <3> QED BY <1>2, <1>6, <1>8, <1>10, <2>1, <2>2, <3>1
  <2>3. CASE ~(i <= Len(t))
    <3>1. ~(i + 1 <= Len(a)) /\ (i + 1) - Len(a) = i - Len(t)
      BY <1>3, <1>6, <2>3
    <3> QED BY <1>2, <1>8, <1>10, <2>1, <2>3, <3>1
  <2> QED BY <2>2, <2>3
<1>13. u = v
  BY <1>8, <1>10, <1>11, <1>12, SeqEqual
<1> QED BY <1>1, <1>5, <1>6, <1>7, <1>9, <1>13

-----------------------------------------------------------------------------
(* st: modifiers, cs: all that is given on, after the first i codes.         *)
IsChain(st, cs, n, port, stat, held, out, meant) ==
    /\ st \in [0..n -> Stats] /\ st[0] = stat /\ st[n] = held
    /\ cs \in [0..n -> Seq(Chars)] /\ cs[0] = out /\ cs[n] = meant
    /\ \A i \in 1..n : /\ st[i] = StatAfter(st[i - 1], port[i])
                       /\ cs[i] = cs[i - 1] \o KeyChars(st[i - 1], port[i])

Chained(port, stat, held, out, meant) ==
    \E st, cs : IsChain(st, cs, Len(port), port, stat, held, out, meant)

(* Every code that waits, and the rest of an escape sequence, has a call.      *)
KbdType ==
    /\ kbd_out \in [r : Nat, w : Nat, buf : [0..(KBD_BUF_OUT_SZ - 1) -> Chars]]
    /\ kbd_out.r <= kbd_out.w /\ kbd_out.w - kbd_out.r <= KBD_BUF_OUT_SZ
    /\ kbdPort \in Seq(ScanCodes) /\ kbdCalls \in Nat
    /\ kbdCalls >= Len(kbdPort) + (IF kbd_out.r < kbd_out.w THEN 1 ELSE 0)

KbdInv ==
    /\ KbdType
    /\ Chained(kbdPort, kbd_stat, kbdHeld, OutChars, kbdMeant)

(* A key lengthens the chain.                                               *)
LEMMA ChainLonger ==
  ASSUME NEW port \in Seq(ScanCodes), NEW stat, NEW held, NEW out, NEW meant,
         Chained(port, stat, held, out, meant), NEW code \in ScanCodes
  PROVE  Chained(Append(port, code), stat, StatAfter(held, code), out, meant \o KeyChars(held, code))
<1>1. PICK n, st, cs : n = Len(port) /\ IsChain(st, cs, n, port, stat, held, out, meant)
  BY DEF Chained
<1>2. n \in Nat
  BY <1>1
<1>3. /\ st \in [0..n -> Stats] /\ st[0] = stat /\ st[n] = held
      /\ cs \in [0..n -> Seq(Chars)] /\ cs[0] = out /\ cs[n] = meant
      /\ \A i \in 1..n : /\ st[i] = StatAfter(st[i - 1], port[i])
                         /\ cs[i] = cs[i - 1] \o KeyChars(st[i - 1], port[i])
  BY <1>1 DEF IsChain
<1>4. PICK p, x, y : p = Append(port, code) /\ x = StatAfter(held, code) /\ y = meant \o KeyChars(held, code)
  OBVIOUS
<1>5. Len(p) = n + 1 /\ p[n + 1] = code /\ \A i \in 1..n : p[i] = port[i]
  BY <1>1, <1>4
<1>6. held \in Stats /\ meant \in Seq(Chars)
  BY <1>2, <1>3
<1>7. x \in Stats /\ y \in Seq(Chars)
  BY <1>4, <1>6, StatType, KeyType, ConcatProperties
<1>8. PICK s, c : /\ s = [i \in 0..(n + 1) |-> IF i = n + 1 THEN x ELSE st[i]]
                  /\ c = [i \in 0..(n + 1) |-> IF i = n + 1 THEN y ELSE cs[i]]
  OBVIOUS
<1>9. /\ s \in [0..(n + 1) -> Stats] /\ c \in [0..(n + 1) -> Seq(Chars)]
      /\ s[n + 1] = x /\ c[n + 1] = y /\ \A i \in 0..n : s[i] = st[i] /\ c[i] = cs[i]
  BY <1>2, <1>3, <1>7, <1>8
<1>10. ASSUME NEW i \in 1..(n + 1)
       PROVE  s[i] = StatAfter(s[i - 1], p[i]) /\ c[i] = c[i - 1] \o KeyChars(s[i - 1], p[i])
  <2>1. i - 1 \in 0..n
    BY <1>2
  <2>2. s[i - 1] = st[i - 1] /\ c[i - 1] = cs[i - 1]
    BY <1>9, <2>1
  <2>3. CASE i = n + 1
    <3>1. s[i - 1] = held /\ c[i - 1] = meant
      BY <1>2, <1>3, <2>2, <2>3
    <3> QED BY <1>4, <1>5, <1>9, <2>3, <3>1
  <2>4. CASE i \in 1..n
    <3>1. s[i] = st[i] /\ c[i] = cs[i]
      BY <1>2, <1>9, <2>4
    <3> QED BY <1>3, <1>5, <2>2, <2>4, <3>1
  <2>5. i = n + 1 \/ i \in 1..n
    BY <1>2
  <2> QED BY <2>3, <2>4, <2>5, Zenon
<1>11. s[0] = stat /\ c[0] = out
  BY <1>2, <1>3, <1>9
<1>12. IsChain(s, c, n + 1, p, stat, x, out, y)
  BY <1>9, <1>10, <1>11 DEF IsChain
<1> QED BY <1>4, <1>5, <1>12 DEF Chained

(* The first character is given on: every element of the chain loses it.     *)
LEMMA ChainGives ==
  ASSUME NEW port \in Seq(ScanCodes), NEW stat, NEW held, NEW out, NEW meant,
         Chained(port, stat, held, out, meant), out # <<>>
  PROVE  meant # <<>> /\ Chained(port, stat, held, Tail(out), Tail(meant))
<1>1. PICK n, st, cs : n = Len(port) /\ IsChain(st, cs, n, port, stat, held, out, meant)
  BY DEF Chained
<1>2. n \in Nat
  BY <1>1
<1>3. /\ st \in [0..n -> Stats] /\ st[0] = stat /\ st[n] = held
      /\ cs \in [0..n -> Seq(Chars)] /\ cs[0] = out /\ cs[n] = meant
      /\ \A i \in 1..n : /\ st[i] = StatAfter(st[i - 1], port[i])
                         /\ cs[i] = cs[i - 1] \o KeyChars(st[i - 1], port[i])
  BY <1>1 DEF IsChain
<1>4. \A i \in Nat : i \in 0..n => cs[i] # <<>>
  <2> DEFINE S == {i \in Nat : i \in 0..n => cs[i] # <<>>}
  <2>1. 0 \in S
    BY <1>3
  <2>2. ASSUME NEW i \in Nat, i \in S PROVE i + 1 \in S
    <3> SUFFICES ASSUME i + 1 \in 0..n PROVE cs[i + 1] # <<>>
      OBVIOUS
    <3>1. i + 1 \in 1..n /\ (i + 1) - 1 = i /\ i \in 0..n
      BY <1>2
    <3>2. cs[i + 1] = cs[i] \o KeyChars(st[i], port[i + 1]) /\ cs[i] # <<>> /\ cs[i] \in Seq(Chars)
      BY <1>3, <2>2, <3>1
    <3> QED BY <3>2, KeyType, ConcatEqualIffEmpty
  <2> HIDE DEF S
  <2>3. \A i \in Nat : i \in S
    BY <2>1, <2>2, SetInduction
  <2> QED BY <2>3 DEF S
<1>5. PICK c : c = [i \in 0..n |-> Tail(cs[i])]
  OBVIOUS
<1>6. ASSUME NEW i \in 0..n PROVE c[i] = Tail(cs[i]) /\ c[i] \in Seq(Chars)
  <2>1. cs[i] \in Seq(Chars) /\ cs[i] # <<>>
    BY <1>2, <1>3, <1>4
  <2> QED BY <1>5, <2>1, HeadTailProperties
<1>7. c \in [0..n -> Seq(Chars)]
  BY <1>5, <1>6
<1>8. ASSUME NEW i \in 1..n PROVE c[i] = c[i - 1] \o KeyChars(st[i - 1], port[i])
  <2>1. i - 1 \in 0..n /\ i \in 0..n
    BY <1>2
  <2>2. cs[i - 1] # <<>> /\ cs[i - 1] \in Seq(Chars)
    BY <1>3, <1>4, <2>1
  <2>3. PICK k : k = KeyChars(st[i - 1], port[i])
    OBVIOUS
  <2>4. k \in Seq(Chars) /\ cs[i] = cs[i - 1] \o k
    BY <1>3, <2>3, KeyType
  <2>5. Tail(cs[i - 1] \o k) = Tail(cs[i - 1]) \o k
    BY <2>2, <2>4, TailJoin
  <2> QED BY <1>6, <2>1, <2>3, <2>4, <2>5
<1>9. c[0] = Tail(out) /\ c[n] = Tail(meant) /\ meant # <<>>
  <2>1. 0 \in 0..n /\ n \in 0..n
    BY <1>2
  <2> QED BY <1>2, <1>3, <1>4, <1>6, <2>1
<1>10. IsChain(st, c, n, port, stat, held, Tail(out), Tail(meant))
  BY <1>3, <1>7, <1>8, <1>9 DEF IsChain
<1> QED BY <1>1, <1>9, <1>10 DEF Chained

(* A code is read from the controller: the chain begins behind it.           *)
LEMMA ChainTakes ==
  ASSUME NEW port \in Seq(ScanCodes), NEW stat, NEW held, NEW meant,
         Chained(port, stat, held, <<>>, meant), port # <<>>
  PROVE  /\ Chained(Tail(port), StatAfter(stat, Head(port)), held, KeyChars(stat, Head(port)), meant)
<1>1. PICK n, st, cs : n = Len(port) /\ IsChain(st, cs, n, port, stat, held, <<>>, meant)
  BY DEF Chained
<1>2. n \in Nat /\ n >= 1
  BY <1>1
<1>3. /\ st \in [0..n -> Stats] /\ st[0] = stat /\ st[n] = held
      /\ cs \in [0..n -> Seq(Chars)] /\ cs[0] = <<>> /\ cs[n] = meant
      /\ \A i \in 1..n : /\ st[i] = StatAfter(st[i - 1], port[i])
                         /\ cs[i] = cs[i - 1] \o KeyChars(st[i - 1], port[i])
  BY <1>1 DEF IsChain
<1>4. PICK p, code, x, y : p = Tail(port) /\ code = Head(port) /\ x = StatAfter(stat, code) /\ y = KeyChars(stat, code)
  OBVIOUS
<1>5. Len(p) = n - 1 /\ code = port[1] /\ \A i \in 1..(n - 1) : p[i] = port[i + 1]
  BY <1>1, <1>2, <1>4
<1>6. st[1] = x /\ cs[1] = y
  <2>1. 1 \in 1..n /\ 1 - 1 = 0
    BY <1>2
  <2>2. st[1] = StatAfter(st[0], port[1]) /\ cs[1] = cs[0] \o KeyChars(st[0], port[1])
    BY <1>3, <2>1
  <2>3. <<>> \o y = y
    BY <1>4, KeyType, ConcatEmptySeq
  <2> QED BY <1>3, <1>4, <1>5, <2>2, <2>3
<1>7. PICK s, c : s = [i \in 0..(n - 1) |-> st[i + 1]] /\ c = [i \in 0..(n - 1) |-> cs[i + 1]]
  OBVIOUS
<1>8. /\ s \in [0..(n - 1) -> Stats] /\ c \in [0..(n - 1) -> Seq(Chars)]
      /\ \A i \in 0..(n - 1) : s[i] = st[i + 1] /\ c[i] = cs[i + 1]
  <2>1. \A i \in 0..(n - 1) : i + 1 \in 0..n
    BY <1>2
  <2>2. \A i \in 0..(n - 1) : st[i + 1] \in Stats /\ cs[i + 1] \in Seq(Chars)
    BY <1>3, <2>1, Zenon
  <2> QED BY <1>7, <2>2, Zenon
<1>9. ASSUME NEW i \in 1..(n - 1)
      PROVE  s[i] = StatAfter(s[i - 1], p[i]) /\ c[i] = c[i - 1] \o KeyChars(s[i - 1], p[i])
  <2>1. i \in 0..(n - 1) /\ i - 1 \in 0..(n - 1) /\ i + 1 \in 1..n /\ (i + 1) - 1 = i /\ (i - 1) + 1 = i
    BY <1>2
  <2>2. s[i] = st[i + 1] /\ c[i] = cs[i + 1] /\ s[i - 1] = st[i] /\ c[i - 1] = cs[i] /\ p[i] = port[i + 1]
    BY <1>5, <1>8, <2>1
  <2>3. st[i + 1] = StatAfter(st[i], port[i + 1]) /\ cs[i + 1] = cs[i] \o KeyChars(st[i], port[i + 1])
    BY <1>3, <2>1
  <2> QED BY <2>2, <2>3
<1>10. s[0] = x /\ c[0] = y /\ s[n - 1] = held /\ c[n - 1] = meant
  <2>1. 0 \in 0..(n - 1) /\ n - 1 \in 0..(n - 1) /\ 0 + 1 = 1 /\ (n - 1) + 1 = n
    BY <1>2
  <2>2. s[0] = st[1] /\ c[0] = cs[1] /\ s[n - 1] = st[n] /\ c[n - 1] = cs[n]
    BY <1>8, <2>1
  <2> QED BY <1>3, <1>6, <2>2
<1>11. IsChain(s, c, n - 1, p, x, held, y, meant)
  BY <1>8, <1>9, <1>10 DEF IsChain
<1> QED BY <1>4, <1>5, <1>11 DEF Chained

-----------------------------------------------------------------------------
(* The chain is unique, and so it is what KbdDelivers follows.               *)
LEMMA ChainIs ==
  ASSUME NEW n \in Nat, n = Len(kbdPort), NEW st, NEW cs,
         IsChain(st, cs, n, kbdPort, kbd_stat, kbdHeld, OutChars, kbdMeant)
  PROVE  KbdDelivers
<1>1. /\ st \in [0..n -> Stats] /\ st[0] = kbd_stat
      /\ cs \in [0..n -> Seq(Chars)] /\ cs[0] = OutChars /\ cs[n] = kbdMeant
      /\ \A i \in 1..n : /\ st[i] = StatAfter(st[i - 1], kbdPort[i])
                         /\ cs[i] = cs[i - 1] \o KeyChars(st[i - 1], kbdPort[i])
  BY DEF IsChain
<1>2. PortStats = [i \in 0..n |-> IF i = 0 THEN kbd_stat ELSE StatAfter(PortStats[i - 1], kbdPort[i])]
  <2> DEFINE F(f) == [i \in 0..n |-> IF i = 0 THEN kbd_stat ELSE StatAfter(f[i - 1], kbdPort[i])]
  <2>1. st = F(st)
    <3>1. ASSUME NEW i \in 0..n PROVE st[i] = IF i = 0 THEN kbd_stat ELSE StatAfter(st[i - 1], kbdPort[i])
      <4>1. i = 0 \/ i \in 1..n
        OBVIOUS
      <4> QED BY <1>1, <4>1
    <3> QED BY <1>1, <3>1
  <2>2. PortStats = CHOOSE f : f = F(f)
    BY DEF PortStats
  <2> QED BY <2>1, <2>2
<1>3. \A i \in Nat : i \in 0..n => PortStats[i] = st[i]
  <2> DEFINE S == {i \in Nat : i \in 0..n => PortStats[i] = st[i]}
  <2>1. 0 \in S
    <3>1. 0 \in 0..n
      OBVIOUS
    <3>2. PortStats[0] = kbd_stat
      BY <1>2, <3>1
    <3> QED BY <1>1, <3>2
  <2>2. ASSUME NEW i \in Nat, i \in S PROVE i + 1 \in S
    <3> SUFFICES ASSUME i + 1 \in 0..n PROVE PortStats[i + 1] = st[i + 1]
      OBVIOUS
    <3>1. i + 1 \in 1..n /\ (i + 1) - 1 = i /\ i \in 0..n /\ i + 1 # 0
      OBVIOUS
    <3>2. PortStats[i + 1] = StatAfter(PortStats[i], kbdPort[i + 1])
      BY <1>2, <3>1
    <3>3. st[i + 1] = StatAfter(st[i], kbdPort[i + 1])
      BY <1>1, <3>1
    <3> QED BY <2>2, <3>1, <3>2, <3>3
  <2> HIDE DEF S
  <2>3. \A i \in Nat : i \in S
    BY <2>1, <2>2, SetInduction
  <2> QED BY <2>3 DEF S
<1>4. \A i \in 1..n : cs[i] = cs[i - 1] \o KeyChars(PortStats[i - 1], kbdPort[i])
  <2> SUFFICES ASSUME NEW i \in 1..n PROVE cs[i] = cs[i - 1] \o KeyChars(PortStats[i - 1], kbdPort[i])
    OBVIOUS
  <2>1. i - 1 \in Nat /\ i - 1 \in 0..n
    OBVIOUS
  <2>2. PortStats[i - 1] = st[i - 1]
    BY <1>3, <2>1
  <2> QED BY <1>1, <2>2
<1>5. PortChars = [i \in 0..n |-> IF i = 0 THEN OutChars ELSE PortChars[i - 1] \o KeyChars(PortStats[i - 1], kbdPort[i])]
  <2> DEFINE F(f) == [i \in 0..n |-> IF i = 0 THEN OutChars ELSE f[i - 1] \o KeyChars(PortStats[i - 1], kbdPort[i])]
  <2>1. cs = F(cs)
    <3>1. ASSUME NEW i \in 0..n
          PROVE cs[i] = IF i = 0 THEN OutChars ELSE cs[i - 1] \o KeyChars(PortStats[i - 1], kbdPort[i])
      <4>1. i = 0 \/ i \in 1..n
        OBVIOUS
      <4> QED BY <1>1, <1>4, <4>1
    <3> QED BY <1>1, <3>1
  <2>2. PortChars = CHOOSE f : f = F(f)
    BY DEF PortChars
  <2> QED BY <2>1, <2>2
<1>6. \A i \in Nat : i \in 0..n => PortChars[i] = cs[i]
  <2> DEFINE S == {i \in Nat : i \in 0..n => PortChars[i] = cs[i]}
  <2>1. 0 \in S
    <3>1. 0 \in 0..n
      OBVIOUS
    <3>2. PortChars[0] = OutChars
      BY <1>5, <3>1
    <3> QED BY <1>1, <3>2
  <2>2. ASSUME NEW i \in Nat, i \in S PROVE i + 1 \in S
    <3> SUFFICES ASSUME i + 1 \in 0..n PROVE PortChars[i + 1] = cs[i + 1]
      OBVIOUS
    <3>1. i + 1 \in 1..n /\ (i + 1) - 1 = i /\ i \in 0..n /\ i + 1 # 0
      OBVIOUS
    <3>2. PortChars[i + 1] = PortChars[i] \o KeyChars(PortStats[i], kbdPort[i + 1])
      BY <1>5, <3>1
    <3>3. cs[i + 1] = cs[i] \o KeyChars(PortStats[i], kbdPort[i + 1])
      BY <1>4, <3>1
    <3> QED BY <2>2, <3>1, <3>2, <3>3
  <2> HIDE DEF S
  <2>3. \A i \in Nat : i \in S
    BY <2>1, <2>2, SetInduction
  <2> QED BY <2>3 DEF S
<1>7. PortChars[n] = kbdMeant
  <2>1. n \in 0..n
    OBVIOUS
  <2> QED BY <1>1, <1>6, <2>1
<1> QED BY <1>7 DEF KbdDelivers

LEMMA InvKbdSafety == KbdInv => KbdSafety
<1> SUFFICES ASSUME KbdInv PROVE KbdSafety
  OBVIOUS
<1>1. PICK n, st, cs : n = Len(kbdPort) /\ IsChain(st, cs, n, kbdPort, kbd_stat, kbdHeld, OutChars, kbdMeant)
  BY DEF KbdInv, Chained
<1>2. n \in Nat
  BY <1>1 DEF KbdInv, KbdType
<1>3. KbdDelivers
  BY <1>1, <1>2, ChainIs
<1>4. KbdDrained
  <2>1. kbdPort # <<>> => Len(kbdPort) >= 1
    BY DEF KbdInv, KbdType
  <2>2. Len(kbdPort) \in Nat
    BY <1>1, <1>2
  <2> QED BY <2>1, <2>2 DEF KbdInv, KbdType, KbdDrained
<1> QED BY <1>3, <1>4 DEF KbdSafety

-----------------------------------------------------------------------------
(* The ring kbd_out.                                                        *)
LEMMA OutType ==
  ASSUME KbdType
  PROVE  /\ OutChars \in Seq(Chars) /\ Len(OutChars) = kbd_out.w - kbd_out.r
         /\ (OutChars = <<>> <=> ~OutFirst(kbd_out))
<1>1. /\ kbd_out.r \in Nat /\ kbd_out.w \in Nat /\ kbd_out.r <= kbd_out.w
      /\ kbd_out.buf \in [0..(KBD_BUF_OUT_SZ - 1) -> Chars]
  BY DEF KbdType
<1>2. PICK m : m = kbd_out.w - kbd_out.r
  OBVIOUS
<1>3. m \in Nat
  BY <1>1, <1>2
<1>4. ASSUME NEW k \in 1..m PROVE kbd_out.buf[(kbd_out.r + k - 1) % KBD_BUF_OUT_SZ] \in Chars
  <2>1. (kbd_out.r + k - 1) % KBD_BUF_OUT_SZ \in 0..(KBD_BUF_OUT_SZ - 1)
    <3>1. kbd_out.r + k - 1 \in Int /\ KBD_BUF_OUT_SZ \in Nat /\ KBD_BUF_OUT_SZ > 0
      BY <1>1, KbdAssumption
    <3> QED BY <3>1, Quotient
  <2> QED BY <1>1, <2>1
<1>5. OutChars = [k \in 1..m |-> kbd_out.buf[(kbd_out.r + k - 1) % KBD_BUF_OUT_SZ]]
  BY <1>2 DEF OutChars
<1>6. OutChars \in [1..m -> Chars]
  BY <1>4, <1>5
<1>7. OutChars \in Seq(Chars) /\ Len(OutChars) = m
  BY <1>3, <1>6
<1>8. OutChars = <<>> <=> m = 0
  BY <1>3, <1>7
<1> QED BY <1>1, <1>2, <1>7, <1>8 DEF OutFirst

(* kbd_getc takes a character out.                                          *)
LEMMA OutGives ==
  ASSUME KbdType, OutFirst(kbd_out), kbd_out' = [kbd_out EXCEPT !.r = @ + 1]
  PROVE  OutChars' = Tail(OutChars)
<1>1. /\ kbd_out.r \in Nat /\ kbd_out.w \in Nat /\ kbd_out.r < kbd_out.w
      /\ kbd_out'.r = kbd_out.r + 1 /\ kbd_out'.w = kbd_out.w /\ kbd_out'.buf = kbd_out.buf
  BY DEF KbdType, OutFirst
<1>2. PICK m, r, b : m = kbd_out.w - kbd_out.r /\ r = kbd_out.r /\ b = kbd_out.buf
  OBVIOUS
<1>3. m \in Nat \ {0} /\ r \in Nat
  BY <1>1, <1>2
<1>4. PICK s : s = OutChars
  OBVIOUS
<1>5. s \in Seq(Chars) /\ Len(s) = m /\ s # <<>> /\ \A k \in 1..m : s[k] = b[(r + k - 1) % KBD_BUF_OUT_SZ]
  BY <1>2, <1>4, OutType DEF OutChars
<1>6. PICK t : t = OutChars'
  OBVIOUS
<1>7. t = [k \in 1..(m - 1) |-> b[(r + 1 + k - 1) % KBD_BUF_OUT_SZ]]
  <2>1. kbd_out'.w - kbd_out'.r = m - 1
    BY <1>1, <1>2
  <2> QED BY <1>1, <1>2, <1>6, <2>1 DEF OutChars
<1>8. /\ Tail(s) \in Seq(Chars) /\ Len(Tail(s)) = m - 1 /\ \A k \in 1..(m - 1) : Tail(s)[k] = s[k + 1]
  BY <1>3, <1>5, HeadTailProperties
<1>9. ASSUME NEW k \in 1..(m - 1) PROVE t[k] = Tail(s)[k]
  <2>1. k + 1 \in 1..m /\ r + (k + 1) - 1 = r + 1 + k - 1
    BY <1>3
  <2>2. s[k + 1] = b[(r + (k + 1) - 1) % KBD_BUF_OUT_SZ]
    BY <1>5, <2>1
  <2>3. t[k] = b[(r + 1 + k - 1) % KBD_BUF_OUT_SZ]
    BY <1>7
  <2> QED BY <1>8, <2>1, <2>2, <2>3
<1>10. t = Tail(s)
  <2>1. Tail(s) \in [1..(m - 1) -> Chars]
    BY <1>3, <1>8, LenProperties
  <2> QED BY <1>7, <1>9, <2>1
<1> QED BY <1>4, <1>6, <1>10

(* Where a character was written it is found.                               *)
LEMMA PlaceBack ==
  ASSUME NEW S \in Nat, S > 0, NEW x \in Nat, NEW k \in 0..(S - 1)
  PROVE  (x + k) % S \in 0..(S - 1) /\ (((x + k) % S) - x) % S = k
<1>1. PICK p : p = (x + k) % S
  OBVIOUS
<1>2. x + k \in Int
  OBVIOUS
<1>3. p \in 0..(S - 1)
  BY <1>1, <1>2, Quotient
<1>4. PICK q \in Int : x + k = q * S + p
  BY <1>1, <1>2, Quotient, Zenon
<1>5. p - x \in Int
  BY <1>3
<1>6. PICK t : t = (p - x) % S
  OBVIOUS
<1>7. t \in 0..(S - 1)
  BY <1>5, <1>6, Quotient
<1>8. PICK u \in Int : p - x = u * S + t
  BY <1>5, <1>6, Quotient, Zenon
<1>9. (u + q) * S + t = 0 * S + k
  <2>1. (u + q) * S = u * S + q * S /\ u * S \in Int /\ q * S \in Int
    OBVIOUS
  <2> QED BY <1>3, <1>4, <1>7, <1>8, <2>1
<1>10. t = k
  <2>1. u + q \in Int /\ 0 \in Int
    OBVIOUS
  <2> QED BY <1>7, <1>9, <2>1, DivUnique
<1> QED BY <1>1, <1>3, <1>6, <1>10

(* kbd_wbuf writes a sequence that fits into the empty ring.                 *)
LEMMA Written ==
  ASSUME KbdType, ~OutFirst(kbd_out), NEW cs \in Seq(Chars), Len(cs) \in 1..KBD_BUF_OUT_SZ,
         kbd_out' = Wbuf(kbd_out, cs)
  PROVE  /\ kbd_out' \in [r : Nat, w : Nat, buf : [0..(KBD_BUF_OUT_SZ - 1) -> Chars]]
         /\ kbd_out'.w - kbd_out'.r = Len(cs) /\ OutChars' = cs
<1>1. PICK S, x, n, b : S = KBD_BUF_OUT_SZ /\ x = kbd_out.w /\ n = Len(cs) /\ b = kbd_out.buf
  OBVIOUS
<1>2. /\ kbd_out.r = x /\ x \in Nat /\ S \in Nat /\ S > 0 /\ n \in Nat /\ n <= S /\ n >= 1
      /\ b \in [0..(S - 1) -> Chars] /\ kbd_out.w - kbd_out.r = 0
  BY <1>1, KbdAssumption DEF KbdType, OutFirst
<1>3. PICK c : c = [k \in 0..(S - 1) |-> IF (k - x) % S < n THEN cs[((k - x) % S) + 1] ELSE b[k]]
  OBVIOUS
<1>4. kbd_out' = [r |-> x, w |-> x + n, buf |-> c]
  <2>1. S - (kbd_out.w - kbd_out.r) = S /\ DOMAIN kbd_out.buf = 0..(S - 1)
    BY <1>1, <1>2
  <2> QED BY <1>1, <1>2, <1>3, <2>1 DEF Wbuf
<1>5. c \in [0..(S - 1) -> Chars]
  <2>1. ASSUME NEW k \in 0..(S - 1), (k - x) % S < n PROVE cs[((k - x) % S) + 1] \in Chars
    <3>1. (k - x) % S \in 0..(S - 1)
      <4>1. k - x \in Int
        BY <1>2
      <4> QED BY <1>2, <4>1, Quotient
    <3>2. ((k - x) % S) + 1 \in 1..n
      BY <1>2, <2>1, <3>1
    <3> QED BY <1>1, <3>2, ElementOfSeq
  <2> QED BY <1>2, <1>3, <2>1
<1>6. /\ kbd_out'.r = x /\ kbd_out'.w = x + n /\ kbd_out'.buf = c /\ kbd_out'.w - kbd_out'.r = n
  BY <1>2, <1>4
<1>7. OutChars' = [k \in 1..n |-> c[(x + k - 1) % S]]
  BY <1>1, <1>6 DEF OutChars
<1>8. ASSUME NEW k \in 1..n PROVE c[(x + k - 1) % S] = cs[k]
  <2>1. k - 1 \in 0..(S - 1) /\ x + (k - 1) = x + k - 1 /\ (k - 1) + 1 = k /\ k - 1 < n
    BY <1>2
  <2>2. (x + (k - 1)) % S \in 0..(S - 1) /\ (((x + (k - 1)) % S) - x) % S = k - 1
    BY <1>2, <2>1, PlaceBack, ZenonT(60)
  <2>3. PICK p : p = (x + k - 1) % S
    OBVIOUS
  <2>4. p \in 0..(S - 1) /\ (p - x) % S = k - 1
    BY <2>1, <2>2, <2>3
  <2>5. c[p] = cs[((p - x) % S) + 1]
    BY <1>3, <2>1, <2>4
  <2> QED BY <2>1, <2>3, <2>4, <2>5
<1>9. OutChars' = cs
  <2>1. cs \in [1..n -> Chars]
    BY <1>1, LenProperties
  <2> QED BY <1>7, <1>8, <2>1
<1>10. kbd_out' \in [r : Nat, w : Nat, buf : [0..(KBD_BUF_OUT_SZ - 1) -> Chars]]
  BY <1>1, <1>2, <1>4, <1>5
<1> QED BY <1>1, <1>6, <1>9, <1>10

-----------------------------------------------------------------------------
LEMMA KeyKeeps ==
  ASSUME KbdInv, NEW code \in ScanCodes, KeyEvent(code)
  PROVE  KbdInv'
<1>1. /\ kbdPort' = Append(kbdPort, code) /\ kbdCalls' = kbdCalls + 1 /\ kbdHeld' = StatAfter(kbdHeld, code)
      /\ kbdMeant' = kbdMeant \o KeyChars(kbdHeld, code) /\ kbd_stat' = kbd_stat /\ kbd_out' = kbd_out
  BY DEF KeyEvent
<1>2. kbdPort \in Seq(ScanCodes) /\ KbdType /\ Chained(kbdPort, kbd_stat, kbdHeld, OutChars, kbdMeant)
  BY DEF KbdInv, KbdType
<1>3. OutChars' = OutChars
  BY <1>1 DEF OutChars
<1>4. kbdPort' \in Seq(ScanCodes) /\ Len(kbdPort') = Len(kbdPort) + 1
  BY <1>1, <1>2
<1>5. KbdType'
  BY <1>1, <1>2, <1>4 DEF KbdType
<1>6. Chained(Append(kbdPort, code), kbd_stat, StatAfter(kbdHeld, code), OutChars, kbdMeant \o KeyChars(kbdHeld, code))
  BY <1>2, ChainLonger
<1> QED BY <1>1, <1>3, <1>5, <1>6 DEF KbdInv

LEMMA HandlerKeeps ==
  ASSUME KbdInv, KbdHandlerStep
  PROVE  KbdInv'
<1>1. /\ KbdType /\ Chained(kbdPort, kbd_stat, kbdHeld, OutChars, kbdMeant)
      /\ kbdPort \in Seq(ScanCodes) /\ kbdCalls \in Nat /\ kbdCalls > 0 /\ kbdHeld' = kbdHeld
      /\ kbdCalls >= Len(kbdPort) + (IF kbd_out.r < kbd_out.w THEN 1 ELSE 0) /\ Len(kbdPort) \in Nat
  BY DEF KbdInv, KbdType, KbdHandlerStep
<1>2. CASE OutFirst(kbd_out)
  <2>1. /\ Gives /\ kbd_out' = [kbd_out EXCEPT !.r = @ + 1] /\ kbd_stat' = kbd_stat /\ kbdPort' = kbdPort
    BY <1>2 DEF KbdHandlerStep
  <2>2. OutChars # <<>> /\ OutChars' = Tail(OutChars)
    BY <1>1, <1>2, <2>1, OutType, OutGives
  <2>3. kbdMeant # <<>> /\ Chained(kbdPort, kbd_stat, kbdHeld, Tail(OutChars), Tail(kbdMeant))
    BY <1>1, <2>2, ChainGives
  <2>4. kbdMeant' = Tail(kbdMeant) /\ kbdCalls' = kbdCalls
    BY <2>1, <2>3 DEF Gives
  <2>5. KbdType'
    <3>1. /\ kbd_out'.r = kbd_out.r + 1 /\ kbd_out'.w = kbd_out.w /\ kbd_out'.buf = kbd_out.buf
          /\ kbd_out' \in [r : Nat, w : Nat, buf : [0..(KBD_BUF_OUT_SZ - 1) -> Chars]]
          /\ kbd_out.r \in Nat /\ kbd_out.w \in Nat /\ kbd_out.r < kbd_out.w /\ kbd_out.w - kbd_out.r <= KBD_BUF_OUT_SZ
      BY <1>1, <1>2, <2>1 DEF KbdType, OutFirst
    <3>2. KBD_BUF_OUT_SZ \in Nat
      BY KbdAssumption
    <3>3. /\ kbd_out'.r <= kbd_out'.w /\ kbd_out'.w - kbd_out'.r <= KBD_BUF_OUT_SZ
          /\ kbdCalls' >= Len(kbdPort') + (IF kbd_out'.r < kbd_out'.w THEN 1 ELSE 0)
      BY <1>1, <2>1, <2>4, <3>1, <3>2
    <3> QED BY <1>1, <2>1, <2>4, <3>1, <3>3 DEF KbdType
  <2> QED BY <1>1, <2>1, <2>2, <2>3, <2>4, <2>5 DEF KbdInv
<1>3. CASE ~OutFirst(kbd_out) /\ kbdPort = <<>>
  <2>1. /\ kbdCalls' = kbdCalls - 1 /\ kbdMeant' = kbdMeant
        /\ kbd_stat' = kbd_stat /\ kbd_out' = kbd_out /\ kbdPort' = kbdPort
    BY <1>3 DEF KbdHandlerStep, CallEnds
  <2>2. OutChars' = OutChars
    BY <2>1 DEF OutChars
  <2>3. Len(kbdPort) = 0 /\ ~(kbd_out.r < kbd_out.w)
    BY <1>3 DEF OutFirst
  <2>4. kbdCalls' \in Nat /\ kbdCalls' >= Len(kbdPort') + (IF kbd_out'.r < kbd_out'.w THEN 1 ELSE 0)
    BY <1>1, <2>1, <2>3
  <2>5. KbdType'
    BY <1>1, <2>1, <2>4 DEF KbdType
  <2> QED BY <1>1, <2>1, <2>2, <2>5 DEF KbdInv
<1>4. CASE ~OutFirst(kbd_out) /\ kbdPort # <<>>
  <2>1. PICK code, stat, port : code = Head(kbdPort) /\ stat = StatAfter(kbd_stat, code) /\ port = Tail(kbdPort)
    OBVIOUS
  <2>2. /\ kbd_stat' = stat /\ kbdPort' = port
        /\ code \in DOMAIN Escapes => Gives /\ kbd_out' = Wbuf(kbd_out, Escapes[code])
        /\ code \notin DOMAIN Escapes =>
              (IF CharOf(kbd_stat, code) = <<>> THEN CallEnds ELSE Gives) /\ kbd_out' = kbd_out
    BY <1>4, <2>1 DEF KbdHandlerStep
  <2>3. OutChars = <<>> /\ ~(kbd_out.r < kbd_out.w)
    BY <1>1, <1>4, OutType DEF OutFirst
  <2>4. Chained(port, stat, kbdHeld, KeyChars(kbd_stat, code), kbdMeant)
    BY <1>1, <1>4, <2>1, <2>3, ChainTakes
  <2>5. port \in Seq(ScanCodes) /\ Len(port) = Len(kbdPort) - 1 /\ Len(port) \in Nat
    BY <1>1, <1>4, <2>1
  <2>6. CASE code \in DOMAIN Escapes
    <3>1. PICK e : e = Escapes[code]
      OBVIOUS
    <3>2. e \in Seq(Chars) /\ Len(e) \in 1..3 /\ Len(e) \in 1..KBD_BUF_OUT_SZ
      <4>1. e \in Seq(Chars) /\ Len(e) \in 1..3
        BY <2>6, <3>1, EscapeType
      <4>2. KBD_BUF_OUT_SZ \in Nat /\ KBD_BUF_OUT_SZ >= 3
        BY KbdAssumption
      <4>3. \A l \in 1..3 : l \in 1..KBD_BUF_OUT_SZ
        BY <4>2
      <4> QED BY <4>1, <4>3, Zenon
    <3>3. KeyChars(kbd_stat, code) = <<"ESC">> \o e /\ <<"ESC">> \in Seq(Chars) /\ <<"ESC">> # <<>>
      <4>1. "ESC" \in Chars
        BY DEF Chars
      <4>2. <<"ESC">> \in Seq(Chars) /\ <<"ESC">> # <<>>
        BY <4>1
      <4> QED BY <2>6, <3>1, <4>2 DEF KeyChars
    <3>4. /\ Tail(<<"ESC">> \o e) = e /\ <<"ESC">> \o e # <<>>
      <4>1. Tail(<<"ESC">>) = <<>>
        OBVIOUS
      <4>2. Tail(<<"ESC">> \o e) = Tail(<<"ESC">>) \o e
        BY <3>2, <3>3, TailJoin
      <4>3. <<>> \o e = e
        BY <3>2, ConcatEmptySeq
      <4>4. <<"ESC">> \o e # <<>>
        BY <3>2, <3>3, ConcatEqualIffEmpty
      <4> QED BY <4>1, <4>2, <4>3, <4>4
    <3>5. kbdMeant # <<>> /\ Chained(port, stat, kbdHeld, e, Tail(kbdMeant))
      <4>1. Chained(port, stat, kbdHeld, <<"ESC">> \o e, kbdMeant)
        BY <2>4, <3>3
      <4>2. kbdMeant # <<>> /\ Chained(port, stat, kbdHeld, Tail(<<"ESC">> \o e), Tail(kbdMeant))
        BY <2>5, <3>4, <4>1, ChainGives
      <4> QED BY <3>4, <4>2
    <3>6. kbdMeant' = Tail(kbdMeant) /\ kbdCalls' = kbdCalls /\ kbd_out' = Wbuf(kbd_out, e)
      BY <2>2, <2>6, <3>1, <3>5 DEF Gives
    <3>7. /\ kbd_out' \in [r : Nat, w : Nat, buf : [0..(KBD_BUF_OUT_SZ - 1) -> Chars]]
          /\ kbd_out'.w - kbd_out'.r = Len(e) /\ OutChars' = e
      BY <1>1, <1>4, <3>2, <3>6, Written
    <3>8. KbdType'
      <4>1. kbd_out'.r \in Nat /\ kbd_out'.w \in Nat /\ Len(e) \in Nat
        BY <3>2, <3>7
      <4>2. kbd_out'.r <= kbd_out'.w /\ kbd_out'.w - kbd_out'.r <= KBD_BUF_OUT_SZ
        BY <3>2, <3>7, <4>1
      <4>3. kbdCalls' >= Len(port) + 1
        BY <1>1, <2>5, <3>6, <2>3
      <4> QED BY <1>1, <2>2, <2>5, <3>6, <3>7, <4>2, <4>3 DEF KbdType
    <3> QED BY <1>1, <2>2, <3>5, <3>6, <3>7, <3>8 DEF KbdInv
  <2>7. CASE code \notin DOMAIN Escapes
    <3>1. kbd_out' = kbd_out /\ OutChars' = <<>> /\ KeyChars(kbd_stat, code) = CharOf(kbd_stat, code)
      BY <2>2, <2>3, <2>7 DEF OutChars, KeyChars
    <3>2. CASE CharOf(kbd_stat, code) = <<>>
      <4>1. kbdCalls' = kbdCalls - 1 /\ kbdMeant' = kbdMeant
        BY <2>2, <2>7, <3>2 DEF CallEnds
      <4>2. kbdCalls' \in Nat /\ kbdCalls' >= Len(port) + (IF kbd_out'.r < kbd_out'.w THEN 1 ELSE 0)
        BY <1>1, <2>3, <2>5, <3>1, <4>1
      <4>3. KbdType'
        BY <1>1, <2>2, <2>5, <3>1, <4>2 DEF KbdType
      <4> QED BY <1>1, <2>2, <2>4, <3>1, <3>2, <4>1, <4>3 DEF KbdInv
    <3>3. CASE CharOf(kbd_stat, code) # <<>>
      <4>1. PICK c \in Chars : CharOf(kbd_stat, code) = <<c>>
        BY <3>3, CharType
      <4>2. <<c>> # <<>> /\ Tail(<<c>>) = <<>>
        OBVIOUS
      <4>3. kbdMeant # <<>> /\ Chained(port, stat, kbdHeld, Tail(<<c>>), Tail(kbdMeant))
        <5>1. Chained(port, stat, kbdHeld, <<c>>, kbdMeant)
          BY <2>4, <3>1, <4>1
        <5> QED BY <2>5, <4>2, <5>1, ChainGives
      <4>4. kbdMeant' = Tail(kbdMeant) /\ kbdCalls' = kbdCalls
        BY <2>2, <2>7, <3>3, <4>3 DEF Gives
      <4>5. kbdCalls' >= Len(port) + (IF kbd_out'.r < kbd_out'.w THEN 1 ELSE 0)
        BY <1>1, <2>3, <2>5, <3>1, <4>4
      <4>6. KbdType'
        BY <1>1, <2>2, <2>5, <3>1, <4>4, <4>5 DEF KbdType
      <4> QED BY <1>1, <2>2, <3>1, <4>2, <4>3, <4>4, <4>6 DEF KbdInv
    <3> QED BY <3>2, <3>3
  <2> QED BY <2>6, <2>7
<1> QED BY <1>2, <1>3, <1>4

LEMMA KbdInitInv == KbdInit => KbdInv
<1> SUFFICES ASSUME KbdInit PROVE KbdInv
  OBVIOUS
<1>1. /\ kbd_stat = {} /\ kbdHeld = {} /\ kbdPort = <<>> /\ kbdMeant = <<>> /\ kbdCalls = 0
      /\ kbd_out = [r |-> 0, w |-> 0, buf |-> [k \in 0..(KBD_BUF_OUT_SZ - 1) |-> "["]]
  BY DEF KbdInit
<1>2. "[" \in Chars
  BY DEF Chars
<1>3. KbdType
  BY <1>1, <1>2, KbdAssumption DEF KbdType
<1>4. OutChars = <<>>
  BY <1>1, <1>3, OutType DEF OutFirst
<1>5. PICK st, cs : st = [i \in 0..0 |-> {}] /\ cs = [i \in 0..0 |-> <<>>]
  OBVIOUS
<1>6. IsChain(st, cs, 0, kbdPort, kbd_stat, kbdHeld, OutChars, kbdMeant)
  <2>1. st \in [0..0 -> Stats] /\ st[0] = {}
    BY <1>5 DEF Stats
  <2>2. cs \in [0..0 -> Seq(Chars)] /\ cs[0] = <<>>
    <3>1. <<>> \in Seq(Chars) /\ 0 \in 0..0
      OBVIOUS
    <3> QED BY <1>5, <3>1, Zenon
  <2>3. 1..0 = {}
    OBVIOUS
  <2> QED BY <1>1, <1>4, <2>1, <2>2, <2>3 DEF IsChain
<1>7. Len(kbdPort) = 0
  BY <1>1
<1> QED BY <1>3, <1>6, <1>7 DEF KbdInv, Chained

LEMMA KbdStep == KbdInv /\ [KbdNext]_kbdVars => KbdInv'
<1> SUFFICES ASSUME KbdInv, [KbdNext]_kbdVars PROVE KbdInv'
  OBVIOUS
<1>1. CASE UNCHANGED kbdVars
  BY <1>1 DEF kbdVars, KbdInv, KbdType, OutChars
<1> QED BY <1>1, KeyKeeps, HandlerKeeps DEF KbdNext

(* The loop of kbd_handler gives the terminal what was typed, with the modifiers
   that were held then, once and in order, and no escape sequence is torn apart
   or left over, however many calls are suspended in the loop.              *)
THEOREM KeysDelivered == KbdSpec => []KbdSafety
<1> QED BY KbdInitInv, KbdStep, InvKbdSafety, PTL DEF KbdSpec

-----------------------------------------------------------------------------
(* The screen of a terminal.                                                *)

(* The screen, with what it shows.                                          *)
Seen == CrtGlyphs \cup {"+", Blank}
Screens == [x : Nat, y : Nat, buf : [Cells -> Seen], halt : BOOLEAN, outside : SUBSET {"erase"}]

(* Where a cursor may be.                                                   *)
OnScreen(s) ==
    /\ s.y \in 0..(CRT_ROWS - 1)
    /\ s.x \in 0..(CRT_COLS + TAB_SPACES) \/ (s.x = CrtWord - 1 /\ s.y = 0)

(* A text ends in front of the cursor.                                      *)
TextShown(s, text) ==
    /\ Len(text) <= CRT_COLS /\ Len(text) <= CrtPos(s)
    /\ text # <<>> => s.x \in 1..(CRT_COLS + 1)
    /\ \A k \in 1..Len(text) : s.buf[CrtPos(s) - k] = text[Len(text) + 1 - k]

ScreenInv ==
    /\ crt \in Screens /\ OnScreen(crt)
    /\ crtText \in Seq(Seen) /\ TextShown(crt, crtText)

-----------------------------------------------------------------------------
LEMMA CrtSizes ==
  /\ CRT_COLS \in Nat \ {0, 1} /\ CRT_ROWS \in Nat \ {0} /\ TAB_SPACES \in Nat \ {0}
  /\ CrtWord \in Nat /\ CrtWord > (CRT_ROWS + 1) * (CRT_COLS + TAB_SPACES)
  /\ ANSI_MAX_CHARS \in Nat
BY CrtAssumption, Zenon

(* Rows.                                                                    *)
LEMMA RowFacts ==
  ASSUME NEW y \in 0..(CRT_ROWS - 1)
  PROVE  /\ CRT_COLS * y \in Nat /\ CRT_COLS * (y + 1) = CRT_COLS * y + CRT_COLS
         /\ CRT_COLS * CRT_ROWS \in Nat /\ CRT_ROWS * CRT_COLS = CRT_COLS * CRT_ROWS
         /\ CRT_COLS * y + CRT_COLS <= CRT_COLS * CRT_ROWS
         /\ y + 1 < CRT_ROWS => CRT_COLS * y + CRT_COLS + CRT_COLS <= CRT_COLS * CRT_ROWS
<1>1. CRT_COLS \in Nat /\ CRT_ROWS \in Nat /\ y \in Nat
  BY CrtSizes
<1>2. /\ CRT_COLS * y \in Nat /\ CRT_COLS * (y + 1) = CRT_COLS * y + CRT_COLS
      /\ CRT_COLS * CRT_ROWS \in Nat /\ CRT_ROWS * CRT_COLS = CRT_COLS * CRT_ROWS
  BY <1>1
<1>3. PICK m \in Nat : CRT_ROWS = y + 1 + m
  BY <1>1
<1>4. CRT_COLS * CRT_ROWS = CRT_COLS * y + CRT_COLS + CRT_COLS * m /\ CRT_COLS * m \in Nat
  BY <1>1, <1>3
<1>5. m > 0 => CRT_COLS * m >= CRT_COLS
  BY <1>1
<1> QED BY <1>1, <1>2, <1>3, <1>4, <1>5

(* The width of x is enough for the screen.                                 *)
LEMMA WordFacts ==
  /\ CrtWord \in Nat /\ CrtWord > CRT_COLS + TAB_SPACES /\ CrtWord > CRT_ROWS
  /\ CRT_COLS \in Nat \ {0, 1} /\ CRT_ROWS \in Nat \ {0} /\ TAB_SPACES \in Nat \ {0}
<1>1. PICK a \in Nat : a = CRT_COLS + TAB_SPACES /\ a > 0
  BY CrtSizes
<1>2. (CRT_ROWS + 1) * a = CRT_ROWS * a + a /\ CRT_ROWS * a >= CRT_ROWS
  BY <1>1, CrtSizes
<1> QED BY <1>1, <1>2, CrtSizes

(* crt_lf keeps what is on the screen in place, but for its last row.       *)
LEMMA NextLineFacts ==
  ASSUME NEW s \in Screens, s.y \in 0..(CRT_ROWS - 1), s.x \in 0..(CRT_COLS + TAB_SPACES)
  PROVE  /\ NextLine(s) \in Screens /\ NextLine(s).x = s.x /\ NextLine(s).y \in 0..(CRT_ROWS - 1)
         /\ NextLine(s).halt = s.halt
         /\ s.x < CRT_COLS /\ s.y + 1 < CRT_ROWS =>
               NextLine(s).y = s.y + 1 /\ NextLine(s).buf = s.buf
<1> DEFINE t == [s EXCEPT !.y = @ + 1]
           u == [t EXCEPT !.y = @ - 1,
                          !.buf = [k \in Cells |-> IF k < CRT_COLS * (t.y - 1) THEN @[k + CRT_COLS]
                                                   ELSE IF k < CRT_COLS * t.y THEN Blank ELSE @[k]]]
<1>1. NextLine(s) = IF CrtPos(t) >= CRT_ROWS * CRT_COLS THEN u ELSE t
  BY DEF NextLine, ScrolledUp
<1>2. s.x \in Nat /\ s.y \in Nat /\ s.buf \in [Cells -> Seen] /\ s.halt \in BOOLEAN
  BY DEF Screens
<1>3. t \in Screens /\ t.x = s.x /\ t.y = s.y + 1 /\ t.buf = s.buf /\ t.halt = s.halt
  BY <1>2 DEF Screens
<1>4. CrtPos(t) = CRT_COLS * s.y + CRT_COLS + s.x
  BY <1>3, RowFacts DEF CrtPos
<1> HIDE DEF t
<1>5. u \in Screens /\ u.x = s.x /\ u.y = s.y /\ u.halt = s.halt
  <2>1. t.y - 1 = s.y /\ t.y - 1 \in Nat
    BY <1>2, <1>3
  <2>2. ASSUME NEW k \in Cells, k < CRT_COLS * s.y PROVE k + CRT_COLS \in Cells
    BY <2>2, RowFacts, WordFacts DEF Cells
  <2> DEFINE b == [k \in Cells |-> IF k < CRT_COLS * (t.y - 1) THEN t.buf[k + CRT_COLS]
                                   ELSE IF k < CRT_COLS * t.y THEN Blank ELSE t.buf[k]]
  <2>3. ASSUME NEW k \in Cells PROVE b[k] \in Seen
    <3>1. k < CRT_COLS * (t.y - 1) => t.buf[k + CRT_COLS] \in Seen
      BY <1>2, <1>3, <2>1, <2>2
    <3>2. t.buf[k] \in Seen /\ Blank \in Seen
      BY <1>2, <1>3 DEF Seen
    <3> QED BY <3>1, <3>2
  <2>4. b \in [Cells -> Seen]
    BY <2>3
  <2>5. u = [t EXCEPT !.y = t.y - 1, !.buf = b]
    OBVIOUS
  <2> HIDE DEF b, u
  <2> QED BY <1>3, <2>1, <2>4, <2>5 DEF Screens
<1> HIDE DEF u
<1>6. CrtPos(t) < CRT_ROWS * CRT_COLS => s.y + 1 < CRT_ROWS
  <2> SUFFICES ASSUME s.y + 1 = CRT_ROWS, CrtPos(t) < CRT_ROWS * CRT_COLS PROVE FALSE
    BY WordFacts
  <2>1. CRT_COLS * (s.y + 1) = CRT_COLS * CRT_ROWS
    OBVIOUS
  <2> QED BY <1>2, <1>4, <2>1, RowFacts
<1>7. s.x < CRT_COLS /\ s.y + 1 < CRT_ROWS => CrtPos(t) < CRT_ROWS * CRT_COLS
  BY <1>2, <1>4, RowFacts, WordFacts
<1>8. CrtPos(t) \in Nat /\ CRT_ROWS * CRT_COLS \in Nat
  BY <1>2, <1>4, RowFacts, WordFacts
<1>9. CASE CrtPos(t) >= CRT_ROWS * CRT_COLS
  <2>1. NextLine(s) = u
    BY <1>1, <1>9
  <2>2. ~(CrtPos(t) < CRT_ROWS * CRT_COLS)
    BY <1>8, <1>9
  <2>3. ~(s.x < CRT_COLS /\ s.y + 1 < CRT_ROWS)
    BY <1>7, <2>2
  <2> QED BY <1>5, <2>1, <2>3
<1>10. CASE ~(CrtPos(t) >= CRT_ROWS * CRT_COLS)
  <2>1. NextLine(s) = t
    BY <1>1, <1>10
  <2>2. CrtPos(t) < CRT_ROWS * CRT_COLS
    BY <1>8, <1>10
  <2>3. t.y \in 0..(CRT_ROWS - 1)
    BY <1>2, <1>3, <1>6, <2>2, WordFacts
  <2> QED BY <1>3, <2>1, <2>3
<1> QED BY <1>9, <1>10

(* A line that is full goes on in the next one, and the text with it, if it does
   not end behind the screen.                                               *)
LEMMA WrappedFacts ==
  ASSUME NEW s \in Screens, OnScreen(s), NEW text \in Seq(Seen), TextShown(s, text)
  PROVE  /\ Wrapped(s) \in Screens /\ Wrapped(s).x \in 0..CRT_COLS /\ Wrapped(s).y \in 0..(CRT_ROWS - 1)
         /\ Wrapped(s).halt = s.halt
         /\ ~Fell(s) /\ text # <<>> =>
               CrtPos(Wrapped(s)) = CrtPos(s) /\ Wrapped(s).buf = s.buf
<1> DEFINE t == [s EXCEPT !.x = @ % CRT_COLS]
<1>1. s.x \in Nat /\ s.y \in Nat /\ s.y \in 0..(CRT_ROWS - 1)
  BY DEF Screens, OnScreen
<1>2. CASE s.x <= CRT_COLS
  <2>1. Wrapped(s) = s
    BY <1>1, <1>2, WordFacts DEF Wrapped
  <2> QED BY <1>1, <1>2, <2>1, WordFacts
<1>3. CASE s.x > CRT_COLS
  <2>1. Wrapped(s) = NextLine(t)
    BY <1>3 DEF Wrapped
  <2>2. s.x % CRT_COLS \in 0..(CRT_COLS - 1)
    <3>1. CRT_COLS \in Nat /\ CRT_COLS > 0 /\ s.x \in Int
      BY <1>1, WordFacts
    <3> QED BY <3>1, Quotient
  <2>3. t \in Screens /\ t.x = s.x % CRT_COLS /\ t.y = s.y /\ t.buf = s.buf /\ t.halt = s.halt
    <3>1. s.x % CRT_COLS \in Nat
      BY <2>2, WordFacts
    <3> QED BY <3>1 DEF Screens
  <2> HIDE DEF t
  <2>4. /\ NextLine(t) \in Screens /\ NextLine(t).x = t.x /\ NextLine(t).y \in 0..(CRT_ROWS - 1)
        /\ NextLine(t).halt = t.halt
        /\ t.x < CRT_COLS /\ t.y + 1 < CRT_ROWS => NextLine(t).y = t.y + 1 /\ NextLine(t).buf = t.buf
    <3>1. t.y \in 0..(CRT_ROWS - 1) /\ t.x \in 0..(CRT_COLS + TAB_SPACES)
      BY <1>1, <2>2, <2>3, WordFacts
    <3> QED BY <2>3, <3>1, NextLineFacts
  <2>5. ASSUME ~Fell(s), text # <<>>
        PROVE  CrtPos(NextLine(t)) = CrtPos(s) /\ NextLine(t).buf = s.buf
    <3>1. s.x = CRT_COLS + 1 /\ s.y + 1 < CRT_ROWS
      <4>1. s.x \in 1..(CRT_COLS + 1)
        BY <2>5 DEF TextShown
      <4>2. s.y # CRT_ROWS - 1
        BY <1>3, <2>5 DEF Fell
      <4> QED BY <1>1, <1>3, <4>1, <4>2, WordFacts
    <3>2. s.x % CRT_COLS = 1
      <4>1. s.x \in CRT_COLS..(2 * CRT_COLS - 1) /\ s.x - CRT_COLS = 1
        BY <3>1, WordFacts
      <4> QED BY <4>1, WordFacts, ModNear
    <3>3. NextLine(t).x = 1 /\ NextLine(t).y = s.y + 1 /\ NextLine(t).buf = s.buf
      <4>1. t.x < CRT_COLS /\ t.y + 1 < CRT_ROWS
        BY <2>3, <3>1, <3>2, WordFacts
      <4> QED BY <2>3, <2>4, <3>2, <4>1
    <3> DEFINE u == NextLine(t)
    <3>4. u.x = 1 /\ u.y = s.y + 1
      BY <3>3
    <3> HIDE DEF u
    <3>5. CrtPos(u) = CRT_COLS * (s.y + 1) + 1 /\ CrtPos(s) = CRT_COLS * s.y + (CRT_COLS + 1)
      BY <3>1, <3>4 DEF CrtPos
    <3>6. CRT_COLS * (s.y + 1) = CRT_COLS * s.y + CRT_COLS /\ CRT_COLS * s.y \in Nat
      BY <1>1, RowFacts
    <3>7. CrtPos(u) = CrtPos(s)
      BY <3>5, <3>6, WordFacts
    <3> QED BY <3>3, <3>7 DEF u
  <2> QED BY <2>1, <2>2, <2>3, <2>4, <2>5, WordFacts
<1> QED BY <1>1, <1>2, <1>3, WordFacts

(* Nothing that was printed in a row is shown anywhere.                     *)
LEMMA NoText ==
  ASSUME NEW s \in Screens, OnScreen(s)
  PROVE  CrtPos(s) \in Nat /\ <<>> \in Seq(Seen) /\ TextShown(s, <<>>)
<1>1. s.x \in Nat /\ s.y \in 0..(CRT_ROWS - 1)
  BY DEF Screens, OnScreen
<1>2. CrtPos(s) \in Nat
  BY <1>1, RowFacts DEF CrtPos
<1>3. <<>> \in Seq(Seen) /\ Len(<<>>) = 0
  OBVIOUS
<1> QED BY <1>2, <1>3, CrtSizes DEF TextShown

(* Where a character is printed there is a cell.                            *)
LEMMA CellThere ==
  ASSUME NEW u \in Screens, u.x \in 0..CRT_COLS, u.y \in 0..(CRT_ROWS - 1)
  PROVE  CrtPos(u) \in Cells /\ CrtPos(u) \in Nat
<1>1. CRT_COLS * u.y \in Nat /\ CRT_COLS * u.y + CRT_COLS <= CRT_ROWS * CRT_COLS /\ CRT_ROWS * CRT_COLS \in Nat
  BY RowFacts, CrtSizes
<1>2. CrtPos(u) = CRT_COLS * u.y + u.x
  BY DEF CrtPos
<1> QED BY <1>1, <1>2, CrtSizes DEF Cells

LEMMA OneMore ==
  /\ \A x \in 0..CRT_COLS : x + 1 \in 1..(CRT_COLS + 1) /\ x + 1 \in 0..(CRT_COLS + TAB_SPACES)
  /\ \A l, m, q \in Nat : l <= m /\ m <= q => l + 1 <= q + 1
BY CrtSizes

(* The text goes on with one more character.                                *)
LEMMA TextGrows ==
  ASSUME NEW u \in Screens, u.x \in 0..CRT_COLS, u.y \in 0..(CRT_ROWS - 1), NEW v \in Seen,
         NEW text \in Seq(Seen), Len(text) <= CRT_COLS, Len(text) <= CrtPos(u),
         \A k \in 1..Len(text) : u.buf[CrtPos(u) - k] = text[Len(text) + 1 - k],
         NEW done, done = [u EXCEPT !.buf[CrtPos(u)] = v, !.x = @ + 1,
                                    !.outside = @ \cup Outside("print", {CrtPos(u)})],
         NEW more, more = Append(IF Len(text) = CRT_COLS THEN Tail(text) ELSE text, v)
  PROVE  done \in Screens /\ OnScreen(done) /\ more \in Seq(Seen) /\ TextShown(done, more)
<1> DEFINE q == CrtPos(u)
           kept == IF Len(text) = CRT_COLS THEN Tail(text) ELSE text
<1>1. q \in Cells /\ q \in Nat
  BY CellThere
<1>2. done \in Screens /\ done.x = u.x + 1 /\ done.y = u.y /\ done.buf = [u.buf EXCEPT ![q] = v]
  <2> DEFINE b == [u.buf EXCEPT ![q] = v]
             x == u.x + 1
  <2>1. done = [u EXCEPT !.buf = b, !.x = x, !.outside = u.outside]
    <3>1. Outside("print", {q}) = {}
      BY <1>1 DEF Outside
    <3>2. u.outside \cup Outside("print", {q}) = u.outside
      BY <3>1
    <3>3. done = [u EXCEPT !.buf = b, !.x = x, !.outside = u.outside \cup Outside("print", {q})]
      OBVIOUS
    <3> HIDE DEF b, x
    <3> QED BY <3>2, <3>3
  <2>2. b \in [Cells -> Seen] /\ x \in Nat
    <3>1. u.buf \in [Cells -> Seen]
      BY DEF Screens
    <3>2. x \in Nat
      BY DEF Screens
    <3> QED BY <3>1, <3>2
  <2> HIDE DEF b, x
  <2>3. done \in Screens /\ done.x = x /\ done.y = u.y /\ done.buf = b
    <3>1. u.outside \in SUBSET {"erase"}
      BY DEF Screens
    <3> QED BY <2>1, <2>2, <3>1 DEF Screens
  <2> QED BY <2>3 DEF b, x
<1>3. OnScreen(done)
  <2>1. done.x \in 0..(CRT_COLS + TAB_SPACES) /\ done.y \in 0..(CRT_ROWS - 1)
    BY <1>2, OneMore, Zenon
  <2> QED BY <2>1, Zenon DEF OnScreen
<1>4. CrtPos(done) = q + 1
  <2>1. u.x \in Nat /\ CRT_COLS * u.y \in Nat
    <3>1. u.x \in Nat
      BY DEF Screens
    <3> QED BY <3>1, RowFacts
  <2>2. CrtPos(done) = CRT_COLS * u.y + (u.x + 1) /\ q = CRT_COLS * u.y + u.x
    BY <1>2 DEF CrtPos
  <2> HIDE DEF q
  <2> QED BY <2>1, <2>2
<1> HIDE DEF q
<1>5. /\ kept \in Seq(Seen) /\ Len(kept) \in Nat /\ Len(kept) <= Len(text) /\ Len(kept) + 1 <= CRT_COLS
      /\ \A j \in 1..Len(kept) : kept[Len(kept) + 1 - j] = text[Len(text) + 1 - j]
  <2>1. CASE Len(text) = CRT_COLS
    <3>1. kept = Tail(text) /\ text # <<>>
      BY <2>1, CrtSizes
    <3>2. /\ kept \in Seq(Seen) /\ Len(kept) = Len(text) - 1
          /\ \A i \in 1..Len(kept) : kept[i] = text[i + 1]
      BY <3>1, HeadTailProperties
    <3>3. ASSUME NEW j \in 1..Len(kept) PROVE kept[Len(kept) + 1 - j] = text[Len(text) + 1 - j]
      <4>1. /\ Len(kept) + 1 - j \in 1..Len(kept)
            /\ (Len(kept) + 1 - j) + 1 = Len(text) + 1 - j
        BY <3>2
      <4> QED BY <3>2, <4>1
    <3> HIDE DEF kept
    <3> QED BY <2>1, <3>2, <3>3, CrtSizes
  <2>2. CASE Len(text) # CRT_COLS
    BY <2>2, CrtSizes
  <2> QED BY <2>1, <2>2
<1> HIDE DEF kept
<1>6. /\ more \in Seq(Seen) /\ Len(more) = Len(kept) + 1 /\ more[Len(kept) + 1] = v
      /\ \A i \in 1..Len(kept) : more[i] = kept[i]
  <2>1. more = Append(kept, v)
    BY DEF kept
  <2> QED BY <1>5, <2>1
<1>9. Len(text) \in Nat
  OBVIOUS
<1>7. ASSUME NEW k \in 1..Len(more)
      PROVE  done.buf[CrtPos(done) - k] = more[Len(more) + 1 - k]
  <2>1. CASE k = 1
    <3>1. CrtPos(done) - k = q /\ Len(more) + 1 - k = Len(kept) + 1
      BY <1>1, <1>4, <1>5, <1>6, <2>1
    <3>2. done.buf[q] = v
      BY <1>1, <1>2 DEF Screens
    <3> QED BY <1>6, <3>1, <3>2
  <2>2. CASE k # 1
    <3>1. PICK j \in 1..Len(kept) : j = k - 1
      BY <1>5, <1>6, <2>2
    <3>2. /\ CrtPos(done) - k = q - j /\ q - j # q
          /\ Len(more) + 1 - k = Len(kept) + 1 - j /\ Len(kept) + 1 - j \in 1..Len(kept)
          /\ j \in 1..Len(text) /\ k \in Nat
      <4>1. PICK l \in Nat, m \in Nat : l = Len(kept) /\ m = Len(text) /\ l <= m
        BY <1>9, <1>5
      <4>2. j \in Nat /\ k = j + 1 /\ 1 <= j /\ j <= l
        BY <3>1, <4>1
      <4>3. Len(more) = l + 1
        BY <1>6, <4>1
      <4> HIDE DEF q
      <4> QED BY <1>1, <1>4, <4>1, <4>2, <4>3
    <3>3. done.buf[q - j] = u.buf[q - j]
      BY <1>1, <1>2, <3>2 DEF Screens
    <3>4. u.buf[q - j] = text[Len(text) + 1 - j]
      BY <3>2 DEF q
    <3>5. more[Len(kept) + 1 - j] = text[Len(text) + 1 - j]
      BY <1>5, <1>6, <3>1, <3>2
    <3> QED BY <3>2, <3>3, <3>4, <3>5
  <2> QED BY <2>1, <2>2
<1>8. Len(more) <= CRT_COLS /\ Len(more) <= CrtPos(done) /\ done.x \in 1..(CRT_COLS + 1)
  <2>1. Len(text) \in Nat /\ Len(text) <= q
    BY DEF q
  <2>2. PICK l \in Nat, m \in Nat : l = Len(kept) /\ m = Len(text) /\ l <= m /\ l + 1 <= CRT_COLS
    BY <1>5, <2>1
  <2>3. Len(more) <= CRT_COLS /\ Len(more) <= CrtPos(done)
    <3>1. Len(more) = l + 1
      BY <1>6, <2>2
    <3>2. l + 1 <= q + 1
      BY <1>1, <2>1, <2>2, OneMore, Zenon
    <3> QED BY <1>4, <2>2, <3>1, <3>2, Zenon
  <2>4. done.x = u.x + 1
    BY <1>2
  <2>5. done.x \in 1..(CRT_COLS + 1)
    BY <2>4, OneMore, Zenon
  <2> QED BY <2>3, <2>5
<1> QED BY <1>2, <1>3, <1>6, <1>7, <1>8 DEF TextShown

(* A character that is no command is shown.                                 *)
LEMMA PrintedText ==
  ASSUME NEW s \in Screens, OnScreen(s), NEW text \in Seq(Seen), TextShown(s, text),
         NEW c, c \notin {"LF", "CR", "BS", "TAB"}, NEW done, done = Printed(Wrapped(s), c),
         NEW more, more = LET was == IF Fell(s) THEN <<>> ELSE text
                          IN Append(IF Len(was) = CRT_COLS THEN Tail(was) ELSE was, Shown(c))
  PROVE  done \in Screens /\ OnScreen(done) /\ more \in Seq(Seen) /\ TextShown(done, more)
<1> DEFINE u == Wrapped(s)
           was == IF Fell(s) THEN <<>> ELSE text
<1>1. /\ u \in Screens /\ u.x \in 0..CRT_COLS /\ u.y \in 0..(CRT_ROWS - 1)
      /\ ~Fell(s) /\ text # <<>> => CrtPos(u) = CrtPos(s) /\ u.buf = s.buf
  BY WrappedFacts
<1>2. done = [u EXCEPT !.buf[CrtPos(u)] = Shown(c), !.x = @ + 1,
                       !.outside = @ \cup Outside("print", {CrtPos(u)})]
  BY DEF Printed
<1>3. Shown(c) \in Seen
  BY DEF Shown, Seen
<1>4. more = Append(IF Len(was) = CRT_COLS THEN Tail(was) ELSE was, Shown(c))
  OBVIOUS
<1> HIDE DEF u
<1>5. /\ was \in Seq(Seen) /\ Len(was) <= CRT_COLS /\ Len(was) <= CrtPos(u)
      /\ \A k \in 1..Len(was) : u.buf[CrtPos(u) - k] = was[Len(was) + 1 - k]
  <2>1. CrtPos(u) \in Nat
    BY <1>1, CellThere
  <2>2. CASE Fell(s) \/ text = <<>>
    <3>1. was = <<>> /\ Len(<<>>) = 0
      BY <2>2
    <3> QED BY <2>1, <3>1, CrtSizes
  <2>3. CASE ~Fell(s) /\ text # <<>>
    <3>1. was = text
      BY <2>3
    <3> QED BY <1>1, <2>3, <3>1 DEF TextShown
  <2> QED BY <2>2, <2>3
<1> HIDE DEF was
<1> QED BY <1>1, <1>2, <1>3, <1>4, <1>5, TextGrows

(* Line feed, carriage return, backspace and tab.                           *)
LEMMA PrintedControl ==
  ASSUME NEW s \in Screens, OnScreen(s), NEW c \in {"LF", "CR", "BS", "TAB"}
  PROVE  Printed(Wrapped(s), c) \in Screens /\ OnScreen(Printed(Wrapped(s), c))
<1>1. PICK u \in Screens : u = Wrapped(s) /\ u.x \in 0..CRT_COLS /\ u.y \in 0..(CRT_ROWS - 1)
  BY NoText, WrappedFacts
<1>2. CASE c = "LF"
  <2>1. Printed(u, c) = NextLine(u)
    BY <1>2 DEF Printed
  <2>2. u.x \in 0..(CRT_COLS + TAB_SPACES)
    BY <1>1, CrtSizes
  <2> QED BY <1>1, <2>1, <2>2, NextLineFacts DEF OnScreen
<1>3. CASE c = "CR"
  <2>1. Printed(u, c) = [u EXCEPT !.x = 0]
    BY <1>3 DEF Printed
  <2> QED BY <1>1, <2>1, CrtSizes DEF OnScreen, Screens
<1>4. CASE c = "BS"
  <2>1. Printed(u, c) = IF u.x = 0 /\ u.y > 0 THEN [u EXCEPT !.x = CRT_COLS - 1, !.y = u.y - 1]
                        ELSE [u EXCEPT !.x = (u.x - 1) % CrtWord]
    BY <1>4 DEF Printed
  <2>2. CASE u.x = 0 /\ u.y > 0
    <3>1. PICK x \in Nat, y \in Nat : /\ x = CRT_COLS - 1 /\ y = u.y - 1 /\ y \in 0..(CRT_ROWS - 1)
                                     /\ x \in 0..(CRT_COLS + TAB_SPACES)
      BY <1>1, <2>2, CrtSizes
    <3>2. Printed(u, c) = [u EXCEPT !.x = x, !.y = y]
      BY <2>1, <2>2, <3>1
    <3> QED BY <1>1, <3>1, <3>2 DEF OnScreen, Screens
  <2>3. CASE u.x = 0 /\ u.y = 0
    <3>1. (0 - 1) % CrtWord = CrtWord - 1
      <4>1. 0 - 1 \in (0 - CrtWord)..(0 - 1)
        BY WordFacts
      <4> QED BY <4>1, WordFacts, ModNear
    <3> QED BY <1>1, <2>1, <2>3, <3>1, WordFacts DEF OnScreen, Screens
  <2>4. CASE u.x # 0
    <3>1. u.x - 1 \in 0..(CrtWord - 1) /\ u.x - 1 \in 0..(CRT_COLS + TAB_SPACES)
      BY <1>1, <2>4, WordFacts
    <3>2. (u.x - 1) % CrtWord = u.x - 1
      BY <3>1, WordFacts, ModNear
    <3> QED BY <1>1, <2>1, <2>4, <3>1, <3>2, WordFacts DEF OnScreen, Screens
  <2> QED BY <1>1, <2>2, <2>3, <2>4
<1>5. CASE c = "TAB"
  <2> DEFINE t == ((u.x + TAB_SPACES) \div TAB_SPACES) * TAB_SPACES
  <2>1. Printed(u, c) = [u EXCEPT !.x = t]
    BY <1>5 DEF Printed
  <2>2. t \in 0..(u.x + TAB_SPACES)
    <3>1. u.x + TAB_SPACES \in Nat /\ TAB_SPACES \in Nat \ {0}
      BY <1>1, CrtSizes
    <3>2. \A a \in Nat, b \in Nat \ {0} : (a \div b) * b \in 0..a
      BY Z3
    <3> QED BY <3>1, <3>2
  <2> HIDE DEF t
  <2>3. t \in 0..(CRT_COLS + TAB_SPACES) /\ t \in Nat
    BY <1>1, <2>2, CrtSizes
  <2> QED BY <1>1, <2>1, <2>3 DEF OnScreen, Screens
<1> QED BY <1>1, <1>2, <1>3, <1>4, <1>5

(* A cursor is set on the screen, or the kernel stops.                      *)
LEMMA CursorSet ==
  ASSUME NEW s \in Screens, OnScreen(s), NEW x \in Int, NEW y \in Int
  PROVE  SetCursor(s, x, y) \in Screens /\ OnScreen(SetCursor(s, x, y))
<1>1. CrtWord \in Nat /\ CrtWord > 0
  BY WordFacts
<1>2. PICK i \in Nat, j \in Nat : i = x % CrtWord /\ j = y % CrtWord
  BY <1>1, Quotient
<1>3. SetCursor(s, x, y) = IF j < CRT_ROWS /\ i < CRT_COLS THEN [s EXCEPT !.x = i, !.y = j]
                           ELSE [s EXCEPT !.halt = TRUE]
  BY <1>2 DEF SetCursor
<1>4. CASE j < CRT_ROWS /\ i < CRT_COLS
  <2>1. j \in 0..(CRT_ROWS - 1) /\ i \in 0..(CRT_COLS + TAB_SPACES)
    BY <1>4, CrtSizes
  <2> QED BY <1>3, <1>4, <2>1 DEF OnScreen, Screens
<1>5. CASE ~(j < CRT_ROWS /\ i < CRT_COLS)
  BY <1>3, <1>5 DEF OnScreen, Screens
<1> QED BY <1>4, <1>5

(* Erasing moves nothing.                                                   *)
LEMMA ErasedFacts ==
  ASSUME NEW s \in Screens, NEW cells
  PROVE  /\ Erased(s, cells) \in Screens /\ Erased(s, cells).x = s.x /\ Erased(s, cells).y = s.y
<1>1. s.buf \in [Cells -> Seen] /\ Blank \in Seen
  BY DEF Screens, Seen
<1> DEFINE b == [k \in Cells |-> IF k \in cells THEN Blank ELSE s.buf[k]]
<1>2. b \in [Cells -> Seen]
  BY <1>1
<1> DEFINE o == s.outside \cup Outside("erase", cells)
<1>3. o \in SUBSET {"erase"}
  BY DEF Outside, Screens
<1>4. Erased(s, cells) = [s EXCEPT !.buf = b, !.outside = o]
  BY DEF Erased
<1> HIDE DEF b, o
<1> QED BY <1>2, <1>3, <1>4 DEF Screens

(* A command leaves the cursor on the screen.                               *)
LEMMA CommandDone ==
  ASSUME NEW s \in Screens, OnScreen(s), NEW a, a.n1 \in Nat, a.n2 \in Nat, NEW c
  PROVE  HandleAnsi(s, a, c) \in Screens /\ OnScreen(HandleAnsi(s, a, c))
<1> DEFINE n == MinOne(a, a.n1)
           m == MinOne(a, a.n2)
<1>1. n \in Nat /\ m \in Nat
  BY DEF MinOne
<1>2. s.x \in Int /\ s.y \in Int
  BY DEF Screens
<1> HIDE DEF n, m
<1>3. /\ s.y - n \in Int /\ s.y + n \in Int /\ s.x + n \in Int /\ s.x - n \in Int
      /\ m - 1 \in Int /\ n - 1 \in Int
  BY <1>1, <1>2
<1>4. ASSUME NEW cells PROVE Erased(s, cells) \in Screens /\ OnScreen(Erased(s, cells))
  BY ErasedFacts DEF OnScreen
<1>5. CASE c = "c"
  <2>1. PICK t \in Screens : t = Erased(s, 0..(CRT_ROWS * CRT_COLS - 1))
    BY ErasedFacts
  <2>2. HandleAnsi(s, a, c) = [t EXCEPT !.x = 0, !.y = 0]
    BY <1>5, <2>1 DEF HandleAnsi
  <2>3. 0 \in 0..(CRT_ROWS - 1) /\ 0 \in 0..(CRT_COLS + TAB_SPACES)
    BY CrtSizes
  <2> DEFINE u == [t EXCEPT !.x = 0, !.y = 0]
  <2>4. u \in Screens
    BY DEF Screens
  <2>5. u.x = 0 /\ u.y = 0
    BY DEF Screens
  <2> HIDE DEF u
  <2>6. OnScreen(u)
    BY <2>3, <2>5 DEF OnScreen
  <2> QED BY <2>2, <2>4, <2>6 DEF u
<1>6. CASE c = "A"
  <2>1. HandleAnsi(s, a, c) = SetCursor(s, s.x, s.y - n)
    BY <1>6 DEF HandleAnsi, n
  <2> QED BY <1>2, <1>3, <2>1, CursorSet
<1>7. CASE c = "B"
  <2>1. HandleAnsi(s, a, c) = SetCursor(s, s.x, s.y + n)
    BY <1>7 DEF HandleAnsi, n
  <2> QED BY <1>2, <1>3, <2>1, CursorSet
<1>8. CASE c = "C"
  <2>1. HandleAnsi(s, a, c) = SetCursor(s, s.x + n, s.y)
    BY <1>8 DEF HandleAnsi, n
  <2> QED BY <1>2, <1>3, <2>1, CursorSet
<1>9. CASE c = "D"
  <2>1. HandleAnsi(s, a, c) = SetCursor(s, s.x - n, s.y)
    BY <1>9 DEF HandleAnsi, n
  <2> QED BY <1>2, <1>3, <2>1, CursorSet
<1>10. CASE c = "K"
  <2>1. PICK cells : HandleAnsi(s, a, c) = Erased(s, cells)
    BY <1>10 DEF HandleAnsi
  <2> QED BY <1>4, <2>1
<1>11. CASE c = "H"
  <2>1. HandleAnsi(s, a, c) = SetCursor(s, m - 1, n - 1)
    BY <1>11 DEF HandleAnsi, n, m
  <2> QED BY <1>3, <2>1, CursorSet
<1>12. CASE c \notin {"c", "A", "B", "C", "D", "K", "H"}
  <2>1. HandleAnsi(s, a, c) = s
    BY <1>12 DEF HandleAnsi
  <2> QED BY <2>1
<1> QED BY <1>5, <1>6, <1>7, <1>8, <1>9, <1>10, <1>11, <1>12

-----------------------------------------------------------------------------
(* The numbers that digits stand for.  A function holds those of every prefix. *)
LEMMA DigitFacts == \A d \in Digits : Digit[d] \in Nat
BY DEF Digit, Digits

NumbersTo(f, cs, n) ==
    /\ f \in [0..n -> Nat] /\ f[0] = 0
    /\ \A i \in 1..n : f[i] = f[i - 1] * 10 + Digit[cs[i]]

LEMMA NumbersExist ==
  ASSUME NEW cs \in Seq(Digits)
  PROVE  \E f : NumbersTo(f, cs, Len(cs))
<1> DEFINE n == Len(cs)
           S == {k \in Nat : k <= n => \E f : NumbersTo(f, cs, k)}
<1>1. n \in Nat
  OBVIOUS
<1>2. 0 \in S
  <2> DEFINE f == [i \in 0..0 |-> 0]
  <2>1. NumbersTo(f, cs, 0)
    BY DEF NumbersTo
  <2> QED BY <2>1
<1>3. ASSUME NEW k \in Nat, k \in S PROVE k + 1 \in S
  <2> SUFFICES ASSUME k + 1 <= n PROVE \E f : NumbersTo(f, cs, k + 1)
    OBVIOUS
  <2>1. PICK g : NumbersTo(g, cs, k)
    BY <1>1, <1>3
  <2>2. PICK v \in Nat : v = g[k] * 10 + Digit[cs[k + 1]]
    <3>1. cs[k + 1] \in Digits
      BY <1>1
    <3>2. PICK a \in Nat, b \in Nat : a = g[k] /\ b = Digit[cs[k + 1]]
      BY <2>1, <3>1, DigitFacts DEF NumbersTo
    <3>3. a * 10 + b \in Nat
      OBVIOUS
    <3> QED BY <3>2, <3>3
  <2> DEFINE f == [i \in 0..(k + 1) |-> IF i = k + 1 THEN v ELSE g[i]]
  <2>3. f \in [0..(k + 1) -> Nat] /\ f[0] = 0
    BY <2>1, <2>2 DEF NumbersTo
  <2>4. ASSUME NEW i \in 1..(k + 1) PROVE f[i] = f[i - 1] * 10 + Digit[cs[i]]
    <3>1. i - 1 \in 0..k /\ i - 1 \in 0..(k + 1) /\ i \in 0..(k + 1)
      OBVIOUS
    <3>2. f[i - 1] = g[i - 1]
      BY <3>1
    <3>3. CASE i = k + 1
      BY <2>2, <3>1, <3>2, <3>3
    <3>4. CASE i # k + 1
      <4>1. f[i] = g[i] /\ i \in 1..k
        BY <3>1, <3>4
      <4> QED BY <2>1, <3>2, <4>1 DEF NumbersTo
    <3> QED BY <3>3, <3>4
  <2>5. NumbersTo(f, cs, k + 1)
    BY <2>3, <2>4 DEF NumbersTo
  <2> QED BY <2>5
<1> HIDE DEF S
<1>4. n \in S
  BY <1>1, <1>2, <1>3, SetInduction
<1> QED BY <1>1, <1>4 DEF S

LEMMA NumberIs ==
  ASSUME NEW cs \in Seq(Digits), NEW f, NumbersTo(f, cs, Len(cs))
  PROVE  NumberOf(cs) = f[Len(cs)]
<1> DEFINE n == Len(cs)
           F(h) == [k \in 0..n |-> IF k = 0 THEN 0 ELSE h[k - 1] * 10 + Digit[cs[k]]]
           g == CHOOSE h : h = F(h)
<1>1. n \in Nat
  OBVIOUS
<1>2. NumberOf(cs) = g[n]
  BY DEF NumberOf
<1>3. f = F(f)
  <2>1. ASSUME NEW i \in 0..n PROVE f[i] = IF i = 0 THEN 0 ELSE f[i - 1] * 10 + Digit[cs[i]]
    <3>1. i = 0 \/ i \in 1..n
      OBVIOUS
    <3> QED BY <3>1 DEF NumbersTo
  <2> QED BY <2>1 DEF NumbersTo
<1>4. g = F(g)
  BY <1>3
<1> HIDE DEF g
<1> DEFINE S == {k \in Nat : k \in 0..n => g[k] = f[k]}
<1>5. 0 \in S
  <2>1. g[0] = 0 /\ f[0] = 0
    BY <1>1, <1>3, <1>4
  <2> QED BY <2>1
<1>6. ASSUME NEW k \in Nat, k \in S PROVE k + 1 \in S
  <2> SUFFICES ASSUME k + 1 \in 0..n PROVE g[k + 1] = f[k + 1]
    OBVIOUS
  <2>1. k \in 0..n /\ (k + 1) - 1 = k /\ k + 1 # 0
    BY <1>1
  <2>2. g[k] = f[k]
    BY <1>6, <2>1
  <2>3. g[k + 1] = g[(k + 1) - 1] * 10 + Digit[cs[k + 1]]
    BY <1>4, <2>1
  <2>4. f[k + 1] = f[(k + 1) - 1] * 10 + Digit[cs[k + 1]]
    BY <1>3, <2>1
  <2> QED BY <2>1, <2>2, <2>3, <2>4
<1> HIDE DEF S
<1>7. n \in S
  BY <1>1, <1>5, <1>6, SetInduction
<1> QED BY <1>1, <1>2, <1>7 DEF S

(* One more digit.                                                          *)
LEMMA NumberGrows ==
  ASSUME NEW cs \in Seq(Digits), NEW c \in Digits
  PROVE  NumberOf(cs) \in Nat /\ NumberOf(Append(cs, c)) = NumberOf(cs) * 10 + Digit[c]
<1>1. PICK n \in Nat, v \in Seq(Digits) :
         /\ n = Len(cs) /\ v = Append(cs, c) /\ Len(v) = n + 1 /\ v[n + 1] = c
         /\ \A i \in 1..n : v[i] = cs[i]
  <2> DEFINE v == Append(cs, c)
  <2>1. /\ v \in Seq(Digits) /\ Len(v) = Len(cs) + 1 /\ v[Len(cs) + 1] = c
        /\ \A i \in 1..Len(cs) : v[i] = cs[i]
    OBVIOUS
  <2>2. Len(cs) \in Nat
    OBVIOUS
  <2> HIDE DEF v
  <2> QED BY <2>1, <2>2, Zenon DEF v
<1>2. PICK f : NumbersTo(f, v, n + 1)
  BY <1>1, NumbersExist
<1> DEFINE g == [i \in 0..n |-> f[i]]
<1>3. g \in [0..n -> Nat] /\ g[0] = 0 /\ g[n] = f[n]
  BY <1>2 DEF NumbersTo
<1>4. ASSUME NEW i \in 1..n PROVE g[i] = g[i - 1] * 10 + Digit[cs[i]]
  <2>1. i \in 1..(n + 1) /\ i - 1 \in 0..n /\ i \in 0..n
    OBVIOUS
  <2>2. f[i] = f[i - 1] * 10 + Digit[v[i]]
    BY <1>2, <2>1 DEF NumbersTo
  <2> QED BY <1>1, <2>1, <2>2
<1> HIDE DEF g
<1>5. NumbersTo(g, cs, Len(cs))
  BY <1>1, <1>3, <1>4 DEF NumbersTo
<1>6. NumberOf(cs) = g[n] /\ NumberOf(v) = f[n + 1]
  BY <1>1, <1>2, <1>5, NumberIs
<1>7. f[n + 1] = f[n] * 10 + Digit[c]
  <2>1. n + 1 \in 1..(n + 1) /\ (n + 1) - 1 = n
    OBVIOUS
  <2> QED BY <1>1, <1>2, <2>1 DEF NumbersTo
<1>8. g[n] \in Nat
  BY <1>3
<1> QED BY <1>1, <1>3, <1>6, <1>7, <1>8

LEMMA NumberNone == NumberOf(<<>>) = 0
<1>1. PICK f : NumbersTo(f, <<>>, 0)
  <2>1. <<>> \in Seq(Digits) /\ Len(<<>>) = 0
    OBVIOUS
  <2> QED BY <2>1, NumbersExist
<1>2. <<>> \in Seq(Digits) /\ Len(<<>>) = 0
  OBVIOUS
<1>3. NumberOf(<<>>) = f[0]
  BY <1>1, <1>2, NumberIs
<1> QED BY <1>1, <1>3 DEF NumbersTo

-----------------------------------------------------------------------------
(* The machine, and what was written of a sequence.                         *)

Ansis == [stat : {"NONE", "ESC", "BRA", "NUM1", "NUM2", "FIN"}, n1 : Nat, n2 : Nat, cnt : 0..ANSI_MAX_CHARS]

(* No semicolon yet ...                                                     *)
InFirst(a, cs) == cs \in Seq(Digits) /\ a.n1 = NumberOf(cs) /\ a.n2 = 0

(* ... and one, between the digits of two numbers.                          *)
Parted(cs, one, two) ==
    /\ Len(cs) = Len(one) + 1 + Len(two) /\ cs[Len(one) + 1] = "SEMI"
    /\ \A i \in 1..Len(one) : cs[i] = one[i]
    /\ \A i \in 1..Len(two) : cs[Len(one) + 1 + i] = two[i]

InSecond(a, cs) ==
    /\ cs \in Seq(Digits \cup {"SEMI"})
    /\ \E one, two \in Seq(Digits) :
          Parted(cs, one, two) /\ a.n1 = NumberOf(one) /\ a.n2 = NumberOf(two)

Following(a, cs) ==
    /\ a \in Ansis
    /\ a.stat \in {"NONE", "ESC", "BRA"} => cs = <<>>
    /\ a.stat \in {"ESC", "BRA"} => a.n1 = 0 /\ a.n2 = 0
    /\ a.stat = "NUM1" => InFirst(a, cs)
    /\ a.stat = "NUM2" => InSecond(a, cs)
    /\ a.stat = "FIN" => InFirst(a, cs) \/ InSecond(a, cs)

AnsiInv ==
    /\ Following(astat, ansiSeq)
    /\ ~ansiStale /\ astat.stat = "NONE" => astat.n1 = 0 /\ astat.n2 = 0

(* A digit of the first number, a semicolon, a digit of the second.         *)
LEMMA FirstGrows ==
  ASSUME NEW a, NEW b, NEW cs, InFirst(a, cs), NEW c \in Digits,
         b.n1 = a.n1 * 10 + Digit[c], b.n2 = a.n2
  PROVE  InFirst(b, Append(cs, c)) /\ b.n1 \in Nat
<1>1. cs \in Seq(Digits) /\ Append(cs, c) \in Seq(Digits)
  BY DEF InFirst
<1>2. NumberOf(cs) \in Nat /\ NumberOf(Append(cs, c)) = NumberOf(cs) * 10 + Digit[c] /\ Digit[c] \in Nat
  BY <1>1, NumberGrows, DigitFacts
<1> QED BY <1>1, <1>2 DEF InFirst

LEMMA SecondBegins ==
  ASSUME NEW a, NEW b, NEW cs, InFirst(a, cs), b.n1 = a.n1, b.n2 = 0
  PROVE  InSecond(b, Append(cs, "SEMI"))
<1> DEFINE v == Append(cs, "SEMI")
<1>1. cs \in Seq(Digits) /\ Len(cs) \in Nat /\ cs \in Seq(Digits \cup {"SEMI"}) /\ "SEMI" \in Digits \cup {"SEMI"}
  BY DEF InFirst
<1>2. v \in Seq(Digits \cup {"SEMI"}) /\ Len(v) = Len(cs) + 1 /\ v[Len(cs) + 1] = "SEMI"
      /\ \A i \in 1..Len(cs) : v[i] = cs[i]
  BY <1>1, AppendProperties
<1> HIDE DEF v
<1>3. <<>> \in Seq(Digits) /\ Len(<<>>) = 0
  OBVIOUS
<1>4. Parted(v, cs, <<>>)
  BY <1>1, <1>2, <1>3 DEF Parted
<1> QED BY <1>1, <1>2, <1>3, <1>4, NumberNone DEF InFirst, InSecond, v

LEMMA SecondGrows ==
  ASSUME NEW a, NEW b, NEW cs, InSecond(a, cs), NEW c \in Digits,
         b.n1 = a.n1, b.n2 = a.n2 * 10 + Digit[c]
  PROVE  InSecond(b, Append(cs, c)) /\ b.n2 \in Nat
<1> DEFINE D == Digits \cup {"SEMI"}
<1>1. PICK one \in Seq(Digits), two \in Seq(Digits) :
         Parted(cs, one, two) /\ a.n1 = NumberOf(one) /\ a.n2 = NumberOf(two)
  BY DEF InSecond
<1>2. cs \in Seq(D) /\ c \in D
  BY DEF InSecond
<1>3. PICK v \in Seq(D) : /\ v = Append(cs, c) /\ Len(v) = Len(cs) + 1 /\ v[Len(cs) + 1] = c
                          /\ \A i \in 1..Len(cs) : v[i] = cs[i]
  <2>1. /\ Append(cs, c) \in Seq(D) /\ Len(Append(cs, c)) = Len(cs) + 1 /\ Append(cs, c)[Len(cs) + 1] = c
        /\ \A i \in 1..Len(cs) : Append(cs, c)[i] = cs[i]
    BY <1>2, AppendProperties
  <2> QED BY <2>1, Zenon
<1>4. PICK w \in Seq(Digits) : /\ w = Append(two, c) /\ Len(w) = Len(two) + 1 /\ w[Len(two) + 1] = c
                               /\ \A i \in 1..Len(two) : w[i] = two[i]
  <2>1. /\ Append(two, c) \in Seq(Digits) /\ Len(Append(two, c)) = Len(two) + 1
        /\ Append(two, c)[Len(two) + 1] = c /\ \A i \in 1..Len(two) : Append(two, c)[i] = two[i]
    BY <1>1, AppendProperties
  <2> QED BY <2>1, Zenon
<1>5. PICK l \in Nat, m \in Nat, n \in Nat : l = Len(one) /\ m = Len(two) /\ n = Len(cs) /\ n = l + 1 + m
  BY <1>1, <1>2 DEF Parted
<1>6. Parted(v, one, w)
  <2>1. Len(v) = l + 1 + Len(w)
    BY <1>3, <1>4, <1>5
  <2>2. v[l + 1] = "SEMI"
    <3>1. l + 1 \in 1..n
      BY <1>5
    <3> QED BY <1>1, <1>3, <1>5, <3>1 DEF Parted
  <2>3. ASSUME NEW i \in 1..l PROVE v[i] = one[i]
    <3>1. i \in 1..n
      BY <1>5
    <3> QED BY <1>1, <1>3, <1>5, <3>1 DEF Parted
  <2>4. ASSUME NEW i \in 1..Len(w) PROVE v[l + 1 + i] = w[i]
    <3>1. CASE i = m + 1
      <4>1. l + 1 + i = n + 1
        BY <1>5, <3>1
      <4> QED BY <1>3, <1>4, <1>5, <3>1, <4>1
    <3>2. CASE i # m + 1
      <4>1. i \in 1..m /\ l + 1 + i \in 1..n
        BY <1>4, <1>5, <3>2
      <4>2. cs[l + 1 + i] = two[i]
        BY <1>1, <1>5, <4>1 DEF Parted
      <4> QED BY <1>3, <1>4, <1>5, <4>1, <4>2
    <3> QED BY <3>1, <3>2
  <2> QED BY <1>5, <2>1, <2>2, <2>3, <2>4 DEF Parted
<1>7. NumberOf(two) \in Nat /\ NumberOf(w) = NumberOf(two) * 10 + Digit[c] /\ Digit[c] \in Nat
  BY <1>4, NumberGrows, DigitFacts
<1>8. b.n2 = NumberOf(w) /\ b.n2 \in Nat
  BY <1>1, <1>7
<1> QED BY <1>1, <1>3, <1>4, <1>6, <1>8 DEF InSecond

(* What InFirst and InSecond say of a complete sequence.                    *)
LEMMA SequenceRight ==
  ASSUME AnsiInv
  PROVE  AnsiRight
<1> SUFFICES ASSUME astat.stat = "FIN"
             PROVE  /\ Semicolons = {} => astat.n1 = NumberOf(ansiSeq) /\ astat.n2 = 0
                    /\ \A k \in Semicolons :
                          /\ astat.n1 = NumberOf(SubSeq(ansiSeq, 1, k - 1))
                          /\ astat.n2 = NumberOf(SubSeq(ansiSeq, k + 1, Len(ansiSeq)))
  BY DEF AnsiRight
<1>1. CASE InFirst(astat, ansiSeq)
  <2>1. ASSUME NEW k \in 1..Len(ansiSeq) PROVE ansiSeq[k] # "SEMI"
    <3>1. ansiSeq[k] \in Digits
      BY <1>1 DEF InFirst
    <3> QED BY <3>1 DEF Digits
  <2>2. Semicolons = {}
    BY <2>1 DEF Semicolons
  <2> QED BY <1>1, <2>2 DEF InFirst
<1>2. CASE InSecond(astat, ansiSeq)
  <2>1. PICK one \in Seq(Digits), two \in Seq(Digits) :
           Parted(ansiSeq, one, two) /\ astat.n1 = NumberOf(one) /\ astat.n2 = NumberOf(two)
    BY <1>2 DEF InSecond
  <2>2. PICK l \in Nat, m \in Nat, n \in Nat : l = Len(one) /\ m = Len(two) /\ n = Len(ansiSeq) /\ n = l + 1 + m
    <3>1. ansiSeq \in Seq(Digits \cup {"SEMI"})
      BY <1>2 DEF InSecond
    <3>2. Len(one) \in Nat /\ Len(two) \in Nat /\ Len(ansiSeq) \in Nat
      BY <3>1
    <3>3. Len(ansiSeq) = Len(one) + 1 + Len(two)
      BY <2>1 DEF Parted
    <3> QED BY <3>2, <3>3
  <2>3. l + 1 \in Semicolons
    <3>1. l + 1 \in 1..n
      BY <2>2
    <3> QED BY <2>1, <2>2, <3>1 DEF Parted, Semicolons
  <2>4. ASSUME NEW k \in Semicolons PROVE k = l + 1
    <3>1. k \in 1..n /\ ansiSeq[k] = "SEMI"
      BY <2>2 DEF Semicolons
    <3>2. CASE k < l + 1
      <4>1. k \in 1..l
        BY <3>1, <3>2
      <4>2. ansiSeq[k] = one[k] /\ one[k] \in Digits
        BY <2>1, <2>2, <4>1 DEF Parted
      <4> QED BY <3>1, <4>2 DEF Digits
    <3>3. CASE k > l + 1
      <4>1. PICK i \in 1..m : k = l + 1 + i
        <5>1. k - (l + 1) \in 1..m /\ k = l + 1 + (k - (l + 1))
          BY <2>2, <3>1, <3>3
        <5> QED BY <5>1
      <4>2. ansiSeq[k] = two[i] /\ two[i] \in Digits
        BY <2>1, <2>2, <4>1 DEF Parted
      <4> QED BY <3>1, <4>2 DEF Digits
    <3> QED BY <3>1, <3>2, <3>3
  <2>5. SubSeq(ansiSeq, 1, l) = one
    <3>1. \A i \in 1..l : ansiSeq[i] = one[i] /\ one[i] \in Digits
      BY <2>1, <2>2 DEF Parted
    <3>2. /\ SubSeq(ansiSeq, 1, l) \in Seq(Digits)
          /\ Len(SubSeq(ansiSeq, 1, l)) = IF 1 <= l THEN l - 1 + 1 ELSE 0
          /\ \A i \in 1..(l - 1 + 1) : SubSeq(ansiSeq, 1, l)[i] = ansiSeq[1 + i - 1]
      BY <3>1, SubSeqProperties
    <3>3. Len(SubSeq(ansiSeq, 1, l)) = Len(one)
      BY <2>2, <3>2
    <3>4. ASSUME NEW i \in 1..l PROVE SubSeq(ansiSeq, 1, l)[i] = one[i]
      <4>1. i \in 1..(l - 1 + 1) /\ 1 + i - 1 = i
        OBVIOUS
      <4> QED BY <3>1, <3>2, <4>1
    <3> HIDE DEF Semicolons
    <3> QED BY <2>2, <3>2, <3>3, <3>4, SeqEqual
  <2>6. SubSeq(ansiSeq, l + 2, n) = two
    <3> DEFINE t == SubSeq(ansiSeq, l + 2, n)
    <3>1. ASSUME NEW i \in (l + 2)..n
          PROVE  i - (l + 1) \in 1..m /\ ansiSeq[i] = two[i - (l + 1)] /\ ansiSeq[i] \in Digits
      <4>1. PICK j \in 1..m : i = l + 1 + j /\ i - (l + 1) = j
        <5>1. i - (l + 1) \in 1..m /\ i = l + 1 + (i - (l + 1))
          BY <2>2
        <5> QED BY <5>1
      <4>2. ansiSeq[i] = two[j] /\ two[j] \in Digits
        BY <2>1, <2>2, <4>1 DEF Parted
      <4> QED BY <4>1, <4>2
    <3>2. /\ t \in Seq(Digits)
          /\ Len(t) = IF l + 2 <= n THEN n - (l + 2) + 1 ELSE 0
          /\ \A i \in 1..(n - (l + 2) + 1) : t[i] = ansiSeq[(l + 2) + i - 1]
      <4>1. l + 2 \in Int /\ n \in Int /\ \A i \in (l + 2)..n : ansiSeq[i] \in Digits
        BY <3>1
      <4> QED BY <4>1, SubSeqProperties
    <3>3. Len(t) = m
      BY <2>2, <3>2
    <3>4. ASSUME NEW i \in 1..m PROVE t[i] = two[i]
      <4>1. i \in 1..(n - (l + 2) + 1) /\ (l + 2) + i - 1 = l + 1 + i
        BY <2>2
      <4>2. t[i] = ansiSeq[l + 1 + i]
        BY <3>2, <4>1
      <4> QED BY <2>1, <2>2, <4>2 DEF Parted
    <3> HIDE DEF t
    <3>5. t = two
      BY <2>2, <3>2, <3>3, <3>4, SeqEqual
    <3> QED BY <3>5 DEF t
  <2>7. ASSUME NEW k \in Semicolons
        PROVE  /\ astat.n1 = NumberOf(SubSeq(ansiSeq, 1, k - 1))
               /\ astat.n2 = NumberOf(SubSeq(ansiSeq, k + 1, Len(ansiSeq)))
    <3>1. k = l + 1 /\ k - 1 = l /\ k + 1 = l + 2
      BY <2>4
    <3>2. SubSeq(ansiSeq, 1, k - 1) = one /\ SubSeq(ansiSeq, k + 1, Len(ansiSeq)) = two
      BY <2>2, <2>5, <2>6, <3>1
    <3> QED BY <2>1, <3>2
  <2> QED BY <2>3, <2>7
<1> QED BY <1>1, <1>2 DEF AnsiInv, Following

(* ansi_stat_switch follows what was written.                               *)
LEMMA AnsiFollows ==
  ASSUME NEW a, NEW cs, Following(a, cs), a.stat = "NONE" => a.n1 = 0 /\ a.n2 = 0,
         NEW c \in CrtChars, NEW b, b = AnsiSwitch(a, c),
         NEW ds, ds = IF b.stat \in {"ESC", "NONE"} THEN <<>>
                      ELSE IF c \in Digits \cup {"SEMI"} THEN Append(cs, c) ELSE cs
  PROVE  Following(b, ds)
<1>1. PICK d \in Ansis : /\ d = AnsiBegin(a)
                        /\ (d = NoAnsi \/ (a.stat # "FIN" /\ d = [a EXCEPT !.cnt = @ + 1]))
  <2>1. a \in Ansis
    BY DEF Following
  <2>2. CASE a.stat = "FIN" \/ a.cnt + 1 > ANSI_MAX_CHARS
    <3>1. AnsiBegin(a) = NoAnsi
      BY <2>2 DEF AnsiBegin
    <3>2. NoAnsi \in Ansis
      BY CrtSizes DEF NoAnsi, Ansis
    <3> QED BY <3>1, <3>2
  <2>3. CASE ~(a.stat = "FIN" \/ a.cnt + 1 > ANSI_MAX_CHARS)
    <3>1. AnsiBegin(a) = [a EXCEPT !.cnt = @ + 1]
      BY <2>3 DEF AnsiBegin
    <3>2. a.cnt + 1 \in 0..ANSI_MAX_CHARS
      BY <2>1, <2>3, CrtSizes DEF Ansis
    <3> QED BY <2>1, <2>3, <3>1, <3>2 DEF Ansis
  <2> QED BY <2>2, <2>3
<1>2. /\ d.stat \in {"NONE", "ESC", "BRA"} => d.n1 = 0 /\ d.n2 = 0
      /\ d.stat \in {"ESC", "BRA"} => cs = <<>>
      /\ d.stat = "NUM1" => InFirst(d, cs)
      /\ d.stat = "NUM2" => InSecond(d, cs)
      /\ d.stat # "FIN"
  <2>1. CASE d = NoAnsi
    BY <2>1 DEF NoAnsi
  <2>2. CASE a.stat # "FIN" /\ d = [a EXCEPT !.cnt = @ + 1]
    <3>1. d.stat = a.stat /\ d.n1 = a.n1 /\ d.n2 = a.n2
      BY <2>2 DEF Following, Ansis
    <3> QED BY <2>2, <3>1 DEF Following, InFirst, InSecond
  <2> QED BY <1>1, <2>1, <2>2
<1>3. b = AnsiMove(d, c)
  <2>1. d = AnsiBegin(a)
    BY <1>1
  <2> QED BY <2>1, Zenon DEF AnsiSwitch
<1>4. Finals \cap {"SEMI", "?", "[", "ESC", "1", "2"} = {}
  <2>1. CrtGlyphs \cap {"LF", "CR", "BS", "TAB", "ESC", "[", "?", "SEMI", "1", "2"} = {}
    BY CrtAssumption, Zenon
  <2> QED BY <2>1, DigitFacts DEF Finals
<1>5. ASSUME NEW e, e.n1 = 0, e.n2 = 0 PROVE InFirst(e, <<>>)
  <2>1. <<>> \in Seq(Digits)
    OBVIOUS
  <2> QED BY <1>5, <2>1, NumberNone DEF InFirst
<1>6. CASE d.stat = "NONE" /\ c = "ESC"
  <2>1. b = [d EXCEPT !.stat = "ESC"]
    BY <1>3, <1>4, <1>6 DEF AnsiMove, Digits
  <2>2. b \in Ansis /\ b.stat = "ESC" /\ b.n1 = 0 /\ b.n2 = 0
    BY <1>2, <1>6, <2>1 DEF Ansis
  <2> QED BY <2>2 DEF Following
<1>7. CASE d.stat = "ESC" /\ c \in {"[", "O"}
  <2>1. b = [d EXCEPT !.stat = "BRA"]
    BY <1>3, <1>4, <1>7 DEF AnsiMove, Digits
  <2>2. b \in Ansis /\ b.stat = "BRA" /\ b.n1 = 0 /\ b.n2 = 0
    BY <1>2, <1>7, <2>1 DEF Ansis
  <2>3. ds = <<>>
    BY <1>2, <1>4, <1>7, <2>2 DEF Digits
  <2> QED BY <2>2, <2>3 DEF Following
<1>8. CASE d.stat = "ESC" /\ c = "c"
  <2>1. b = [d EXCEPT !.stat = "FIN"]
    BY <1>3, <1>4, <1>8 DEF AnsiMove, Digits
  <2>2. b \in Ansis /\ b.stat = "FIN" /\ b.n1 = 0 /\ b.n2 = 0
    BY <1>2, <1>8, <2>1 DEF Ansis
  <2>3. ds = <<>>
    BY <1>2, <1>4, <1>8, <2>2 DEF Digits
  <2>4. InFirst(b, ds)
    BY <1>5, <2>2, <2>3
  <2> QED BY <2>2, <2>4 DEF Following
<1>9. CASE d.stat = "BRA" /\ c \in Digits
  <2>1. b = [d EXCEPT !.stat = "NUM1", !.n1 = Digit[c]]
    BY <1>3, <1>4, <1>9 DEF AnsiMove, Digits
  <2>2. b.stat = "NUM1" /\ b.n1 = d.n1 * 10 + Digit[c] /\ b.n2 = d.n2
    BY <1>2, <1>9, <2>1, DigitFacts DEF Ansis
  <2>3. ds = Append(<<>>, c)
    BY <1>2, <1>4, <1>9, <2>2
  <2>4. InFirst(b, ds) /\ b.n1 \in Nat
    BY <1>2, <1>5, <1>9, <2>2, <2>3, FirstGrows
  <2> QED BY <2>1, <2>2, <2>4 DEF Following, Ansis
<1>10. CASE d.stat = "BRA" /\ c = "?"
  <2>1. b = [d EXCEPT !.stat = "NUM1"]
    BY <1>3, <1>4, <1>10 DEF AnsiMove, Digits
  <2>2. b \in Ansis /\ b.stat = "NUM1" /\ b.n1 = 0 /\ b.n2 = 0
    BY <1>2, <1>10, <2>1 DEF Ansis
  <2>3. ds = <<>>
    BY <1>2, <1>4, <1>10, <2>2 DEF Digits
  <2>4. InFirst(b, ds)
    BY <1>5, <2>2, <2>3
  <2> QED BY <2>2, <2>4 DEF Following
<1>11. CASE d.stat = "NUM1" /\ c \in Digits
  <2>1. b = [d EXCEPT !.n1 = d.n1 * 10 + Digit[c]]
    BY <1>3, <1>4, <1>11 DEF AnsiMove, Digits
  <2>2. b.stat = "NUM1" /\ b.n1 = d.n1 * 10 + Digit[c] /\ b.n2 = d.n2
    BY <1>11, <2>1 DEF Ansis
  <2>3. ds = Append(cs, c)
    BY <1>4, <1>11, <2>2
  <2>4. InFirst(b, ds) /\ b.n1 \in Nat
    BY <1>2, <1>11, <2>2, <2>3, FirstGrows
  <2> QED BY <2>1, <2>2, <2>4 DEF Following, Ansis
<1>12. CASE d.stat = "NUM1" /\ c = "SEMI"
  <2>1. b = [d EXCEPT !.stat = "NUM2", !.n2 = 0]
    <3>1. c \notin Digits /\ c # "?" /\ c # "ESC" /\ c \notin Finals
      BY <1>4, <1>12 DEF Digits
    <3>2. d.stat # "NONE" /\ d.stat # "ESC" /\ d.stat # "BRA" /\ d.stat # "NUM2"
      BY <1>12
    <3> HIDE DEF Digits, Finals
    <3> QED BY <1>3, <1>12, <3>1, <3>2 DEF AnsiMove
  <2>2. b \in Ansis /\ b.stat = "NUM2" /\ b.n1 = d.n1 /\ b.n2 = 0
    <3>1. b = [stat |-> "NUM2", n1 |-> d.n1, n2 |-> 0, cnt |-> d.cnt]
      BY <2>1 DEF Ansis
    <3>2. d.n1 \in Nat /\ d.cnt \in 0..ANSI_MAX_CHARS
      BY DEF Ansis
    <3> QED BY <3>1, <3>2 DEF Ansis
  <2>3. ds = Append(cs, "SEMI")
    BY <1>12, <2>2
  <2>4. InSecond(b, ds)
    BY <1>2, <1>12, <2>2, <2>3, SecondBegins
  <2> QED BY <2>2, <2>4 DEF Following
<1>13. CASE d.stat = "NUM2" /\ c \in Digits
  <2>1. b = [d EXCEPT !.n2 = d.n2 * 10 + Digit[c]]
    BY <1>3, <1>4, <1>13 DEF AnsiMove, Digits
  <2>2. b.stat = "NUM2" /\ b.n1 = d.n1 /\ b.n2 = d.n2 * 10 + Digit[c]
    BY <1>13, <2>1 DEF Ansis
  <2>3. ds = Append(cs, c)
    BY <1>4, <1>13, <2>2
  <2>4. InSecond(b, ds) /\ b.n2 \in Nat
    BY <1>2, <1>13, <2>2, <2>3, SecondGrows
  <2> QED BY <2>1, <2>2, <2>4 DEF Following, Ansis
<1>14. CASE d.stat \in {"BRA", "NUM1", "NUM2"} /\ c \in Finals
  <2>1. b = [d EXCEPT !.stat = "FIN"]
    BY <1>3, <1>4, <1>14 DEF AnsiMove, Digits
  <2>2. b \in Ansis /\ b.stat = "FIN" /\ b.n1 = d.n1 /\ b.n2 = d.n2
    BY <2>1 DEF Ansis
  <2>3. ds = cs
    BY <1>4, <1>14, <2>2 DEF Digits
  <2>4. InFirst(d, cs) \/ InSecond(d, cs)
    BY <1>2, <1>5, <1>14
  <2> QED BY <2>2, <2>3, <2>4 DEF Following, InFirst, InSecond
<1>15. CASE /\ ~(d.stat = "NONE" /\ c = "ESC") /\ ~(d.stat = "ESC" /\ c \in {"[", "O", "c"})
            /\ ~(d.stat = "BRA" /\ c \in Digits \cup {"?"})
            /\ ~(d.stat = "NUM1" /\ c \in Digits \cup {"SEMI"}) /\ ~(d.stat = "NUM2" /\ c \in Digits)
            /\ ~(d.stat \in {"BRA", "NUM1", "NUM2"} /\ c \in Finals)
  <2>1. b = [d EXCEPT !.stat = "NONE", !.cnt = 0]
    BY <1>3, <1>15 DEF AnsiMove
  <2>2. b \in Ansis /\ b.stat = "NONE"
    <3>1. b = [stat |-> "NONE", n1 |-> d.n1, n2 |-> d.n2, cnt |-> 0]
      BY <2>1 DEF Ansis
    <3>2. d.n1 \in Nat /\ d.n2 \in Nat /\ 0 \in 0..ANSI_MAX_CHARS
      BY CrtSizes DEF Ansis
    <3> QED BY <3>1, <3>2 DEF Ansis
  <2> QED BY <2>2 DEF Following
<1> QED BY <1>6, <1>7, <1>8, <1>9, <1>10, <1>11, <1>12, <1>13, <1>14, <1>15

-----------------------------------------------------------------------------
CrtInv == ScreenInv /\ AnsiInv

LEMMA CrtInvInit ==
  ASSUME CrtInit
  PROVE  CrtInv
<1>1. PICK x \in 0..(CRT_COLS - 1), y \in 0..(CRT_ROWS - 1) :
         crt = [x |-> x, y |-> y, buf |-> [k \in Cells |-> Blank], halt |-> FALSE, outside |-> {}]
  BY DEF CrtInit
<1>2. crt \in Screens /\ OnScreen(crt)
  <2>1. x \in Nat /\ y \in Nat /\ x \in 0..(CRT_COLS + TAB_SPACES)
    BY CrtSizes
  <2>2. [k \in Cells |-> Blank] \in [Cells -> Seen]
    BY DEF Seen
  <2> QED BY <1>1, <2>1, <2>2 DEF Screens, OnScreen
<1>3. ScreenInv
  BY <1>2, NoText DEF CrtInit, ScreenInv
<1>4. NoAnsi \in Ansis /\ NoAnsi.stat = "NONE" /\ NoAnsi.n1 = 0 /\ NoAnsi.n2 = 0
  BY CrtSizes DEF NoAnsi, Ansis
<1>5. AnsiInv
  BY <1>4 DEF CrtInit, AnsiInv, Following
<1> QED BY <1>3, <1>5 DEF CrtInv

LEMMA CrtInvStep ==
  ASSUME CrtInv, [CrtNext]_crtVars
  PROVE  CrtInv'
<1>1. CASE UNCHANGED crtVars
  BY <1>1 DEF crtVars, CrtInv, ScreenInv, AnsiInv, Following, InFirst, InSecond, Parted,
              TextShown, OnScreen, CrtPos
<1>2. ASSUME NEW c \in CrtChars, ~ansiStale, CrtPutc(c) PROVE CrtInv'
  <2> DEFINE a == AnsiSwitch(astat, c)
  <2>1. /\ astat' = a
        /\ ansiSeq' = IF a.stat \in {"ESC", "NONE"} THEN <<>>
                      ELSE IF c \in Digits \cup {"SEMI"} THEN Append(ansiSeq, c) ELSE ansiSeq
        /\ ansiStale' = (a.stat = "NONE" /\ (a.n1 # 0 \/ a.n2 # 0))
    BY <1>2 DEF CrtPutc
  <2>2. Following(astat', ansiSeq')
    <3>1. Following(astat, ansiSeq) /\ (astat.stat = "NONE" => astat.n1 = 0 /\ astat.n2 = 0)
      BY <1>2 DEF CrtInv, AnsiInv
    <3> HIDE DEF a
    <3>2. a = AnsiSwitch(astat, c)
      BY DEF a
    <3> QED BY <2>1, <3>1, <3>2, AnsiFollows
  <2>3. AnsiInv'
    <3>1. Following(astat, ansiSeq)'
      BY <2>2 DEF Following, InFirst, InSecond
    <3> HIDE DEF a
    <3> QED BY <2>1, <3>1 DEF AnsiInv
  <2>4. a.n1 \in Nat /\ a.n2 \in Nat
    BY <2>1, <2>2 DEF Following, Ansis
  <2>5. crt \in Screens /\ OnScreen(crt) /\ crtText \in Seq(Seen) /\ TextShown(crt, crtText)
    BY DEF CrtInv, ScreenInv
  <2>6. crt' \in Screens /\ OnScreen(crt') /\ crtText' \in Seq(Seen) /\ TextShown(crt', crtText')
    <3>1. CASE a.stat # "NONE"
      <4>1. crtText' = <<>> /\ (crt' = HandleAnsi(crt, a, c) \/ crt' = crt)
        BY <1>2, <3>1 DEF CrtPutc
      <4> HIDE DEF a
      <4>2. crt' \in Screens /\ OnScreen(crt')
        BY <2>4, <2>5, <4>1, CommandDone
      <4> QED BY <4>1, <4>2, NoText
    <3>2. CASE a.stat = "NONE" /\ c \in {"LF", "CR", "BS", "TAB"}
      <4>1. crtText' = <<>> /\ crt' = Printed(Wrapped(crt), c)
        BY <1>2, <3>2 DEF CrtPutc
      <4>2. crt' \in Screens /\ OnScreen(crt')
        BY <2>5, <3>2, <4>1, PrintedControl
      <4> QED BY <4>1, <4>2, NoText
    <3>3. CASE a.stat = "NONE" /\ c \notin {"LF", "CR", "BS", "TAB"}
      <4>1. /\ crt' = Printed(Wrapped(crt), c)
            /\ crtText' = LET was == IF Fell(crt) THEN <<>> ELSE crtText
                          IN Append(IF Len(was) = CRT_COLS THEN Tail(was) ELSE was, Shown(c))
        BY <1>2, <3>3 DEF CrtPutc
      <4> QED BY <2>5, <3>3, <4>1, PrintedText
    <3> QED BY <3>1, <3>2, <3>3
  <2>7. ScreenInv'
    BY <2>6 DEF ScreenInv, OnScreen, TextShown, CrtPos
  <2> QED BY <2>3, <2>7 DEF CrtInv
<1> QED BY <1>1, <1>2 DEF CrtNext

(* What is printed is on the screen, where the next character finds it, nothing is
   printed outside of the buffer, and escape sequences have the numbers that were
   written, on a screen of any size.  ESC [ 1 K does write outside of the buffer,
   when the cursor is behind the last row or at 65535.                      *)
THEOREM TextAlwaysShown == CrtSpec => []CrtSafety
<1>1. CrtInit => CrtInv
  BY CrtInvInit
<1>2. CrtInv /\ [CrtNext]_crtVars => CrtInv'
  BY CrtInvStep
<1>3. CrtInv => CrtSafety
  <2> SUFFICES ASSUME CrtInv PROVE CrtSafety
    OBVIOUS
  <2>1. CrtTypeOK
    BY DEF CrtInv, ScreenInv, AnsiInv, OnScreen, Following, Ansis, CrtTypeOK
  <2>4. CrtInBuffer
    BY DEF CrtInv, ScreenInv, Screens, CrtInBuffer
  <2>2. CrtTextKept
    BY DEF CrtInv, ScreenInv, TextShown, CrtTextKept
  <2>3. AnsiRight
    BY SequenceRight DEF CrtInv
  <2> QED BY <2>1, <2>2, <2>3, <2>4 DEF CrtSafety
<1> QED BY <1>1, <1>2, <1>3, PTL DEF CrtSpec
=============================================================================
