----------------------------- MODULE PipeProofs -----------------------------
(***************************************************************************)
(* The ring buffer of pipe.c, for every buffer size and every word size    *)
(* that is a multiple of it: the writer is never more than a buffer ahead  *)
(* (Window), and what is read is what was written, in order (Fifo).        *)
(*                                                                         *)
(* The ends of a pipe, for any number of tasks and descriptors: while      *)
(* tasks read, write, fork, dup, close, exit and are reaped in any order,  *)
(* the references of the nodes and the counters of the pipe stay equal to  *)
(* the descriptors left, nothing uses the pipe after it has been freed,    *)
(* and end-of-file is told only when it is so.                             *)
(***************************************************************************)
EXTENDS Pipe, NatLemmas

-----------------------------------------------------------------------------
(* The positions.                                                           *)

Positions == 0..(Word - 1)

LEMMA WordFacts ==
    /\ Size \in Nat /\ Size > 0
    /\ Word \in Nat /\ Word > 0 /\ Size < Word
    /\ Word % Size = 0
  BY PipeAssumption

(* The distance from one position to another, a step, and a buffer ahead.   *)
LEMMA Distance ==
    ASSUME NEW a \in Positions, NEW b \in Positions
    PROVE  (b - a) % Word = IF a <= b THEN b - a ELSE b - a + Word
<1>1. CASE a <= b
  BY <1>1, WordFacts, ModNear DEF Positions
<1>2. CASE ~(a <= b)
  BY <1>2, WordFacts, ModNear DEF Positions
<1> QED
  BY <1>1, <1>2

LEMMA Ahead ==
    ASSUME NEW a \in Positions, NEW n \in 1..Size
    PROVE  (a + n) % Word = IF a + n < Word THEN a + n ELSE a + n - Word
<1>1. CASE a + n < Word
  BY <1>1, WordFacts, ModNear DEF Positions
<1>2. CASE ~(a + n < Word)
  <2>1. a + n \in Word..(2 * Word - 1)
    BY <1>2, WordFacts DEF Positions
  <2>2. \A x \in Word..(2 * Word - 1) : x % Word = x - Word
    BY WordFacts, ModNear
  <2>3. (a + n) % Word = (a + n) - Word
    BY <2>1, <2>2, Zenon
  <2> QED
    BY <1>2, <2>3, WordFacts DEF Positions
<1> QED
  BY <1>1, <1>2

-----------------------------------------------------------------------------
(* The ring: only ReadByte and WriteByte touch it.                          *)

RingType ==
    /\ buffer \in [0..(Size - 1) -> Bytes]
    /\ read_pos \in Positions
    /\ write_pos \in Positions

RingInv == RingType /\ Window

TakeByte ==
    /\ ~Empty
    /\ read_pos' = Inc(read_pos)
    /\ UNCHANGED <<buffer, write_pos>>

StoreByte ==
    /\ ~NoRoom
    /\ \E b \in Bytes : buffer' = [buffer EXCEPT ![Place] = b]
    /\ write_pos' = Inc(write_pos)
    /\ UNCHANGED read_pos

LEMMA RingStep ==
    ASSUME [Next]_vars
    PROVE  TakeByte \/ StoreByte \/ UNCHANGED ring
<1>1. CASE UNCHANGED vars
  BY <1>1 DEF vars, ring
<1>2. ASSUME NEW t \in Tasks, KernelStep(t) PROVE TakeByte \/ StoreByte \/ UNCHANGED ring
  <2>1. CASE ReadByte(t)
    BY <2>1 DEF ReadByte, TakeByte
  <2>2. CASE WriteByte(t)
    BY <2>2 DEF WriteByte, StoreByte
  <2>3. CASE Lock(t) \/ Sleep(t)
    BY <2>3 DEF Lock, Sleep
  <2>4. CASE ReadWait(t) \/ ReadGo(t) \/ ReadReturn(t)
    BY <2>4 DEF ReadWait, ReadGo, ReadReturn
  <2>5. CASE WriteBroken(t) \/ WriteWait(t) \/ WriteReturn(t)
    BY <2>5 DEF WriteBroken, WriteWait, WriteReturn
  <2>6. CASE PipeClose(t) \/ ClearFd(t) \/ ReapClose(t) \/ ReapEnd(t)
    BY <2>6 DEF PipeClose, ClearFd, ReapClose, ReapEnd
  <2> QED
    BY <1>2, <2>1, <2>2, <2>3, <2>4, <2>5, <2>6 DEF KernelStep
<1>3. ASSUME NEW t \in Tasks, Syscall(t) PROVE UNCHANGED ring
  BY <1>3 DEF Syscall, Call, Fork, Reap, Close, Dup, Exit
<1>4. ASSUME NEW t \in Tasks, Awaken(t) PROVE UNCHANGED ring
  BY <1>4 DEF Awaken
<1> QED
  BY <1>1, <1>2, <1>3, <1>4 DEF Next

(* A full buffer is exactly a distance of Size.                             *)
LEMMA UsedFacts ==
    ASSUME RingType
    PROVE  /\ Used = IF read_pos <= write_pos THEN write_pos - read_pos
                     ELSE write_pos - read_pos + Word
           /\ Used \in Nat
           /\ Empty <=> Used = 0
           /\ NoRoom <=> Used = Size
<1>1. Used = IF read_pos <= write_pos THEN write_pos - read_pos
             ELSE write_pos - read_pos + Word
  BY Distance DEF RingType, Used
<1>2. (read_pos + Size) % Word =
          IF read_pos + Size < Word THEN read_pos + Size ELSE read_pos + Size - Word
  BY Ahead, WordFacts DEF RingType
<1> QED
  BY <1>1, <1>2, WordFacts DEF RingType, Positions, Empty, NoRoom

LEMMA IncFacts ==
    ASSUME NEW a \in Positions
    PROVE  Inc(a) \in Positions /\ Inc(a) = IF a + 1 < Word THEN a + 1 ELSE 0
<1>1. (a + 1) % Word = IF a + 1 < Word THEN a + 1 ELSE a + 1 - Word
  BY Ahead, WordFacts
<1> QED
  BY <1>1, WordFacts DEF Inc, Positions

LEMMA IndexType ==
    ASSUME NEW x \in Int
    PROVE  Index(x) \in 0..(Size - 1)
  BY Quotient, WordFacts DEF Index

(* A stored byte adds one to the distance, a taken byte removes one.        *)
LEMMA TakeStep ==
    ASSUME RingInv, TakeByte
    PROVE  RingType' /\ Used' = Used - 1 /\ Used > 0
<1>1. RingType'
  BY IncFacts DEF RingInv, RingType, TakeByte
<1>2. Used' = IF read_pos' <= write_pos' THEN write_pos' - read_pos'
              ELSE write_pos' - read_pos' + Word
  BY <1>1, Distance DEF RingType, Used
<1>3. /\ read_pos' = IF read_pos + 1 < Word THEN read_pos + 1 ELSE 0
      /\ write_pos' = write_pos /\ read_pos # write_pos
  BY IncFacts DEF RingInv, RingType, TakeByte, Empty
<1> QED
  BY <1>1, <1>2, <1>3, UsedFacts, WordFacts DEF RingInv, RingType, Positions

LEMMA StoreStep ==
    ASSUME RingInv, StoreByte
    PROVE  RingType' /\ Used' = Used + 1 /\ Used < Size
<1>1. RingType'
  <2>1. Place \in 0..(Size - 1)
    BY IndexType DEF Place, RingInv, RingType, Positions
  <2>2. buffer' \in [0..(Size - 1) -> Bytes]
    BY <2>1 DEF StoreByte, RingInv, RingType
  <2> QED
    BY <2>2, IncFacts DEF RingInv, RingType, StoreByte
<1>2. Used' = IF read_pos' <= write_pos' THEN write_pos' - read_pos'
              ELSE write_pos' - read_pos' + Word
  BY <1>1, Distance DEF RingType, Used
<1>3. /\ write_pos' = IF write_pos + 1 < Word THEN write_pos + 1 ELSE 0
      /\ read_pos' = read_pos
  BY IncFacts DEF RingInv, RingType, StoreByte
<1>4. Used < Size
  BY UsedFacts, WordFacts DEF RingInv, Window, StoreByte
<1> QED
  BY <1>1, <1>2, <1>3, <1>4, UsedFacts, WordFacts DEF RingInv, RingType, Positions

LEMMA RingInit ==
    ASSUME Init
    PROVE  RingInv
<1>1. RingType
  BY WordFacts DEF Init, RingType, Positions
<1>2. Used = 0
  BY <1>1, UsedFacts DEF Init, Empty
<1> QED
  BY <1>1, <1>2, WordFacts DEF RingInv, Window

LEMMA RingInductive ==
    ASSUME RingInv, [Next]_vars
    PROVE  RingInv'
<1>1. CASE TakeByte
  BY <1>1, TakeStep, UsedFacts, WordFacts DEF RingInv, Window
<1>2. CASE StoreByte
  BY <1>2, StoreStep, UsedFacts, WordFacts DEF RingInv, Window
<1>3. CASE UNCHANGED ring
  BY <1>3 DEF ring, RingInv, RingType, Window, Used
<1> QED
  BY <1>1, <1>2, <1>3, RingStep

(* The writer is never more than Size bytes ahead of the reader.            *)
THEOREM WindowHolds == Spec => []Window
<1>1. Init => RingInv
  BY RingInit
<1>2. RingInv /\ [Next]_vars => RingInv'
  BY RingInductive
<1>3. RingInv => Window
  BY DEF RingInv
<1> QED
  BY <1>1, <1>2, <1>3, PTL DEF Spec

-----------------------------------------------------------------------------
(* The contents of the ring as a queue.                                     *)

LEMMA AppendChar ==
    ASSUME NEW T, NEW s \in Seq(T), NEW t \in Seq(T), NEW e \in T,
           Len(t) = Len(s) + 1, \A k \in 1..Len(s) : t[k] = s[k], t[Len(s) + 1] = e
    PROVE  t = Append(s, e)
  OBVIOUS

LEMMA TailChar ==
    ASSUME NEW T, NEW s \in Seq(T), NEW t \in Seq(T), s # <<>>,
           Len(t) = Len(s) - 1, \A k \in 1..Len(t) : t[k] = s[k + 1]
    PROVE  t = Tail(s)
  OBVIOUS

LEMMA StreamFacts ==
    ASSUME RingInv
    PROVE  /\ Stream \in Seq(Bytes) /\ Len(Stream) = Used /\ DOMAIN Stream = 1..Used
           /\ \A k \in 1..Used : Stream[k] = buffer[Index(read_pos + k - 1)]
<1>1. Used \in Nat
  BY UsedFacts DEF RingInv
<1>2. ASSUME NEW k \in 1..Used PROVE buffer[Index(read_pos + k - 1)] \in Bytes
  <2>1. read_pos + k - 1 \in Int
    BY <1>1, WordFacts DEF RingInv, RingType, Positions
  <2> QED
    BY <2>1, IndexType DEF RingInv, RingType
<1> QED
  BY <1>1, <1>2 DEF Stream

(* The place of the next byte is the one after the last byte of the queue,
   and no byte of the queue is there.                                       *)
LEMMA PlaceFacts ==
    ASSUME RingInv, Used < Size
    PROVE  /\ Place = Index(read_pos + Used)
           /\ \A k \in 1..Used : Index(read_pos + k - 1) # Place
<1>1. /\ read_pos \in Int /\ write_pos \in Int /\ Used \in Nat
      /\ read_pos + Used = write_pos \/ read_pos + Used = write_pos + Word
  BY UsedFacts, WordFacts DEF RingInv, RingType, Positions
<1>2. (write_pos + Word) % Size = write_pos % Size
  BY <1>1, WordFacts, ModPeriod
<1>3. Place = Index(read_pos + Used)
  BY <1>1, <1>2, Zenon DEF Place, Index
<1>4. ASSUME NEW k \in 1..Used PROVE Index(read_pos + k - 1) # Index(read_pos + Used)
  <2>1. /\ read_pos + k - 1 \in Int /\ read_pos + Used \in Int
        /\ read_pos + k - 1 < read_pos + Used
        /\ read_pos + Used < (read_pos + k - 1) + Size
    BY <1>1, WordFacts
  <2> QED
    BY <2>1, WordFacts, ModDistinct DEF Index
<1> QED
  BY <1>3, <1>4

(* A byte stored is appended to the queue.                                  *)
LEMMA StorePuts ==
    ASSUME RingInv, StoreByte
    PROVE  B!Put
<1>1. /\ RingInv' /\ Used' = Used + 1 /\ Used < Size /\ Used \in Nat
  BY StoreStep, UsedFacts, WordFacts DEF RingInv, Window
<1>2. PICK b \in Bytes : buffer' = [buffer EXCEPT ![Place] = b]
  BY DEF StoreByte
<1>3. Place \in 0..(Size - 1)
  BY IndexType DEF Place, RingInv, RingType, Positions
<1>4. /\ Stream' \in Seq(Bytes) /\ Len(Stream') = Used + 1 /\ DOMAIN Stream' = 1..(Used + 1)
      /\ \A k \in 1..(Used + 1) : Stream'[k] = buffer'[Index(read_pos' + k - 1)]
  <2>1. (Stream \in Seq(Bytes) /\ Len(Stream) = Used /\ DOMAIN Stream = 1..Used
         /\ \A k \in 1..Used : Stream[k] = buffer[Index(read_pos + k - 1)])'
    BY <1>1, StreamFacts, PTL
  <2> QED
    BY <1>1, <2>1
<1>5. /\ Stream \in Seq(Bytes) /\ Len(Stream) = Used
      /\ \A k \in 1..Used : Stream[k] = buffer[Index(read_pos + k - 1)]
  BY StreamFacts
<1>6. ASSUME NEW k \in 1..Used PROVE Stream'[k] = Stream[k]
  <2>1. Stream'[k] = buffer'[Index(read_pos + k - 1)]
    BY <1>1, <1>4 DEF StoreByte
  <2>2. Index(read_pos + k - 1) # Place
    BY <1>1, PlaceFacts
  <2>3. read_pos + k - 1 \in Int
    BY <1>1, WordFacts DEF RingInv, RingType, Positions
  <2>4. Index(read_pos + k - 1) \in 0..(Size - 1)
    BY <2>3, IndexType
  <2> QED
    BY <1>2, <1>5, <2>1, <2>2, <2>4 DEF RingInv, RingType
<1>7. Stream'[Used + 1] = b
  <2>1. Stream'[Used + 1] = buffer'[Index(read_pos + (Used + 1) - 1)]
    BY <1>1, <1>4 DEF StoreByte
  <2>2. read_pos + (Used + 1) - 1 = read_pos + Used
    BY <1>1, WordFacts DEF RingInv, RingType, Positions
  <2> QED
    BY <1>1, <1>2, <1>3, <2>1, <2>2, PlaceFacts DEF RingInv, RingType
<1>8. Stream' = Append(Stream, b)
  BY <1>1, <1>4, <1>5, <1>6, <1>7, AppendChar
<1> QED
  BY <1>1, <1>5, <1>8 DEF B!Put

LEMMA Shift ==
    ASSUME NEW a \in Int, NEW b \in Int, NEW w \in Int, NEW k \in Int, a + w = b + 1
    PROVE  (a + k - 1) + w = b + k
  OBVIOUS

(* A byte taken is the head of the queue.                                   *)
LEMMA TakeGets ==
    ASSUME RingInv, TakeByte
    PROVE  B!Get
<1>1. /\ RingInv' /\ Used' = Used - 1 /\ Used > 0 /\ Used \in Nat
  BY TakeStep, UsedFacts, WordFacts DEF RingInv, Window
<1>2. /\ Stream' \in Seq(Bytes) /\ Len(Stream') = Used - 1
      /\ \A k \in 1..(Used - 1) : Stream'[k] = buffer'[Index(read_pos' + k - 1)]
  <2>1. (Stream \in Seq(Bytes) /\ Len(Stream) = Used /\ DOMAIN Stream = 1..Used
         /\ \A k \in 1..Used : Stream[k] = buffer[Index(read_pos + k - 1)])'
    BY <1>1, StreamFacts, PTL
  <2> QED
    BY <1>1, <2>1
<1>3. /\ Stream \in Seq(Bytes) /\ Len(Stream) = Used
      /\ \A k \in 1..Used : Stream[k] = buffer[Index(read_pos + k - 1)]
  BY StreamFacts
<1>4. /\ buffer' = buffer /\ read_pos \in Int /\ read_pos' \in Int
      /\ read_pos' = read_pos + 1 \/ read_pos' + Word = read_pos + 1
  <2>1. /\ read_pos' = IF read_pos + 1 < Word THEN read_pos + 1 ELSE 0
        /\ read_pos' \in Positions /\ buffer' = buffer
    BY IncFacts DEF TakeByte, RingInv, RingType
  <2>2. read_pos \in Positions
    BY DEF RingInv, RingType
  <2> QED
    BY <2>1, <2>2, WordFacts DEF Positions
<1>5. ASSUME NEW k \in 1..(Used - 1) PROVE Stream'[k] = Stream[k + 1]
  <2>1. /\ k + 1 \in 1..Used /\ k \in Int
        /\ read_pos + (k + 1) - 1 = read_pos + k
        /\ read_pos' + k - 1 \in Int
        /\ \/ read_pos' + k - 1 = read_pos + k
           \/ (read_pos' + k - 1) + Word = read_pos + k
    <3>1. k + 1 \in 1..Used /\ k \in Int
      BY <1>1
    <3>2. /\ read_pos + (k + 1) - 1 = read_pos + k
          /\ read_pos' + k - 1 \in Int
      BY <1>4, <3>1
    <3>3. Word \in Int
      BY WordFacts
    <3>4. \/ read_pos' + k - 1 = read_pos + k
          \/ (read_pos' + k - 1) + Word = read_pos + k
      <4>1. CASE read_pos' = read_pos + 1
        BY <1>4, <3>1, <4>1
      <4>2. CASE read_pos' + Word = read_pos + 1
        <5>1. PICK a \in Int, b \in Int : a = read_pos' /\ b = read_pos
          BY <1>4, Zenon
        <5>2. a + Word = b + 1
          BY <4>2, <5>1, Zenon
        <5>3. (a + k - 1) + Word = b + k
          BY <3>1, <3>3, <5>2, Shift
        <5> QED
          BY <5>1, <5>3, Zenon
      <4> QED
        BY <1>4, <4>1, <4>2, Zenon
    <3> QED
      BY <3>1, <3>2, <3>4, Zenon
  <2>2. ((read_pos' + k - 1) + Word) % Size = (read_pos' + k - 1) % Size
    BY <2>1, WordFacts, ModPeriod
  <2>3. Index(read_pos' + k - 1) = Index(read_pos + k)
    BY <2>1, <2>2, Zenon DEF Index
  <2>4. Stream[k + 1] = buffer[Index(read_pos + (k + 1) - 1)]
    BY <1>3, <2>1, Zenon
  <2> QED
    BY <1>2, <1>4, <2>1, <2>3, <2>4, Zenon
<1>6. Stream # <<>>
  BY <1>1, <1>3
<1>7. Stream' = Tail(Stream)
  BY <1>1, <1>2, <1>3, <1>5, <1>6, TailChar
<1> QED
  BY <1>6, <1>7 DEF B!Get

(* Every step of the pipe is a step of the byte queue, or leaves it alone.  *)
LEMMA StreamStep ==
    ASSUME RingInv, [Next]_vars
    PROVE  [B!Put \/ B!Get]_Stream
<1>1. CASE TakeByte
  BY <1>1, TakeGets
<1>2. CASE StoreByte
  BY <1>2, StorePuts
<1>3. CASE UNCHANGED ring
  BY <1>3 DEF ring, Stream, Used
<1> QED
  BY <1>1, <1>2, <1>3, RingStep

LEMMA StreamInit ==
    ASSUME Init
    PROVE  B!Init
<1>1. RingInv /\ Used = 0
  BY RingInit, UsedFacts DEF Init, Empty, RingInv
<1> QED
  BY <1>1, StreamFacts DEF B!Init

(* A pipe implements a first-in first-out queue of at most Size bytes, for
   every Size and every word size that is a multiple of it.                 *)
THEOREM PipeIsFifo == Spec => Fifo
<1>1. Init => RingInv /\ B!Init
  BY RingInit, StreamInit
<1>2. RingInv /\ [Next]_vars => RingInv' /\ [B!Put \/ B!Get]_Stream
  BY RingInductive, StreamStep
<1> QED
  BY <1>1, <1>2, PTL DEF Spec, Fifo, B!Spec

-----------------------------------------------------------------------------
(* The ends of the pipe.                                                    *)

(* No task is killed in the middle of a call: one that a signal ends inside
   pipe_close leaves a descriptor behind that task_free closes again.  And an
   unsigned int can count the tasks.                                        *)
NobodyKilled == "kill" \notin Does
CountersSuffice == Cardinality(Tasks) < Word

-----------------------------------------------------------------------------
(* Who has what.  Only the owner of a descriptor closes it, or, when the owner is
   gone, the one task that frees the owner.                                 *)
Closer(t) == IF child[t] = None THEN t ELSE child[t]

ClosersOwn ==
    \A t \in Tasks :
        /\ pc[t] \in {"close", "closing", "closed"} => arg[t] \in open /\ arg[t][1] = Closer(t)
        /\ pc[t] = "closed" => child[t] = None
        /\ pc[t] = "reap" => child[t] # None

ReapersAlone ==
    /\ \A t \in Tasks : child[t] # None =>
           pc[t] \in {"reap", "close", "closing"} /\ pc[child[t]] = "freed"
    /\ \A t, u \in Tasks : child[t] # None /\ child[t] = child[u] => t = u

UsersHave ==
    \A t \in Tasks :
        /\ pc[t] = "none" => Fds(t) = {}
        /\ pc[t] \in Reading => \E d \in Fds(t) : d[2] = "r"
        /\ pc[t] \in Writing => \E d \in Fds(t) : d[2] = "w"

LockersHold == \A t \in Tasks : pc[t] \in Locked => lock = t

OneSlotEach == \A d \in open : d[2] \notin dupped => d[3] = 1

FreedUncounted == freed => readers = 0 /\ writers = 0

EndsType ==
    /\ readers \in 0..(Word - 1) /\ writers \in 0..(Word - 1)
    /\ lock \in Tasks \cup {None} /\ held \in Tasks \cup {None}
    /\ freed \in BOOLEAN
    /\ ref_count \in [Ends -> Int]
    /\ open \subseteq Descriptors /\ dupped \subseteq Ends
    /\ parent \in [Tasks -> Tasks \cup {None}]
    /\ pc \in [Tasks -> Locations]
    /\ size \in [Tasks -> Nat] /\ i \in [Tasks -> Nat]
    /\ arg \in [Tasks -> Descriptors \cup {NoDescriptor}]
    /\ child \in [Tasks -> Tasks \cup {None}]

EndsShape ==
    /\ EndsType
    /\ ClosersOwn /\ ReapersAlone /\ UsersHave /\ LockersHold /\ OneSlotEach /\ FreedUncounted

-----------------------------------------------------------------------------
(* Sets of descriptors are finite.                                          *)
LEMMA DescriptorsFinite == \A S \in SUBSET Descriptors : IsFiniteSet(S) /\ Cardinality(S) \in Nat
<1> DEFINE Pairs == (Tasks \X Ends) \X Slots
           f == [d \in Descriptors |-> <<<<d[1], d[2]>>, d[3]>>]
<1>1. IsFiniteSet(Ends)
  <2>1. Ends = ({} \cup {"r"}) \cup {"w"}
    BY DEF Ends
  <2> QED BY <2>1, FS_AddElement, FS_EmptySet
<1>2. IsFiniteSet(Pairs)
  BY <1>1, FS_Product, PipeAssumption
<1>3. f \in [Descriptors -> Pairs]
  BY DEF Descriptors
<1>4. ASSUME NEW a \in Descriptors, NEW b \in Descriptors, f[a] = f[b] PROVE a = b
  BY <1>4 DEF Descriptors
<1>5. f \in Injection(Descriptors, Pairs)
  BY <1>3, <1>4 DEF Injection, IsInjective
<1>6. IsFiniteSet(Descriptors)
  BY <1>2, <1>5, FS_Injection
<1> QED BY <1>6, FS_Subset, FS_CardinalityType

LEMMA OwnedFinite ==
  ASSUME EndsType, NEW t, NEW e
  PROVE  Cardinality({d \in Fds(t) : d[2] = e}) \in Nat
<1>1. {d \in Fds(t) : d[2] = e} \in SUBSET Descriptors
  BY DEF EndsType, Fds
<1> QED BY <1>1, DescriptorsFinite

LEMMA EndsTypeStep == EndsType /\ [Next]_vars => EndsType'
<1> SUFFICES ASSUME EndsType, [Next]_vars PROVE EndsType'
  OBVIOUS
<1>w. \A x \in Int : x % Word \in 0..(Word - 1)
  BY WordFacts, Quotient
<1>o. \A t, e : Cardinality({d \in Fds(t) : d[2] = e}) \in Nat
  BY OwnedFinite
<1> USE DEF EndsType
<1>1. ASSUME NEW t \in Tasks, Lock(t) \/ Sleep(t) \/ Awaken(t) PROVE EndsType'
  BY <1>1 DEF Lock, Sleep, Awaken, Goto, SpinLock, counts, reaping, rw, Locations, Reading, Writing, Closing
<1>2. ASSUME NEW t \in Tasks, ReadWait(t) \/ ReadGo(t) PROVE EndsType'
  BY <1>2 DEF ReadWait, ReadGo, Goto, SpinUnlock, counts, reaping, rw, Locations, Reading, Writing, Closing
<1>3. ASSUME NEW t \in Tasks, ReadByte(t) PROVE EndsType'
  BY <1>3 DEF ReadByte, counts, reaping, Locations, Reading, Writing, Closing
<1>4. ASSUME NEW t \in Tasks, ReadReturn(t) PROVE EndsType'
  BY <1>4 DEF ReadReturn, WakeWritersAndGoto, SpinUnlock, Forget, counts, reaping, Locations, Reading, Writing, Closing
<1>5. ASSUME NEW t \in Tasks, WriteByte(t) PROVE EndsType'
  BY <1>5 DEF WriteByte, counts, reaping, Locations, Reading, Writing, Closing
<1>6. ASSUME NEW t \in Tasks, WriteBroken(t) PROVE EndsType'
  BY <1>6 DEF WriteBroken, Goto, SpinUnlock, Forget, counts, reaping, Locations, Reading, Writing, Closing
<1>7. ASSUME NEW t \in Tasks, WriteWait(t) PROVE EndsType'
  BY <1>7 DEF WriteWait, WakeReadersAndGoto, SpinUnlock, counts, reaping, rw, Locations, Reading, Writing, Closing
<1>8. ASSUME NEW t \in Tasks, WriteReturn(t) PROVE EndsType'
  BY <1>8 DEF WriteReturn, WakeReadersAndGoto, SpinUnlock, Forget, counts, reaping, Locations, Reading, Writing, Closing
<1>9. ASSUME NEW t \in Tasks, PipeClose(t) PROVE EndsType'
  <2> DEFINE next == IF child[t] = None THEN "closed" ELSE "reap"
  <2>1. pc' \in [Tasks -> Locations]
    <3>1. next \in Locations
      BY DEF Locations, Closing
    <3>2. CASE arg[t][2] = "r"
      BY <1>9, <3>1, <3>2 DEF PipeClose, WakeWritersAndGoto, Locations, Writing
    <3>3. CASE arg[t][2] # "r"
      BY <1>9, <3>1, <3>3 DEF PipeClose, WakeReadersAndGoto, Locations, Reading
    <3> QED BY <3>2, <3>3
  <2>2. readers' \in 0..(Word - 1) /\ writers' \in 0..(Word - 1)
    <3>1. readers \in Int /\ writers \in Int /\ readers - 1 \in Int /\ writers - 1 \in Int
      OBVIOUS
    <3> QED BY <1>9, <1>w, <3>1 DEF PipeClose
  <2>3. open' \subseteq Descriptors
    BY <1>9 DEF PipeClose
  <2>4. ref_count' \in [Ends -> Int]
    <3> DEFINE e == arg[t][2]
    <3>1. ref_count' = [ref_count EXCEPT ![e] = @ - 1]
      BY <1>9, Zenon DEF PipeClose
    <3>2. e \in Ends
      BY DEF Descriptors, NoDescriptor, Ends
    <3> HIDE DEF e
    <3> QED BY <3>1, <3>2
  <2>5. freed' \in BOOLEAN
    BY <1>9, Zenon DEF PipeClose
  <2> QED BY <1>9, <2>1, <2>2, <2>3, <2>4, <2>5 DEF PipeClose, SpinUnlock, rw
<1>10. ASSUME NEW t \in Tasks, ClearFd(t) PROVE EndsType'
  BY <1>10 DEF ClearFd, Goto, rw, Locations, Reading, Writing, Closing
<1>11. ASSUME NEW t \in Tasks, ReapClose(t) PROVE EndsType'
  <2>1. PICK d \in Descriptors : arg' = [arg EXCEPT ![t] = d]
    BY <1>11 DEF ReapClose, Fds
  <2> QED BY <1>11, <2>1 DEF ReapClose, Goto, counts, rw, Locations, Reading, Writing, Closing
<1>12. ASSUME NEW t \in Tasks, ReapEnd(t) PROVE EndsType'
  BY <1>12 DEF ReapEnd, Goto, counts, rw, Locations, Reading, Writing, Closing
<1>13. ASSUME NEW t \in Tasks, NEW e \in Ends, NEW k \in Counts, Call(t, e, k) PROVE EndsType'
  BY <1>13, PipeAssumption DEF Call, Goto, counts, reaping, Locations, Reading, Writing, Closing
<1>14. ASSUME NEW t \in Tasks, NEW u \in Tasks, Fork(t, u) PROVE EndsType'
  <2>1. ref_count' \in [Ends -> Int]
    <3> DEFINE n(e) == Cardinality({d \in Fds(t) : d[2] = e})
    <3>1. \A e \in Ends : n(e) \in Nat
      BY <1>o, Zenon
    <3>2. ref_count' = [e \in Ends |-> ref_count[e] + n(e)]
      BY <1>14, Zenon DEF Fork, Card
    <3> HIDE DEF n
    <3> QED BY <3>1, <3>2
  <2>2. open' \subseteq Descriptors
    BY <1>14 DEF Fork, Fds, Descriptors
  <2>3. readers' \in 0..(Word - 1) /\ writers' \in 0..(Word - 1)
    <3>1. Inherit(t, "r") \in Nat /\ Inherit(t, "w") \in Nat
      BY <1>o, Zenon DEF Inherit, Card
    <3>2. readers + Inherit(t, "r") \in Int /\ writers + Inherit(t, "w") \in Int
      BY <3>1
    <3> QED BY <1>14, <1>w, <3>2 DEF Fork
  <2> QED BY <1>14, <2>1, <2>2, <2>3 DEF Fork, Goto, rw, Locations, Reading, Writing, Closing
<1>15. ASSUME NEW t \in Tasks, NEW u \in Tasks, Reap(t, u) PROVE EndsType'
  BY <1>15 DEF Reap, counts, rw, Locations, Reading, Writing, Closing
<1>16. ASSUME NEW t \in Tasks, NEW d \in open, Close(t, d) PROVE EndsType'
  BY <1>16 DEF Close, Goto, counts, rw, Locations, Reading, Writing, Closing
<1>17. ASSUME NEW t \in Tasks, NEW d \in open, NEW s \in Slots, Dup(t, d, s) PROVE EndsType'
  <2>1. d[2] \in Ends /\ <<t, d[2], s>> \in Descriptors
    BY DEF Descriptors
  <2>2. ref_count' \in [Ends -> Int]
    BY <1>17, <2>1 DEF Dup
  <2>3. open' \subseteq Descriptors /\ dupped' \subseteq Ends
    BY <1>17, <2>1 DEF Dup
  <2> QED BY <1>17, <2>2, <2>3 DEF Dup, reaping, rw
<1>18. ASSUME NEW t \in Tasks, Exit(t) PROVE EndsType'
  BY <1>18 DEF Exit, Goto, Forget, counts, Locations, Reading, Writing, Closing
<1>19. CASE UNCHANGED vars
  BY <1>19 DEF vars, counts, reaping, rw
<1> QED
  BY <1>1, <1>2, <1>3, <1>4, <1>5, <1>6, <1>7, <1>8, <1>9, <1>10, <1>11, <1>12, <1>13, <1>14, <1>15, <1>16, <1>17, <1>18, <1>19
  DEF Next, KernelStep, Syscall

-----------------------------------------------------------------------------
(* Steps that leave the descriptors alone: locking, reading, writing, sleeping and
   waking.                                                                  *)
QuietMove(t) ==
    \/ pc'[t] = pc[t]
    \/ pc[t] \in Reading /\ pc'[t] \in Reading
    \/ pc[t] \in Writing /\ pc'[t] \in Writing
    \/ pc[t] \in Reading \cup Writing /\ pc'[t] = "user"
    \/ pc[t] = "close" /\ pc'[t] = "closing"

Quiet ==
    /\ UNCHANGED <<counts, arg, child>>
    /\ \A t \in Tasks : QuietMove(t)

QuietKernelStep(t) ==
    \/ Lock(t) \/ Sleep(t) \/ Awaken(t)
    \/ ReadWait(t) \/ ReadGo(t) \/ ReadByte(t) \/ ReadReturn(t)
    \/ WriteByte(t) \/ WriteBroken(t) \/ WriteWait(t) \/ WriteReturn(t)

LEMMA QuietSteps ==
  ASSUME EndsType, NEW t \in Tasks, QuietKernelStep(t)
  PROVE  Quiet
<1> USE DEF EndsType, Quiet, QuietMove, At, counts
<1>1. CASE Lock(t) \/ Sleep(t) \/ Awaken(t)
  BY <1>1 DEF Lock, Sleep, Awaken, Goto, Reading, Writing, reaping
<1>2. CASE ReadWait(t) \/ ReadGo(t) \/ ReadByte(t)
  BY <1>2 DEF ReadWait, ReadGo, ReadByte, Goto, Reading, reaping
<1>3. CASE ReadReturn(t)
  BY <1>3 DEF ReadReturn, WakeWritersAndGoto, Reading, Writing, reaping
<1>4. CASE WriteByte(t) \/ WriteBroken(t)
  BY <1>4 DEF WriteByte, WriteBroken, Goto, Writing, reaping
<1>5. CASE WriteWait(t) \/ WriteReturn(t)
  BY <1>5 DEF WriteWait, WriteReturn, WakeReadersAndGoto, Reading, Writing, reaping
<1> QED BY <1>1, <1>2, <1>3, <1>4, <1>5 DEF QuietKernelStep

(* A task holds the lock of the pipe while it is in the part that is locked. *)
LEMMA LockersStep == NobodyKilled /\ EndsShape /\ [Next]_vars => LockersHold'
<1> SUFFICES ASSUME NobodyKilled, EndsType, LockersHold, [Next]_vars PROVE LockersHold'
  BY DEF EndsShape
<1> USE PipeAssumption DEF EndsType, LockersHold, Locked, At
<1>1. ASSUME NEW t \in Tasks, Lock(t) PROVE LockersHold'
  BY <1>1 DEF Lock, Goto, SpinLock
<1>2. ASSUME NEW t \in Tasks, Sleep(t) \/ Awaken(t) PROVE LockersHold'
  BY <1>2 DEF Sleep, Awaken, Goto
<1>3. ASSUME NEW t \in Tasks, ReadWait(t) \/ ReadGo(t) \/ ReadByte(t) \/ WriteByte(t) \/ WriteBroken(t) PROVE LockersHold'
  BY <1>3 DEF ReadWait, ReadGo, ReadByte, WriteByte, WriteBroken, Goto, SpinUnlock
<1>4. ASSUME NEW t \in Tasks, ReadReturn(t) PROVE LockersHold'
  BY <1>4 DEF ReadReturn, WakeWritersAndGoto, SpinUnlock
<1>5. ASSUME NEW t \in Tasks, WriteWait(t) \/ WriteReturn(t) PROVE LockersHold'
  BY <1>5 DEF WriteWait, WriteReturn, WakeReadersAndGoto, SpinUnlock
<1>6. ASSUME NEW t \in Tasks, PipeClose(t) PROVE LockersHold'
  <2> DEFINE next == IF child[t] = None THEN "closed" ELSE "reap"
  <2>1. /\ pc[t] = "closing" /\ lock' = None
        /\ \/ WakeWritersAndGoto(t, next)
           \/ WakeReadersAndGoto(t, next)
    BY <1>6, Zenon DEF PipeClose, SpinUnlock
  <2>2. next \notin Locked
    BY DEF Locked
  <2> HIDE DEF next
  <2> QED BY <2>1, <2>2 DEF WakeWritersAndGoto, WakeReadersAndGoto
<1>7. ASSUME NEW t \in Tasks, ClearFd(t) \/ ReapClose(t) \/ ReapEnd(t) PROVE LockersHold'
  BY <1>7 DEF ClearFd, ReapClose, ReapEnd, Goto
<1>8. ASSUME NEW t \in Tasks, NEW e \in Ends, NEW n \in Counts, Call(t, e, n) PROVE LockersHold'
  BY <1>8 DEF Call, Goto
<1>9. ASSUME NEW t \in Tasks, NEW u \in Tasks, Fork(t, u) \/ Reap(t, u) PROVE LockersHold'
  BY <1>9 DEF Fork, Reap, Goto
<1>10. ASSUME NEW t \in Tasks, NEW d \in open, Close(t, d) PROVE LockersHold'
  BY <1>10 DEF Close, Goto
<1>11. ASSUME NEW t \in Tasks, NEW d \in open, NEW s \in Slots, Dup(t, d, s) PROVE LockersHold'
  BY <1>11 DEF Dup
<1>12. ASSUME NEW t \in Tasks, Exit(t) PROVE LockersHold'
  BY <1>12 DEF Exit, Goto, NobodyKilled
<1>13. CASE UNCHANGED vars
  BY <1>13 DEF vars
<1> QED
  BY <1>1, <1>2, <1>3, <1>4, <1>5, <1>6, <1>7, <1>8, <1>9, <1>10, <1>11, <1>12, <1>13
  DEF Next, KernelStep, Syscall

(* The rest of the shape.                                                   *)
EndsOwners == ClosersOwn /\ ReapersAlone /\ UsersHave /\ OneSlotEach /\ FreedUncounted

LEMMA OwnersQuiet ==
  ASSUME EndsShape, Quiet
  PROVE  EndsOwners'
<1> USE DEF EndsShape, EndsType, Quiet, QuietMove, counts
<1>1. ClosersOwn'
  BY DEF ClosersOwn, Closer, Reading, Writing
<1>2. ReapersAlone'
  BY DEF ReapersAlone, Reading, Writing
<1>3. UsersHave'
  BY DEF UsersHave, Reading, Writing, Fds
<1>4. OneSlotEach' /\ FreedUncounted'
  BY DEF OneSlotEach, FreedUncounted
<1> QED BY <1>1, <1>2, <1>3, <1>4 DEF EndsOwners

(* The reaper of a child, or the owner, calls pipe_close ...                *)
LEMMA OwnersCall ==
  ASSUME EndsShape, NEW t \in Tasks,
         \/ \E e \in Ends, n \in Counts : Call(t, e, n)
         \/ \E d \in open : Close(t, d)
         \/ ReapClose(t)
  PROVE  EndsOwners'
<1> USE PipeAssumption DEF EndsShape, EndsType, At, counts, Goto
<1>1. ASSUME NEW e \in Ends, NEW n \in Counts, Call(t, e, n) PROVE EndsOwners'
  BY <1>1 DEF Call, reaping, EndsOwners, ClosersOwn, Closer, ReapersAlone, UsersHave, Fds, OneSlotEach,
              FreedUncounted, Reading, Writing, Ends
<1>2. ASSUME NEW d \in open, Close(t, d) PROVE EndsOwners'
  BY <1>2 DEF Close, EndsOwners, ClosersOwn, Closer, ReapersAlone, UsersHave, Fds, OneSlotEach,
              FreedUncounted, Reading, Writing
<1>3. CASE ReapClose(t)
  <2>1. PICK d \in open : d[1] = child[t] /\ arg' = [arg EXCEPT ![t] = d]
    BY <1>3 DEF ReapClose, Fds
  <2> QED
    BY <1>3, <2>1 DEF ReapClose, EndsOwners, ClosersOwn, Closer, ReapersAlone, UsersHave, Fds, OneSlotEach,
              FreedUncounted, Reading, Writing
<1> QED BY <1>1, <1>2, <1>3

(* ... which counts the descriptor off, and clears it if its owner is gone;
   sys_close clears it after that.                                          *)
LEMMA OwnersClose ==
  ASSUME EndsShape, NEW t \in Tasks, PipeClose(t)
  PROVE  EndsOwners'
<1> DEFINE next == IF child[t] = None THEN "closed" ELSE "reap"
<1> USE PipeAssumption DEF EndsShape, EndsType
<1>1. /\ pc[t] = "closing" /\ ~freed
      /\ UNCHANGED <<arg, child, dupped>>
      /\ open' = IF child[t] = None THEN open ELSE open \ {arg[t]}
      /\ freed' => readers' = 0 /\ writers' = 0
      /\ \/ WakeWritersAndGoto(t, next)
         \/ WakeReadersAndGoto(t, next)
  BY Zenon DEF PipeClose, At, LastClose
<1>2. /\ pc'[t] = next
      /\ \A u \in Tasks \ {t} : QuietMove(u)
  <2> HIDE DEF next
  <2> QED BY <1>1 DEF WakeWritersAndGoto, WakeReadersAndGoto, QuietMove, Reading, Writing
<1>3. arg[t] \in open /\ arg[t][1] = Closer(t)
  BY <1>1 DEF ClosersOwn
<1>4. ClosersOwn'
  BY <1>1, <1>2, <1>3 DEF ClosersOwn, Closer, ReapersAlone, QuietMove, Reading, Writing
<1>5. ReapersAlone'
  BY <1>1, <1>2 DEF ReapersAlone, QuietMove, Reading, Writing
<1>6. UsersHave'
  BY <1>1, <1>2, <1>3 DEF UsersHave, Closer, ReapersAlone, QuietMove, Reading, Writing, Fds
<1>7. OneSlotEach' /\ FreedUncounted'
  BY <1>1 DEF OneSlotEach, FreedUncounted
<1> QED BY <1>4, <1>5, <1>6, <1>7 DEF EndsOwners

LEMMA OwnersClear ==
  ASSUME EndsShape, NEW t \in Tasks, ClearFd(t) \/ ReapEnd(t)
  PROVE  EndsOwners'
<1> USE PipeAssumption DEF EndsShape, EndsType, At, Goto, counts
<1>1. CASE ClearFd(t)
  <2>1. arg[t] \in open /\ arg[t][1] = t
    BY <1>1 DEF ClearFd, ClosersOwn, Closer
  <2>2. ClosersOwn'
    BY <1>1, <2>1 DEF ClearFd, ClosersOwn, Closer, ReapersAlone
  <2>3. UsersHave'
    BY <1>1, <2>1 DEF ClearFd, UsersHave, Reading, Writing, Fds
  <2> QED
    BY <1>1, <2>2, <2>3 DEF ClearFd, EndsOwners, ReapersAlone, OneSlotEach, FreedUncounted
<1>2. CASE ReapEnd(t)
  BY <1>2 DEF ReapEnd, EndsOwners, ClosersOwn, Closer, ReapersAlone, UsersHave, Fds, OneSlotEach,
              FreedUncounted, Reading, Writing
<1> QED BY <1>1, <1>2

LEMMA OwnersFork ==
  ASSUME EndsShape, NEW t \in Tasks, NEW u \in Tasks, Fork(t, u)
  PROVE  EndsOwners'
<1> USE PipeAssumption DEF EndsShape, EndsType
<1>1. /\ pc[t] = "user" /\ pc[u] = "none" /\ pc' = [pc EXCEPT ![u] = "user"] /\ ~freed
      /\ open' = open \cup {<<u, d[2], d[3]>> : d \in Fds(t)}
      /\ UNCHANGED <<freed, dupped, arg, child>>
  BY DEF Fork, At, Goto
<1>2. \A v \in Tasks : Fds(v) \subseteq Fds(v)'
  BY <1>1 DEF Fds
<1>3. \A v \in Tasks : v # u => Fds(v)' = Fds(v)
  BY <1>1 DEF Fds
<1>4. ClosersOwn'
  BY <1>1 DEF ClosersOwn, Closer
<1>5. ReapersAlone' /\ FreedUncounted'
  BY <1>1 DEF ReapersAlone, FreedUncounted
<1>6. UsersHave'
  BY <1>1, <1>2, <1>3 DEF UsersHave, Reading, Writing
<1>7. OneSlotEach'
  BY <1>1 DEF OneSlotEach, Fds
<1> QED BY <1>4, <1>5, <1>6, <1>7 DEF EndsOwners

LEMMA OwnersRest ==
  ASSUME EndsShape, NobodyKilled, NEW t \in Tasks,
         \/ \E u \in Tasks : Reap(t, u)
         \/ \E d \in open, s \in Slots : Dup(t, d, s)
         \/ Exit(t)
  PROVE  EndsOwners'
<1> USE PipeAssumption DEF EndsShape, EndsType, At, Goto, counts
<1>1. ASSUME NEW u \in Tasks, Reap(t, u) PROVE EndsOwners'
  <2>1. ReapersAlone'
    BY <1>1 DEF Reap, ReapersAlone
  <2>2. ClosersOwn'
    BY <1>1 DEF Reap, ClosersOwn, Closer, ReapersAlone
  <2> QED
    BY <1>1, <2>1, <2>2 DEF Reap, EndsOwners, UsersHave, Fds, OneSlotEach, FreedUncounted, Reading, Writing
<1>2. ASSUME NEW d \in open, NEW s \in Slots, Dup(t, d, s) PROVE EndsOwners'
  <2>1. \A v \in Tasks : Fds(v) \subseteq Fds(v)' /\ (v # t => Fds(v)' = Fds(v))
    BY <1>2 DEF Dup, Fds
  <2>2. UsersHave'
    BY <1>2, <2>1 DEF Dup, UsersHave, reaping
  <2>3. OneSlotEach'
    BY <1>2 DEF Dup, OneSlotEach
  <2> QED
    BY <1>2, <2>2, <2>3 DEF Dup, EndsOwners, ClosersOwn, Closer, ReapersAlone, FreedUncounted, reaping
<1>3. CASE Exit(t)
  BY <1>3 DEF NobodyKilled, Exit, Forget, EndsOwners, ClosersOwn, Closer, ReapersAlone, UsersHave, Fds,
              OneSlotEach, FreedUncounted, Reading, Writing
<1> QED BY <1>1, <1>2, <1>3

LEMMA ShapeStep == EndsShape /\ NobodyKilled /\ [Next]_vars => EndsShape'
<1> SUFFICES ASSUME EndsShape, NobodyKilled, [Next]_vars PROVE EndsShape'
  OBVIOUS
<1>1. EndsType' /\ LockersHold'
  BY EndsTypeStep, LockersStep DEF EndsShape
<1>2. EndsOwners'
  <2>1. ASSUME NEW t \in Tasks, QuietKernelStep(t) PROVE EndsOwners'
    BY <2>1, QuietSteps, OwnersQuiet DEF EndsShape
  <2>2. CASE UNCHANGED vars
    BY <2>2, OwnersQuiet DEF vars, reaping, Quiet, QuietMove
  <2>3. ASSUME NEW t \in Tasks, KernelStep(t) \/ Syscall(t) \/ Awaken(t) PROVE EndsOwners'
    BY <2>1, <2>3, OwnersCall, OwnersClose, OwnersClear, OwnersFork, OwnersRest
    DEF KernelStep, Syscall, QuietKernelStep
  <2> QED BY <2>2, <2>3 DEF Next
<1> QED BY <1>1, <1>2 DEF EndsShape, EndsOwners

-----------------------------------------------------------------------------
(* The counters.  The descriptors of an end that is not dupped are of different
   tasks, so that the counter does not wrap.                                *)
LEMMA LiveFinite ==
  ASSUME EndsType, NEW e
  PROVE  Live(e) \in SUBSET Descriptors /\ IsFiniteSet(Live(e)) /\ Cardinality(Live(e)) \in Nat
<1>1. Live(e) \in SUBSET Descriptors
  BY DEF Live, EndsType
<1> QED BY <1>1, DescriptorsFinite

LEMMA LiveSmall ==
  ASSUME EndsType, OneSlotEach, CountersSuffice, NEW e \in Ends, e \notin dupped
  PROVE  Cardinality(Live(e)) \in 0..(Word - 1)
<1> DEFINE f == [d \in Live(e) |-> d[1]]
<1>1. f \in [Live(e) -> Tasks]
  BY LiveFinite DEF Descriptors
<1>2. ASSUME NEW a \in Live(e), NEW b \in Live(e), f[a] = f[b] PROVE a = b
  <2>1. a \in Descriptors /\ b \in Descriptors /\ a[2] = e /\ b[2] = e /\ a[3] = 1 /\ b[3] = 1
    BY LiveFinite DEF Live, OneSlotEach
  <2>2. a[1] = b[1]
    BY <1>2
  <2> QED BY <2>1, <2>2 DEF Descriptors
<1>3. f \in Injection(Live(e), Tasks)
  BY <1>1, <1>2 DEF Injection, IsInjective
<1>4. Cardinality(Live(e)) <= Cardinality(Tasks)
  BY <1>3, FS_Injection, PipeAssumption
<1> QED BY <1>4, LiveFinite, WordFacts, FS_CardinalityType, PipeAssumption DEF CountersSuffice

CountersSmall == \A e \in Ends : e \notin dupped => Cardinality(Live(e)) \in 0..(Word - 1)

LEMMA SmallHolds ==
  ASSUME EndsShape, CountersSuffice
  PROVE  CountersSmall
  BY LiveSmall DEF EndsShape, CountersSmall

(* The descriptors that pipe_close has not been called for stay, are closed one by
   one, are dupped one by one, or come with a child.                        *)
LiveSame == \A e \in Ends : Live(e)' = Live(e)

LEMMA LiveQuiet ==
  ASSUME EndsShape, Quiet
  PROVE  LiveSame
  BY DEF EndsShape, EndsType, Quiet, QuietMove, counts, Reading, Writing, Live, LiveSame

LEMMA LiveCall ==
  ASSUME EndsShape, NobodyKilled, NEW t \in Tasks,
         \/ \E e \in Ends, n \in Counts : Call(t, e, n)
         \/ \E d \in open : Close(t, d)
         \/ \E u \in Tasks : Reap(t, u)
         \/ ReapClose(t) \/ ReapEnd(t) \/ Exit(t)
  PROVE  LiveSame /\ UNCHANGED <<readers, writers, ref_count, dupped>>
<1> USE DEF EndsShape, EndsType, At, Goto, counts, LiveSame
<1>1. ASSUME NEW e \in Ends, NEW n \in Counts, Call(t, e, n)
      PROVE  LiveSame /\ UNCHANGED <<readers, writers, ref_count, dupped>>
  BY <1>1 DEF Call, reaping, Live
<1>2. ASSUME NEW d \in open, Close(t, d)
      PROVE  LiveSame /\ UNCHANGED <<readers, writers, ref_count, dupped>>
  BY <1>2 DEF Close, Live
<1>3. ASSUME NEW u \in Tasks, Reap(t, u)
      PROVE  LiveSame /\ UNCHANGED <<readers, writers, ref_count, dupped>>
  BY <1>3 DEF Reap, Live
<1>4. CASE ReapClose(t)
  BY <1>4 DEF ReapClose, Live
<1>5. CASE ReapEnd(t)
  BY <1>5 DEF ReapEnd, Live
<1>6. CASE Exit(t)
  BY <1>6 DEF Exit, Forget, NobodyKilled, Live
<1> QED BY <1>1, <1>2, <1>3, <1>4, <1>5, <1>6

LEMMA LiveClear ==
  ASSUME EndsShape, NEW t \in Tasks, ClearFd(t)
  PROVE  LiveSame /\ UNCHANGED <<readers, writers, ref_count, dupped>>
<1> USE DEF EndsShape, EndsType
<1>1. /\ pc[t] = "closed" /\ pc' = [pc EXCEPT ![t] = "user"]
      /\ open' = open \ {arg[t]} /\ arg' = [arg EXCEPT ![t] = NoDescriptor]
      /\ UNCHANGED <<readers, writers, ref_count, dupped>>
  BY DEF ClearFd, At, Goto
<1>2. arg[t] \in open /\ arg[t][1] = t
  BY <1>1 DEF ClosersOwn, Closer
<1>3. ASSUME NEW e \in Ends, NEW d PROVE d \in Live(e) <=> d \in Live(e)'
  <2>1. CASE d = arg[t]
    BY <1>1, <2>1 DEF Live
  <2>2. CASE d # arg[t]
    BY <1>1, <2>2 DEF Live
  <2> QED BY <2>1, <2>2
<1> QED BY <1>1, <1>3 DEF LiveSame

(* A closed descriptor is one less, wherever its owner is.                  *)
LEMMA LiveClose ==
  ASSUME EndsShape, NEW t \in Tasks, PipeClose(t)
  PROVE  /\ arg[t][2] \in Ends /\ arg[t] \in Live(arg[t][2])
         /\ \A e \in Ends : Live(e)' = Live(e) \ {arg[t]}
<1> DEFINE next == IF child[t] = None THEN "closed" ELSE "reap"
<1> USE PipeAssumption DEF EndsShape, EndsType
<1>1. /\ pc[t] = "closing" /\ arg' = arg
      /\ open' = IF child[t] = None THEN open ELSE open \ {arg[t]}
      /\ \/ WakeWritersAndGoto(t, next)
         \/ WakeReadersAndGoto(t, next)
  BY Zenon DEF PipeClose, At
<1>2. /\ pc'[t] = next
      /\ \A u \in Tasks \ {t} : pc'[u] = "closed" <=> pc[u] = "closed"
  <2> HIDE DEF next
  <2> QED BY <1>1 DEF WakeWritersAndGoto, WakeReadersAndGoto
<1>3. /\ arg[t] \in open /\ arg[t][1] = Closer(t) /\ arg[t][2] \in Ends
      /\ \A u \in Tasks : pc[u] = "closed" => arg[u] \in open /\ arg[u][1] = u
  BY <1>1 DEF ClosersOwn, Closer, Descriptors
<1>4. \A u \in Tasks : pc[u] = "closed" => arg[u] # arg[t]
  BY <1>1, <1>3 DEF ClosersOwn, Closer, ReapersAlone
<1>5. arg[t] \in Live(arg[t][2])
  BY <1>3, <1>4 DEF Live
<1>6. ASSUME NEW e \in Ends, NEW d PROVE d \in Live(e)' <=> d \in Live(e) /\ d # arg[t]
  <2>1. CASE child[t] = None
    BY <1>1, <1>2, <2>1 DEF Live
  <2>2. CASE child[t] # None
    BY <1>1, <1>2, <2>2 DEF Live
  <2> QED BY <2>1, <2>2
<1> QED BY <1>3, <1>5, <1>6

LEMMA LiveDup ==
  ASSUME EndsShape, NEW t \in Tasks, NEW d \in open, NEW s \in Slots, Dup(t, d, s)
  PROVE  /\ d[2] \in Ends /\ <<t, d[2], s>> \notin Live(d[2])
         /\ \A e \in Ends : Live(e)' = IF e = d[2] THEN Live(e) \cup {<<t, d[2], s>>} ELSE Live(e)
<1> USE DEF EndsShape, EndsType
<1>1. /\ pc[t] = "user" /\ open' = open \cup {<<t, d[2], s>>} /\ <<t, d[2], s>> \notin open
      /\ UNCHANGED <<pc, arg>>
  BY DEF Dup, At, reaping
<1>2. d[2] \in Ends
  BY DEF Descriptors
<1>3. \A u \in Tasks : pc[u] = "closed" => arg[u] # <<t, d[2], s>>
  BY <1>1 DEF ClosersOwn
<1>4. ASSUME NEW e \in Ends, NEW x
      PROVE  x \in Live(e)' <=> x \in Live(e) \/ (e = d[2] /\ x = <<t, d[2], s>>)
  <2>1. CASE x = <<t, d[2], s>>
    <3>1. x[2] = d[2] /\ x \in open' /\ x \notin open
      BY <1>1, <2>1
    <3> QED BY <1>1, <1>3, <2>1, <3>1 DEF Live
  <2>2. CASE x # <<t, d[2], s>>
    BY <1>1, <2>2 DEF Live
  <2> QED BY <2>1, <2>2
<1> QED BY <1>1, <1>2, <1>4 DEF Live

(* A child gets as many as its parent has.                                  *)
LEMMA LiveFork ==
  ASSUME EndsShape, NEW t \in Tasks, NEW u \in Tasks, Fork(t, u), NEW e \in Ends
  PROVE  Cardinality(Live(e)') = Cardinality(Live(e)) + Inherit(t, e)
<1> USE DEF EndsShape, EndsType
<1> DEFINE Had == {d \in Fds(t) : d[2] = e}
           Gets == {<<u, d[2], d[3]>> : d \in Had}
           f == [d \in Had |-> <<u, d[2], d[3]>>]
<1>1. /\ pc[u] = "none" /\ pc' = [pc EXCEPT ![u] = "user"] /\ arg' = arg
      /\ open' = open \cup {<<u, d[2], d[3]>> : d \in Fds(t)}
  BY DEF Fork, Goto
<1>2. \A d \in open : d[1] # u
  BY <1>1 DEF UsersHave, Fds
<1>3. Had \in SUBSET Descriptors /\ \A d \in Had : d[1] = t /\ d[2] = e
  BY DEF Fds
<1>4. f \in Bijection(Had, Gets)
  <2>1. f \in [Had -> Gets]
    OBVIOUS
  <2>2. ASSUME NEW a \in Had, NEW b \in Had, f[a] = f[b] PROVE a = b
    BY <1>3, <2>2 DEF Descriptors
  <2>3. \A y \in Gets : \E x \in Had : f[x] = y
    OBVIOUS
  <2> QED BY <2>1, <2>2, <2>3 DEF Bijection, Injection, Surjection, IsInjective
<1>5. IsFiniteSet(Had) /\ IsFiniteSet(Gets) /\ Cardinality(Gets) = Cardinality(Had)
  <2>1. IsFiniteSet(Had)
    BY <1>3, DescriptorsFinite
  <2>2. ExistsBijection(Had, Gets)
    BY <1>4 DEF ExistsBijection
  <2> QED BY <2>1, <2>2, FS_Bijection
<1>6. \A d \in Gets : d[1] = u /\ d[2] = e
  BY <1>3
<1>7. Live(e)' = Live(e) \cup Gets
  <2>1. ASSUME NEW x \in Live(e)' PROVE x \in Live(e) \cup Gets
    <3>1. x \in open' /\ x[2] = e
      BY DEF Live
    <3>2. CASE x \in open
      BY <1>1, <3>1, <3>2 DEF Live
    <3>3. CASE x \notin open
      BY <1>1, <3>1, <3>3
    <3> QED BY <3>2, <3>3
  <2>2. ASSUME NEW x \in Live(e) PROVE x \in Live(e)'
    BY <1>1 DEF Live
  <2>3. ASSUME NEW x \in Gets PROVE x \in Live(e)'
    <3>1. x \in open' /\ x[2] = e /\ x \notin open
      BY <1>1, <1>2, <1>6
    <3>2. \A v \in Tasks : pc'[v] = "closed" => arg'[v] # x
      BY <1>1, <3>1 DEF ClosersOwn
    <3> QED BY <3>1, <3>2 DEF Live
  <2> QED BY <2>1, <2>2, <2>3
<1>8. Live(e) \cap Gets = {}
  BY <1>2, <1>6 DEF Live
<1>9. Cardinality(Live(e) \cup Gets) = Cardinality(Live(e)) + Cardinality(Gets) - 0
  BY <1>5, <1>8, LiveFinite, FS_Union, FS_EmptySet
<1>10. Cardinality(Live(e)) \in Nat /\ Cardinality(Had) \in Nat
  BY <1>5, LiveFinite, FS_CardinalityType
<1> QED BY <1>5, <1>7, <1>9, <1>10 DEF Inherit, Card

CountsInv == NodeRefs /\ CountsMatch

LEMMA CountsSame ==
  ASSUME CountsInv, LiveSame, UNCHANGED <<readers, writers, ref_count, dupped>>
  PROVE  CountsInv'
<1>1. Live("r")' = Live("r") /\ Live("w")' = Live("w")
  BY DEF LiveSame, Ends
<1>2. NodeRefs'
  BY DEF CountsInv, NodeRefs, LiveSame, Card
<1>3. CountsMatch'
  BY <1>1 DEF CountsInv, CountsMatch, Card
<1> QED BY <1>2, <1>3 DEF CountsInv

LEMMA CountsFork ==
  ASSUME EndsShape, EndsShape', CountersSuffice, CountsInv,
         NEW t \in Tasks, NEW u \in Tasks, Fork(t, u)
  PROVE  CountsInv'
<1> DEFINE n(e) == Cardinality(Live(e)')
<1>1. \A e \in Ends : n(e) = Cardinality(Live(e)) + Inherit(t, e)
  BY LiveFork
<1>2. dupped' = dupped
  BY DEF Fork
<1>3. \A e \in Ends : e \notin dupped => n(e) \in 0..(Word - 1)
  <2>1. CountersSmall'
    BY SmallHolds, PTL
  <2> QED BY <1>2, <2>1 DEF CountersSmall
<1>4. NodeRefs'
  BY <1>1 DEF Fork, CountsInv, NodeRefs, Card, Inherit
<1>5. CountsMatch'
  <2> HIDE DEF n
  <2>1. ASSUME "r" \notin dupped PROVE readers' = n("r")
    BY <1>1, <1>3, <2>1, ModNear, WordFacts DEF Fork, CountsInv, CountsMatch, Card, Ends
  <2>2. ASSUME "w" \notin dupped PROVE writers' = n("w")
    BY <1>1, <1>3, <2>2, ModNear, WordFacts DEF Fork, CountsInv, CountsMatch, Card, Ends
  <2> QED BY <1>2, <2>1, <2>2 DEF n, CountsMatch, Card
<1> QED BY <1>4, <1>5 DEF CountsInv

LEMMA CountsDup ==
  ASSUME EndsShape, CountsInv, NEW t \in Tasks, NEW d \in open, NEW s \in Slots, Dup(t, d, s)
  PROVE  CountsInv'
<1>1. \A e \in Ends : Cardinality(Live(e)') =
          IF e = d[2] THEN Cardinality(Live(e)) + 1 ELSE Cardinality(Live(e))
  <2>1. Cardinality(Live(d[2]) \cup {<<t, d[2], s>>}) = Cardinality(Live(d[2])) + 1
    <3>1. PICK n : n = <<t, d[2], s>>
      OBVIOUS
    <3>2. IsFiniteSet(Live(d[2])) /\ n \notin Live(d[2])
      BY <3>1, LiveDup, LiveFinite, Zenon DEF EndsShape
    <3> QED BY <3>1, <3>2, FS_AddElement, Zenon
  <2> QED BY <2>1, LiveDup
<1>2. NodeRefs'
  BY <1>1, LiveDup DEF Dup, CountsInv, NodeRefs, Card, EndsShape, EndsType
<1>3. CountsMatch'
  BY <1>1 DEF Dup, CountsInv, CountsMatch, Card, Ends
<1> QED BY <1>2, <1>3 DEF CountsInv

LEMMA CountsClose ==
  ASSUME EndsShape, CountersSuffice, CountsInv, NEW t \in Tasks, PipeClose(t)
  PROVE  CountsInv'
<1>1. PICK x \in Ends : x = arg[t][2]
  BY LiveClose
<1>2. \A e \in Ends : Cardinality(Live(e)') =
          IF e = x THEN Cardinality(Live(e)) - 1 ELSE Cardinality(Live(e))
  <2>1. ASSUME NEW e \in Ends PROVE arg[t] \in Live(e) <=> e = x
    BY <1>1, LiveClose DEF Live
  <2> QED BY <1>1, <2>1, LiveClose, LiveFinite, FS_RemoveElement DEF EndsShape
<1>3. Cardinality(Live(x)) \in Nat \ {0}
  BY <1>1, LiveClose, LiveFinite, FS_EmptySet DEF EndsShape
<1>4. NodeRefs'
  <2>1. ref_count' = [ref_count EXCEPT ![x] = @ - 1]
    BY <1>1, Zenon DEF PipeClose
  <2> QED BY <1>2, <2>1 DEF CountsInv, NodeRefs, Card, EndsShape, EndsType
<1>5. CountsMatch'
  <2>1. /\ readers' = (IF x = "r" THEN readers - 1 ELSE readers) % Word
        /\ writers' = (IF x = "w" THEN writers - 1 ELSE writers) % Word
        /\ dupped' = dupped
    BY <1>1, Zenon DEF PipeClose
  <2>2. ASSUME "r" \notin dupped PROVE readers' = Cardinality(Live("r")')
    BY <1>2, <1>3, <2>1, <2>2, LiveSmall, ModNear, WordFacts DEF CountsInv, CountsMatch, Card, Ends, EndsShape
  <2>3. ASSUME "w" \notin dupped PROVE writers' = Cardinality(Live("w")')
    BY <1>2, <1>3, <2>1, <2>3, LiveSmall, ModNear, WordFacts DEF CountsInv, CountsMatch, Card, Ends, EndsShape
  <2> QED BY <2>1, <2>2, <2>3 DEF CountsMatch, Card
<1> QED BY <1>4, <1>5 DEF CountsInv

LEMMA CountsStep ==
  ASSUME EndsShape, EndsShape', NobodyKilled, CountersSuffice, CountsInv, [Next]_vars
  PROVE  CountsInv'
<1>1. ASSUME Quiet PROVE CountsInv'
  BY <1>1, LiveQuiet, CountsSame DEF Quiet, counts
<1>2. CASE UNCHANGED vars
  BY <1>1, <1>2 DEF vars, reaping, Quiet, QuietMove
<1>3. ASSUME NEW t \in Tasks, KernelStep(t) \/ Syscall(t) \/ Awaken(t) PROVE CountsInv'
  <2>1. CASE QuietKernelStep(t)
    BY <1>1, <2>1, QuietSteps DEF EndsShape
  <2>2. ASSUME LiveSame, UNCHANGED <<readers, writers, ref_count, dupped>> PROVE CountsInv'
    BY <2>2, CountsSame
  <2> QED
    BY <1>3, <2>1, <2>2, LiveCall, LiveClear, CountsFork, CountsDup, CountsClose
    DEF KernelStep, Syscall, QuietKernelStep
<1> QED BY <1>2, <1>3 DEF Next

-----------------------------------------------------------------------------
(* End of file.  A reader copies, under the lock, after it has seen that there is
   something to read or that nobody writes.  The number of writers may change
   while it copies, but not from none.                                      *)
EndsEof ==
    \A t \in Tasks : pc[t] = "copy" /\ i[t] = 0 /\ size[t] > 0 /\ Empty /\ "w" \notin dupped => Live("w") = {}

LEMMA NoneStaysNone ==
  ASSUME EndsShape, NobodyKilled, [Next]_vars, Live("w") = {}, "w" \notin dupped'
  PROVE  Live("w")' = {}
<1>e. "w" \in Ends
  BY DEF Ends
<1>1. ASSUME LiveSame PROVE Live("w")' = {}
  BY <1>1, <1>e DEF LiveSame
<1>2. ASSUME Quiet PROVE Live("w")' = {}
  BY <1>1, <1>2, LiveQuiet
<1>3. ASSUME NEW t \in Tasks, NEW u \in Tasks, Fork(t, u) PROVE Live("w")' = {}
  <2>1. {d \in Fds(t) : d[2] = "w"} = {}
    <3>1. ASSUME NEW d \in Fds(t), d[2] = "w" PROVE d \in Live("w")
      BY <1>3, <3>1 DEF Fork, At, Fds, Live, EndsShape, ClosersOwn, Closer
    <3> QED BY <3>1
  <2>2. Cardinality(Live("w")') = 0
    BY <1>3, <1>e, <2>1, LiveFork, FS_EmptySet DEF Inherit, Card
  <2>3. EndsType'
    BY EndsTypeStep DEF EndsShape
  <2>4. IsFiniteSet(Live("w")')
    BY <2>3, DescriptorsFinite DEF Live, EndsType
  <2> QED BY <2>2, <2>4, FS_EmptySet
<1>4. ASSUME NEW t \in Tasks, NEW d \in open, NEW s \in Slots, Dup(t, d, s) PROVE Live("w")' = {}
  <2>1. d[2] # "w"
    BY <1>4 DEF Dup
  <2> QED BY <1>4, <1>e, <2>1, LiveDup
<1>5. ASSUME NEW t \in Tasks, PipeClose(t) PROVE Live("w")' = {}
  BY <1>5, <1>e, LiveClose
<1>6. CASE UNCHANGED vars
  BY <1>2, <1>6 DEF vars, reaping, Quiet, QuietMove
<1>7. ASSUME NEW t \in Tasks, KernelStep(t) \/ Syscall(t) \/ Awaken(t) PROVE Live("w")' = {}
  <2>1. CASE QuietKernelStep(t)
    BY <1>2, <2>1, QuietSteps DEF EndsShape
  <2> QED
    BY <1>1, <1>3, <1>4, <1>5, <1>7, <2>1, LiveCall, LiveClear
    DEF KernelStep, Syscall, QuietKernelStep
<1> QED BY <1>6, <1>7 DEF Next

(* Nobody else touches the ring while a reader copies.                      *)
Copies(t) == pc[t] = "copy" /\ i[t] = 0 /\ Empty

LEMMA CopyStep ==
  ASSUME EndsShape, NobodyKilled, [Next]_vars, NEW t \in Tasks, Copies(t)'
  PROVE  \/ Copies(t) /\ size'[t] = size[t]
         \/ ReadGo(t)
<1> USE DEF EndsShape, EndsType, Copies, At, Goto, Empty
<1> DEFINE Goal == (Copies(t) /\ size'[t] = size[t]) \/ ReadGo(t)
<1>1. ASSUME NEW u \in Tasks, Lock(u) \/ Sleep(u) \/ Awaken(u) PROVE Goal
  BY <1>1 DEF Lock, Sleep, Awaken, ring, rw
<1>2. ASSUME NEW u \in Tasks, ReadWait(u) PROVE Goal
  BY <1>2 DEF ReadWait, ring, rw
<1>3. ASSUME NEW u \in Tasks, ReadGo(u) PROVE Goal
  BY <1>3 DEF ReadGo, ring, rw
<1>4. ASSUME NEW u \in Tasks, ReadByte(u) PROVE Goal
  BY <1>4 DEF ReadByte, LockersHold, Locked
<1>5. ASSUME NEW u \in Tasks, WriteByte(u) PROVE Goal
  BY <1>5 DEF WriteByte, LockersHold, Locked
<1>6. ASSUME NEW u \in Tasks, ReadReturn(u) PROVE Goal
  BY <1>6 DEF ReadReturn, WakeWritersAndGoto, Forget, ring
<1>7. ASSUME NEW u \in Tasks, WriteBroken(u) \/ WriteWait(u) \/ WriteReturn(u) PROVE Goal
  BY <1>7 DEF WriteBroken, WriteWait, WriteReturn, WakeReadersAndGoto, Forget, ring, rw
<1>8. ASSUME NEW u \in Tasks, PipeClose(u) PROVE Goal
  <2> DEFINE next == IF child[u] = None THEN "closed" ELSE "reap"
  <2>1. /\ UNCHANGED <<ring, rw>>
        /\ \/ WakeWritersAndGoto(u, next)
           \/ WakeReadersAndGoto(u, next)
    BY <1>8, Zenon DEF PipeClose
  <2>2. next # "copy"
    OBVIOUS
  <2> HIDE DEF next
  <2> QED BY <2>1, <2>2 DEF WakeWritersAndGoto, WakeReadersAndGoto, ring, rw
<1>9. ASSUME NEW u \in Tasks, ClearFd(u) \/ ReapClose(u) \/ ReapEnd(u) PROVE Goal
  BY <1>9 DEF ClearFd, ReapClose, ReapEnd, ring, rw
<1>10. ASSUME NEW u \in Tasks, NEW e \in Ends, NEW n \in Counts, Call(u, e, n) PROVE Goal
  BY <1>10 DEF Call, ring
<1>11. ASSUME NEW u \in Tasks, NEW v \in Tasks, Fork(u, v) \/ Reap(u, v) PROVE Goal
  BY <1>11 DEF Fork, Reap, ring, rw
<1>12. ASSUME NEW u \in Tasks, NEW d \in open, Close(u, d) PROVE Goal
  BY <1>12 DEF Close, ring, rw
<1>13. ASSUME NEW u \in Tasks, NEW d \in open, NEW s \in Slots, Dup(u, d, s) PROVE Goal
  BY <1>13 DEF Dup, ring, rw
<1>14. ASSUME NEW u \in Tasks, Exit(u) PROVE Goal
  BY <1>14 DEF Exit, Forget, ring
<1>15. CASE UNCHANGED vars
  BY <1>15 DEF vars, ring, rw
<1> QED
  BY <1>1, <1>2, <1>3, <1>4, <1>5, <1>6, <1>7, <1>8, <1>9, <1>10, <1>11, <1>12, <1>13, <1>14, <1>15
  DEF Next, KernelStep, Syscall

LEMMA EofStep ==
  ASSUME EndsShape, NobodyKilled, CountersSuffice, CountsInv, EndsEof, [Next]_vars
  PROVE  EndsEof'
<1> SUFFICES ASSUME NEW t \in Tasks, Copies(t)', size'[t] > 0, "w" \notin dupped'
             PROVE  Live("w")' = {}
  BY DEF EndsEof, Copies
<1>1. "w" \notin dupped
  <2>1. ASSUME NEW u \in Tasks, KernelStep(u) PROVE dupped' = dupped
    <3>1. CASE Lock(u) \/ Sleep(u) \/ ReadWait(u) \/ ReadGo(u) \/ ReadByte(u) \/ ReadReturn(u)
      BY <3>1 DEF Lock, Sleep, ReadWait, ReadGo, ReadByte, ReadReturn, counts
    <3>2. CASE WriteByte(u) \/ WriteBroken(u) \/ WriteWait(u) \/ WriteReturn(u)
      BY <3>2 DEF WriteByte, WriteBroken, WriteWait, WriteReturn, counts
    <3>3. CASE PipeClose(u) \/ ClearFd(u) \/ ReapClose(u) \/ ReapEnd(u)
      BY <3>3 DEF PipeClose, ClearFd, ReapClose, ReapEnd, counts
    <3> QED BY <2>1, <3>1, <3>2, <3>3 DEF KernelStep
  <2>2. ASSUME NEW u \in Tasks, Syscall(u) PROVE dupped \subseteq dupped'
    <3>1. CASE \E e \in Ends, n \in Counts : Call(u, e, n)
      BY <3>1 DEF Call, counts
    <3>2. CASE \E v \in Tasks : Fork(u, v) \/ Reap(u, v)
      BY <3>2 DEF Fork, Reap, counts
    <3>3. CASE \E d \in open : Close(u, d)
      BY <3>3 DEF Close, counts
    <3>4. CASE \E d \in open, s \in Slots : Dup(u, d, s)
      BY <3>4 DEF Dup
    <3>5. CASE Exit(u)
      BY <3>5 DEF Exit, counts
    <3> QED BY <2>2, <3>1, <3>2, <3>3, <3>4, <3>5 DEF Syscall
  <2>3. ASSUME NEW u \in Tasks, Awaken(u) PROVE dupped' = dupped
    BY <2>3 DEF Awaken, counts
  <2>4. CASE UNCHANGED vars
    BY <2>4 DEF vars, counts
  <2>5. ASSUME Next PROVE dupped \subseteq dupped'
    <3>1. PICK u \in Tasks : KernelStep(u) \/ Syscall(u) \/ Awaken(u)
      BY <2>5, Zenon DEF Next
    <3> QED BY <3>1, <2>1, <2>2, <2>3
  <2> QED BY <2>4, <2>5
<1>2. CASE Copies(t) /\ size'[t] = size[t]
  BY <1>1, <1>2, NoneStaysNone DEF EndsEof, Copies
<1>3. CASE ReadGo(t)
  <2>1. Empty /\ ~MustWait
    BY <1>3 DEF ReadGo, Copies, Empty, ring
  <2>2. Cardinality(Live("w")) = 0
    BY <1>1, <2>1, LiveFinite DEF MustWait, CountsInv, CountsMatch, Card, EndsShape, EndsType
  <2>3. Live("w") = {}
    BY <2>2, LiveFinite, FS_EmptySet DEF EndsShape
  <2> QED BY <2>3, NoneStaysNone
<1> QED BY <1>2, <1>3, CopyStep

-----------------------------------------------------------------------------
EndsInv == EndsShape /\ CountsInv /\ EndsEof

LEMMA EndsInit ==
  ASSUME Init
  PROVE  EndsInv
<1> USE PipeAssumption, WordFacts DEF Init
<1>1. EndsType
  <2>1. \A e \in Ends : <<Creator, e, 1>> \in Descriptors
    BY DEF Descriptors
  <2>2. open \subseteq Descriptors
    BY <2>1
  <2>3. readers \in 0..(Word - 1) /\ writers \in 0..(Word - 1)
    OBVIOUS
  <2>4. pc \in [Tasks -> Locations]
    BY DEF Locations
  <2>5. ref_count \in [Ends -> Int] /\ dupped \subseteq Ends
    OBVIOUS
  <2>6. /\ lock \in Tasks \cup {None} /\ held \in Tasks \cup {None}
        /\ freed \in BOOLEAN
        /\ parent \in [Tasks -> Tasks \cup {None}] /\ child \in [Tasks -> Tasks \cup {None}]
    OBVIOUS
  <2>7. size \in [Tasks -> Nat] /\ i \in [Tasks -> Nat]
    OBVIOUS
  <2>8. arg \in [Tasks -> Descriptors \cup {NoDescriptor}]
    OBVIOUS
  <2> QED BY ONLY <2>2, <2>3, <2>4, <2>5, <2>6, <2>7, <2>8 DEF EndsType
<1>2. EndsShape
  BY <1>1 DEF EndsShape, ClosersOwn, ReapersAlone, UsersHave, Fds, LockersHold, Locked, OneSlotEach,
              FreedUncounted, Reading, Writing, Ends
<1>3. CountsInv
  <2>1. \A e \in Ends : Live(e) = {<<Creator, e, 1>>}
    BY DEF Live
  <2>2. \A x : Cardinality({x}) = 1
    BY FS_Singleton
  <2>3. \A e \in Ends : Cardinality(Live(e)) = 1
    BY <2>1, <2>2
  <2> QED BY <2>3 DEF CountsInv, NodeRefs, CountsMatch, Card, Ends
<1>4. EndsEof
  BY DEF EndsEof
<1> QED BY <1>2, <1>3, <1>4 DEF EndsInv

LEMMA EndsStep ==
  ASSUME NobodyKilled, CountersSuffice
  PROVE  EndsInv /\ [Next]_vars => EndsInv'
<1> SUFFICES ASSUME EndsInv, [Next]_vars PROVE EndsInv'
  OBVIOUS
<1>1. EndsShape'
  BY ShapeStep DEF EndsInv
<1> QED BY <1>1, CountsStep, EofStep DEF EndsInv

(* A freed pipe has no descriptor left, and whoever is in one of its functions
   would have one.                                                          *)
LEMMA FreedUnused ==
  ASSUME EndsInv
  PROVE  NoUseAfterFree
<1> USE DEF EndsInv, EndsShape, EndsType
<1> SUFFICES ASSUME freed, dupped = {}
             PROVE  /\ \A e \in Ends : Live(e) = {}
                    /\ \A t \in Tasks : pc[t] \notin Reading \cup Writing \cup {"close", "closing"}
  BY DEF NoUseAfterFree
<1>1. \A e \in Ends : Live(e) = {}
  <2>1. \A e \in Ends : Cardinality(Live(e)) = 0
    BY DEF FreedUncounted, CountsInv, CountsMatch, Card, Ends
  <2> QED BY <2>1, LiveFinite, FS_EmptySet
<1>2. ASSUME NEW d \in open PROVE \E u \in Tasks : pc[u] = "closed" /\ arg[u] = d /\ d[1] = u
  <2>1. d \notin Live(d[2]) /\ d[2] \in Ends
    BY <1>1 DEF Descriptors
  <2>2. PICK u \in Tasks : pc[u] = "closed" /\ arg[u] = d
    BY <2>1 DEF Live
  <2> QED BY <2>2 DEF ClosersOwn, Closer
<1>3. ASSUME NEW t \in Tasks, pc[t] \in Reading \cup Writing PROVE FALSE
  <2>1. PICK d \in open : d[1] = t
    BY <1>3 DEF UsersHave, Fds
  <2> QED BY <1>2, <1>3, <2>1 DEF Reading, Writing
<1>4. ASSUME NEW t \in Tasks, pc[t] \in {"close", "closing"} PROVE FALSE
  <2>1. arg[t] \in open /\ arg[t][1] = Closer(t)
    BY <1>4 DEF ClosersOwn
  <2>2. PICK u \in Tasks : pc[u] = "closed" /\ Closer(t) = u
    BY <1>2, <2>1
  <2> QED BY <1>4, <2>2, PipeAssumption DEF Closer, ReapersAlone
<1> QED BY <1>1, <1>3, <1>4

(* The counters of a pipe and the references of its nodes are the descriptors left,
   and it is freed after its last use: for any number of tasks that fork, exit,
   are reaped, and close what they have in any order.                       *)
THEOREM EndsCounted ==
  ASSUME NobodyKilled, CountersSuffice
  PROVE  Spec => []EndsSafety
<1>1. Init => RingInv /\ EndsInv
  BY RingInit, EndsInit
<1>2. RingInv /\ EndsInv /\ [Next]_vars => RingInv' /\ EndsInv'
  BY RingInductive, EndsStep
<1>3. RingInv /\ EndsInv => EndsSafety
  <2> SUFFICES ASSUME RingInv, EndsInv PROVE EndsSafety
    OBVIOUS
  <2>1. TypeOK
    BY DEF RingInv, RingType, Positions, EndsInv, EndsShape, EndsType, TypeOK
  <2> QED BY <2>1, FreedUnused DEF EndsSafety, EndsInv, CountsInv
<1> QED BY <1>1, <1>2, <1>3, PTL DEF Spec

(* read() says end-of-file only when nobody is left who could write, and write()
   gives up only when nobody is left who could read.                        *)
THEOREM EofOnlyWhenAlone ==
  ASSUME NobodyKilled, CountersSuffice
  PROVE  Spec => EofMeansNoPeer
<1>1. EndsInv => NoPeerAtEof
  <2> SUFFICES ASSUME EndsInv, NEW t \in Tasks
               PROVE  /\ ReadReturn(t) /\ i[t] = 0 /\ size[t] > 0 /\ "w" \notin dupped => Live("w") = {}
                      /\ WriteBroken(t) /\ "r" \notin dupped => Live("r") = {}
    BY DEF NoPeerAtEof
  <2>1. ASSUME ReadReturn(t), i[t] = 0, size[t] > 0, "w" \notin dupped PROVE Live("w") = {}
    BY <2>1 DEF ReadReturn, At, EndsInv, EndsEof
  <2>2. ASSUME WriteBroken(t), "r" \notin dupped PROVE Live("r") = {}
    <3>1. Cardinality(Live("r")) = 0
      BY <2>2 DEF WriteBroken, EndsInv, CountsInv, CountsMatch, Card
    <3> QED BY <3>1, LiveFinite, FS_EmptySet DEF EndsInv, EndsShape
  <2> QED BY <2>1, <2>2
<1> QED BY <1>1, EndsInit, EndsStep, PTL DEF Spec, EofMeansNoPeer
=============================================================================
