----------------------------- MODULE CofsProofs -----------------------------
(***************************************************************************)
(* The blocks of cofs files, for any number of files and blocks and every  *)
(* size of inode, indirect block and block: the bitmap is exact, no block  *)
(* has two places, a file between calls holds the blocks its size needs,   *)
(* and every byte is found where it was written, in any interleaving of    *)
(* reads, writes and truncations of different files.                       *)
(*                                                                         *)
(* The invariant is in two parts.  Sound(fs) is about the whole file       *)
(* system: the bitmap has exactly the blocks that some slot holds, each    *)
(* held once.  FileInv is about one file and the call that works on it:    *)
(* which of its blocks are there, which bytes are known, whether the inode *)
(* on disk has been saved.  A step of a call on one file is shown to keep  *)
(* both, and to leave what is seen of every other file as it was.          *)
(***************************************************************************)
EXTENDS CofsBlocks, NatLemmas

(* Slots: places in inodes and in blocks that hold block numbers.           *)
AllSlots == {InInode(f, k) : f \in Files, k \in Addrs} \cup {InBlock(b, k) : b \in Blocks, k \in Words}
Holding(s) == {t \in AllSlots : Get(s, t) # 0}

SingleOf(s, f) == Get(s, InInode(f, SIND_IDX))
DoubleOf(s, f) == Get(s, InInode(f, DIND_IDX))
MidOf(s, f, m) == Get(s, InBlock(DoubleOf(s, f), m))

(* The blocks of block numbers of file f.                                   *)
MapsOf(s, f) == ({SingleOf(s, f), DoubleOf(s, f)} \cup {MidOf(s, f, m) : m \in Words}) \ {0}

DataBytes == {Blank} \cup (Files \X (0..MaxBytes))
FsRecord == [bitmap : SUBSET Blocks, addrs : [Files -> [Addrs -> Blocks]], words : [Blocks -> [Words -> Blocks]],
             data : [Blocks -> [Bytes -> DataBytes]], panic : {"", "no free block"}]

(* Every block has one place, and only blocks of block numbers hold any.    *)
Sound(s) ==
    /\ s \in FsRecord
    /\ s.bitmap = Meta \cup {Get(s, t) : t \in Holding(s)}
    /\ \A t, u \in Holding(s) : Get(s, t) = Get(s, u) => t = u
    /\ \A t \in Holding(s) : Get(s, t) \notin Meta
    /\ \A b \in Blocks, k \in Words : Get(s, InBlock(b, k)) # 0 => \E f \in Files : b \in MapsOf(s, f)

(* File block numbers, and those found through the single and the double
   indirect block.                                                          *)
FileBlocks == 0..(NUM_DIRECT + NUM_SIND + NUM_DIND - 1)
SingleRange == NUM_DIRECT..(NUM_DIRECT + NUM_SIND - 1)
DoubleRange == (NUM_DIRECT + NUM_SIND)..(NUM_DIRECT + NUM_SIND + NUM_DIND - 1)

(* File f has an indirect block if it is for some block of the file, and so on. *)
Neat(s, f) ==
    /\ SingleOf(s, f) # 0 <=> \E n \in SingleRange : Address(s, f, n) # 0
    /\ DoubleOf(s, f) # 0 <=> \E n \in DoubleRange : Address(s, f, n) # 0
    /\ \A m \in Words : MidOf(s, f, m) # 0 <=> \E n \in DoubleRange : Midx(n) = m /\ Address(s, f, n) # 0

(* It has the blocks with numbers in P.                                     *)
Shape(s, f, P) == Neat(s, f) /\ \A n \in FileBlocks : Address(s, f, n) # 0 <=> n \in P

(* Byte k of f is where it belongs.                                         *)
Right(s, f, k) == s.data[Address(s, f, k \div BLOCK_SIZE)][k % BLOCK_SIZE] = <<f, k>>

JobOps == {"idle", "read", "write", "truncate"}

-----------------------------------------------------------------------------
(* Slots and what they hold.                                                *)

LEMMA CofsSizes ==
  /\ NUM_DIRECT \in Nat \ {0} /\ NUM_SIND \in Nat \ {0} /\ BLOCK_SIZE \in Nat \ {0}
  /\ NUM_DIND \in Nat \ {0} /\ NUM_DIND = NUM_SIND * NUM_SIND
  /\ SIND_IDX \in Addrs /\ DIND_IDX \in Addrs /\ SIND_IDX # DIND_IDX
  /\ \A n \in 0..(NUM_DIRECT - 1) : n \in Addrs /\ n # SIND_IDX /\ n # DIND_IDX
  /\ MaxBytes \in Nat /\ Words = 0..(NUM_SIND - 1)
  /\ Blocks \subseteq Nat /\ 0 \in Meta /\ 0 \in Blocks /\ Meta \subseteq Blocks
<1>1. /\ NUM_DIRECT \in Nat \ {0} /\ NUM_SIND \in Nat \ {0} /\ BLOCK_SIZE \in Nat \ {0}
      /\ 0 \in Meta /\ Meta \subseteq Blocks /\ Blocks = 0..(Cardinality(Blocks) - 1) /\ IsFiniteSet(Blocks)
  BY CofsBlocksAssumption
<1>2. NUM_SIND * NUM_SIND \in Nat \ {0}
  BY <1>1
<1>3. Cardinality(Blocks) \in Nat
  BY <1>1, FS_CardinalityType
<1>4. Blocks \subseteq Nat /\ 0 \in Blocks
  BY <1>1, <1>3
<1>5. NUM_DIND * BLOCK_SIZE \in Nat
  BY <1>1, <1>2 DEF NUM_DIND
<1>6. MaxBytes \in Nat
  BY <1>1, <1>5 DEF MaxBytes
<1> QED BY <1>1, <1>2, <1>4, <1>6 DEF NUM_DIND, SIND_IDX, DIND_IDX, Addrs, Words

LEMMA SlotCases ==
  ASSUME NEW t \in AllSlots
  PROVE  \/ \E f \in Files, k \in Addrs : t = InInode(f, k)
         \/ \E b \in Blocks, k \in Words : t = InBlock(b, k)
  BY DEF AllSlots

LEMMA SlotsDiffer ==
  /\ \A f, g, k, j : InInode(f, k) = InInode(g, j) <=> f = g /\ k = j
  /\ \A b, c, k, j : InBlock(b, k) = InBlock(c, j) <=> b = c /\ k = j
  /\ \A f, b, k, j : InInode(f, k) # InBlock(b, j)
  BY DEF InInode, InBlock

LEMMA SlotsThere ==
  /\ \A f \in Files, k \in Addrs : InInode(f, k) \in AllSlots
  /\ \A b \in Blocks, k \in Words : InBlock(b, k) \in AllSlots
  BY DEF AllSlots

LEMMA GetFields ==
  /\ \A s, f, k : Get(s, InInode(f, k)) = s.addrs[f][k]
  /\ \A s, b, k : Get(s, InBlock(b, k)) = s.words[b][k]
  BY DEF Get, InInode, InBlock

LEMMA SameSlots ==
  ASSUME NEW s, NEW q, q.addrs = s.addrs, q.words = s.words
  PROVE  \A t : Get(q, t) = Get(s, t)
  BY DEF Get

LEMMA GetType ==
  ASSUME NEW s \in FsRecord, NEW t \in AllSlots
  PROVE  Get(s, t) \in Blocks
<1>1. \A f \in Files, k \in Addrs : s.addrs[f][k] \in Blocks
  <2>1. s.addrs \in [Files -> [Addrs -> Blocks]]
    BY DEF FsRecord
  <2> QED BY <2>1
<1>2. \A b \in Blocks, k \in Words : s.words[b][k] \in Blocks
  <2>1. s.words \in [Blocks -> [Words -> Blocks]]
    BY DEF FsRecord
  <2> QED BY <2>1
<1> QED BY <1>1, <1>2, GetFields, SlotCases

LEMMA SetFacts ==
  \A s \in FsRecord, slot \in AllSlots, b \in Blocks :
      /\ Set(s, slot, b) \in FsRecord
      /\ Set(s, slot, b).bitmap = s.bitmap /\ Set(s, slot, b).data = s.data
      /\ Set(s, slot, b).panic = s.panic
      /\ \A t \in AllSlots : Get(Set(s, slot, b), t) = IF t = slot THEN b ELSE Get(s, t)
<1> TAKE s \in FsRecord, slot \in AllSlots, b \in Blocks
<1>1. CASE \E f \in Files, k \in Addrs : slot = InInode(f, k)
  <2>1. PICK f \in Files, k \in Addrs : slot = InInode(f, k)
    BY <1>1
  <2> DEFINE a == [s.addrs EXCEPT ![f][k] = b]
  <2>2. Set(s, slot, b) = [s EXCEPT !.addrs = a]
    BY <2>1 DEF Set, InInode, FsRecord
  <2>3. a \in [Files -> [Addrs -> Blocks]]
    BY DEF FsRecord
  <2>4. \A g \in Files, j \in Addrs : a[g][j] = IF g = f /\ j = k THEN b ELSE s.addrs[g][j]
    BY DEF FsRecord
  <2> HIDE DEF a
  <2>5. /\ Set(s, slot, b) \in FsRecord
        /\ Set(s, slot, b).bitmap = s.bitmap /\ Set(s, slot, b).data = s.data
        /\ Set(s, slot, b).panic = s.panic /\ Set(s, slot, b).words = s.words
        /\ Set(s, slot, b).addrs = a
    BY <2>2, <2>3 DEF FsRecord
  <2>6. ASSUME NEW t \in AllSlots
        PROVE  Get(Set(s, slot, b), t) = IF t = slot THEN b ELSE Get(s, t)
    <3>1. CASE \E g \in Files, j \in Addrs : t = InInode(g, j)
      BY <2>1, <2>4, <2>5, <3>1, GetFields, SlotsDiffer
    <3>2. CASE \E c \in Blocks, j \in Words : t = InBlock(c, j)
      BY <2>1, <2>5, <3>2, GetFields, SlotsDiffer
    <3> QED BY <3>1, <3>2, SlotCases
  <2> QED BY <2>5, <2>6
<1>2. CASE \E d \in Blocks, k \in Words : slot = InBlock(d, k)
  <2>1. PICK d \in Blocks, k \in Words : slot = InBlock(d, k)
    BY <1>2
  <2> DEFINE w == [s.words EXCEPT ![d][k] = b]
  <2>2. Set(s, slot, b) = [s EXCEPT !.words = w]
    BY <2>1 DEF Set, InBlock, FsRecord
  <2>3. w \in [Blocks -> [Words -> Blocks]]
    BY DEF FsRecord
  <2>4. \A c \in Blocks, j \in Words : w[c][j] = IF c = d /\ j = k THEN b ELSE s.words[c][j]
    BY DEF FsRecord
  <2> HIDE DEF w
  <2>5. /\ Set(s, slot, b) \in FsRecord
        /\ Set(s, slot, b).bitmap = s.bitmap /\ Set(s, slot, b).data = s.data
        /\ Set(s, slot, b).panic = s.panic /\ Set(s, slot, b).addrs = s.addrs
        /\ Set(s, slot, b).words = w
    BY <2>2, <2>3 DEF FsRecord
  <2>6. ASSUME NEW t \in AllSlots
        PROVE  Get(Set(s, slot, b), t) = IF t = slot THEN b ELSE Get(s, t)
    <3>1. CASE \E g \in Files, j \in Addrs : t = InInode(g, j)
      BY <2>1, <2>5, <3>1, GetFields, SlotsDiffer
    <3>2. CASE \E c \in Blocks, j \in Words : t = InBlock(c, j)
      BY <2>1, <2>4, <2>5, <3>2, GetFields, SlotsDiffer
    <3> QED BY <3>1, <3>2, SlotCases
  <2> QED BY <2>5, <2>6
<1> QED BY <1>1, <1>2, SlotCases

LEMMA SetZero ==
  ASSUME NEW s, s \in FsRecord, NEW slot, slot \in AllSlots
  PROVE  /\ Set(s, slot, 0) \in FsRecord
         /\ Set(s, slot, 0).bitmap = s.bitmap /\ Set(s, slot, 0).data = s.data
         /\ Set(s, slot, 0).panic = s.panic
         /\ \A t \in AllSlots : Get(Set(s, slot, 0), t) = IF t = slot THEN 0 ELSE Get(s, t)
<1>1. 0 \in Blocks
  BY CofsSizes
<1> QED BY <1>1, SetFacts

(* Block 0 holds no block numbers, and what is in a slot is marked.         *)
LEMMA SoundFacts ==
  ASSUME NEW s, Sound(s)
  PROVE  /\ s \in FsRecord
         /\ \A t \in Holding(s) : t \in AllSlots /\ Get(s, t) \in s.bitmap /\ Get(s, t) \in Blocks
         /\ \A t \in AllSlots : t \notin Holding(s) => Get(s, t) = 0
         /\ \A f \in Files : /\ SingleOf(s, f) \in Blocks /\ DoubleOf(s, f) \in Blocks
                             /\ InInode(f, SIND_IDX) \in AllSlots /\ InInode(f, DIND_IDX) \in AllSlots
                             /\ \A m \in Words : /\ MidOf(s, f, m) \in Blocks
                                                 /\ InBlock(DoubleOf(s, f), m) \in AllSlots
         /\ \A k \in Words : Get(s, InBlock(0, k)) = 0
         /\ \A f \in Files, m \in Words : MidOf(s, f, m) # 0 => DoubleOf(s, f) # 0
<1>1. s \in FsRecord
  BY DEF Sound
<1>2. \A t \in Holding(s) : t \in AllSlots /\ Get(s, t) \in s.bitmap /\ Get(s, t) \in Blocks
  BY <1>1, GetType DEF Sound, Holding
<1>3. \A t \in AllSlots : t \notin Holding(s) => Get(s, t) = 0
  BY DEF Holding
<1>4. \A f \in Files : /\ SingleOf(s, f) \in Blocks /\ DoubleOf(s, f) \in Blocks
                       /\ InInode(f, SIND_IDX) \in AllSlots /\ InInode(f, DIND_IDX) \in AllSlots
  BY <1>1, CofsSizes, SlotsThere, GetType DEF SingleOf, DoubleOf
<1>5. \A f \in Files, m \in Words : MidOf(s, f, m) \in Blocks /\ InBlock(DoubleOf(s, f), m) \in AllSlots
  BY <1>1, <1>4, SlotsThere, GetType DEF MidOf
<1>6. \A k \in Words : Get(s, InBlock(0, k)) = 0
  BY CofsSizes DEF Sound, MapsOf
<1>7. \A f \in Files, m \in Words : MidOf(s, f, m) # 0 => DoubleOf(s, f) # 0
  BY <1>6 DEF MidOf
<1> QED BY <1>1, <1>2, <1>3, <1>4, <1>5, <1>6, <1>7

LEMMA MapsHeld ==
  ASSUME NEW s, Sound(s), NEW f \in Files, NEW b \in MapsOf(s, f)
  PROVE  b \in s.bitmap /\ b # 0 /\ b \in Blocks /\ b \notin Meta
<1>1. \E t \in AllSlots : Get(s, t) = b
  BY SoundFacts DEF MapsOf, SingleOf, DoubleOf, MidOf
<1>2. b # 0
  BY DEF MapsOf
<1>3. \E t \in Holding(s) : Get(s, t) = b
  BY <1>1, <1>2 DEF Holding
<1> QED BY <1>2, <1>3, SoundFacts DEF Sound

LEMMA FreeHoldsNone ==
  ASSUME NEW s, Sound(s), NEW b \in Blocks, b \notin s.bitmap
  PROVE  \A k \in Words : Get(s, InBlock(b, k)) = 0
  BY MapsHeld DEF Sound

(* r is s with the block b, which was free, in slot.                        *)
Fills(s, r, slot, b) ==
    /\ b \in Blocks \ s.bitmap /\ b # 0
    /\ r.bitmap = s.bitmap \cup {b} /\ r.panic = ""
    /\ \A t \in AllSlots : Get(r, t) = IF t = slot THEN b ELSE Get(s, t)
    /\ \A c \in s.bitmap : r.data[c] = s.data[c]

(* r is s without what was in slot.                                         *)
Empties(s, r, slot) ==
    /\ r.bitmap = s.bitmap \ {Get(s, slot)} /\ r.panic = "" /\ r.data = s.data
    /\ \A t \in AllSlots : Get(r, t) = IF t = slot THEN 0 ELSE Get(s, t)

(* Where a block may be entered: in an inode, or in a block of block numbers. *)
Proper(s, slot) ==
    /\ slot \in AllSlots
    /\ \A b \in Blocks, k \in Words : slot = InBlock(b, k) => \E f \in Files : b \in MapsOf(s, f)

LEMMA MapsStay ==
  ASSUME NEW s, Sound(s), NEW r, NEW slot, NEW b, Get(s, slot) = 0,
         \A t \in AllSlots : Get(r, t) = IF t = slot THEN b ELSE Get(s, t), NEW f \in Files
  PROVE  MapsOf(s, f) \subseteq MapsOf(r, f)
<1>1. SingleOf(s, f) # 0 => SingleOf(r, f) = SingleOf(s, f)
  BY SoundFacts DEF SingleOf
<1>2. DoubleOf(s, f) # 0 => DoubleOf(r, f) = DoubleOf(s, f)
  BY SoundFacts DEF DoubleOf
<1>3. ASSUME NEW m \in Words, MidOf(s, f, m) # 0 PROVE MidOf(r, f, m) = MidOf(s, f, m)
  <2>1. DoubleOf(r, f) = DoubleOf(s, f)
    BY <1>2, <1>3, SoundFacts
  <2>2. InBlock(DoubleOf(s, f), m) \in AllSlots /\ InBlock(DoubleOf(s, f), m) # slot
    BY <1>3, SoundFacts DEF MidOf
  <2> QED BY <2>1, <2>2 DEF MidOf
<1> QED BY <1>1, <1>2, <1>3 DEF MapsOf

LEMMA FillsSound ==
  ASSUME NEW s, Sound(s), NEW r \in FsRecord, NEW slot, Proper(s, slot), Get(s, slot) = 0,
         NEW b, Fills(s, r, slot, b)
  PROVE  Sound(r)
<1>1. slot \in AllSlots /\ Holding(r) = Holding(s) \cup {slot} /\ slot \notin Holding(s)
  BY DEF Proper, Fills, Holding
<1>2. \A t \in Holding(r) : Get(r, t) = IF t = slot THEN b ELSE Get(s, t)
  BY DEF Fills, Holding
<1>3. r.bitmap = Meta \cup {Get(r, t) : t \in Holding(r)}
  <2>1. {Get(r, t) : t \in Holding(r)} = {Get(s, t) : t \in Holding(s)} \cup {b}
    BY <1>1, <1>2
  <2> QED BY <2>1 DEF Sound, Fills
<1>4. b \notin Meta /\ \A t \in Holding(s) : Get(s, t) # b
  BY DEF Sound, Fills
<1>5. \A t, u \in Holding(r) : Get(r, t) = Get(r, u) => t = u
  BY <1>1, <1>2, <1>4 DEF Sound
<1>6. \A t \in Holding(r) : Get(r, t) \notin Meta
  BY <1>1, <1>2, <1>4 DEF Sound
<1>7. ASSUME NEW c \in Blocks, NEW k \in Words, Get(r, InBlock(c, k)) # 0
      PROVE  \E f \in Files : c \in MapsOf(r, f)
  <2>1. \E f \in Files : c \in MapsOf(s, f)
    <3>1. CASE InBlock(c, k) = slot
      BY <3>1 DEF Proper
    <3>2. CASE InBlock(c, k) # slot
      BY <1>7, <3>2, SlotsThere DEF Fills, Sound
    <3> QED BY <3>1, <3>2
  <2>2. \A f \in Files : MapsOf(s, f) \subseteq MapsOf(r, f)
    BY MapsStay DEF Fills
  <2> QED BY <2>1, <2>2
<1> QED BY <1>3, <1>5, <1>6, <1>7 DEF Sound

LEMMA EmptiesSound ==
  ASSUME NEW s, Sound(s), NEW r \in FsRecord, NEW slot \in Holding(s), Empties(s, r, slot),
         \A k \in Words : Get(s, InBlock(Get(s, slot), k)) = 0
  PROVE  Sound(r)
<1> DEFINE b == Get(s, slot)
<1>1. /\ slot \in AllSlots /\ Holding(r) = Holding(s) \ {slot} /\ b \in Blocks /\ b # 0
      /\ \A t \in Holding(r) : Get(r, t) = Get(s, t)
  BY SoundFacts DEF Empties, Holding
<1>2. \A t \in Holding(s) : t # slot => Get(s, t) # b
  BY DEF Sound
<1>3. r.bitmap = Meta \cup {Get(r, t) : t \in Holding(r)}
  <2>1. {Get(r, t) : t \in Holding(r)} = {Get(s, t) : t \in Holding(s)} \ {b}
    BY <1>1, <1>2
  <2>2. b \notin Meta /\ s.bitmap = Meta \cup {Get(s, t) : t \in Holding(s)}
    BY DEF Sound
  <2>3. r.bitmap = s.bitmap \ {b}
    BY DEF Empties
  <2> HIDE DEF b
  <2> QED BY <2>1, <2>2, <2>3
<1>4. \A t, u \in Holding(r) : Get(r, t) = Get(r, u) => t = u
  BY <1>1 DEF Sound
<1>5. \A t \in Holding(r) : Get(r, t) \notin Meta
  BY <1>1 DEF Sound
<1>6. ASSUME NEW c \in Blocks, NEW k \in Words, Get(r, InBlock(c, k)) # 0
      PROVE  \E f \in Files : c \in MapsOf(r, f)
  <2>1. InBlock(c, k) \in AllSlots /\ InBlock(c, k) # slot /\ Get(s, InBlock(c, k)) # 0
    BY <1>6, SlotsThere DEF Empties
  <2>2. c # b
    BY <2>1
  <2>3. PICK f \in Files : c \in MapsOf(s, f)
    BY <2>1 DEF Sound
  <2>4. SingleOf(s, f) = c => SingleOf(r, f) = c
    BY <2>2, SoundFacts DEF SingleOf, Empties
  <2>5. DoubleOf(s, f) = c => DoubleOf(r, f) = c
    BY <2>2, SoundFacts DEF DoubleOf, Empties
  <2>6. ASSUME NEW m \in Words, MidOf(s, f, m) = c PROVE MidOf(r, f, m) = c
    <3>1. c # 0
      BY <2>3 DEF MapsOf
    <3>2. DoubleOf(s, f) # b
      BY <2>6, <3>1 DEF MidOf
    <3>3. DoubleOf(r, f) = DoubleOf(s, f)
      BY <3>2, SoundFacts DEF DoubleOf, Empties
    <3>4. InBlock(DoubleOf(s, f), m) \in AllSlots /\ InBlock(DoubleOf(s, f), m) # slot
      BY <2>2, <2>6, SoundFacts DEF MidOf
    <3> QED BY <2>6, <3>3, <3>4 DEF MidOf, Empties
  <2>7. c \in MapsOf(r, f)
    BY <2>3, <2>4, <2>5, <2>6 DEF MapsOf
  <2> QED BY <2>7
<1> QED BY <1>3, <1>4, <1>5, <1>6 DEF Sound

(* block_alloc zeroes a block that held nothing.                            *)
LEMMA AllocFacts ==
  ASSUME NEW s, Sound(s), NEW b \in Blocks, b \notin s.bitmap
  PROVE  /\ Alloc(s, b) \in FsRecord
         /\ Alloc(s, b).bitmap = s.bitmap \cup {b} /\ Alloc(s, b).panic = s.panic
         /\ \A t \in AllSlots : Get(Alloc(s, b), t) = Get(s, t)
         /\ \A c \in s.bitmap : Alloc(s, b).data[c] = s.data[c]
<1> DEFINE w == [s.words EXCEPT ![b] = [k \in Words |-> 0]]
           d == [s.data EXCEPT ![b] = [k \in Bytes |-> Blank]]
           r == Alloc(s, b)
<1>1. s \in FsRecord
  BY DEF Sound
<1>2. r = [[[s EXCEPT !.bitmap = s.bitmap \cup {b}] EXCEPT !.words = w] EXCEPT !.data = d]
  BY <1>1 DEF Alloc, FsRecord
<1>3. s.words \in [Blocks -> [Words -> Blocks]] /\ s.data \in [Blocks -> [Bytes -> DataBytes]]
  BY <1>1 DEF FsRecord
<1>4. w \in [Blocks -> [Words -> Blocks]] /\ d \in [Blocks -> [Bytes -> DataBytes]]
  <2>1. [k \in Words |-> 0] \in [Words -> Blocks] /\ [k \in Bytes |-> Blank] \in [Bytes -> DataBytes]
    BY CofsSizes DEF DataBytes
  <2> QED BY <1>3, <2>1
<1>5. \A c \in Blocks, k \in Words : w[c][k] = IF c = b THEN 0 ELSE s.words[c][k]
  BY <1>3
<1>6. \A c \in Blocks : c # b => d[c] = s.data[c]
  BY <1>3
<1> HIDE DEF w, d, r
<1>7. /\ r \in FsRecord /\ r.bitmap = s.bitmap \cup {b} /\ r.words = w /\ r.data = d
      /\ r.addrs = s.addrs /\ r.panic = s.panic
  BY <1>1, <1>2, <1>4 DEF FsRecord
<1>8. ASSUME NEW t \in AllSlots PROVE Get(r, t) = Get(s, t)
  <2>1. CASE \E f \in Files, k \in Addrs : t = InInode(f, k)
    BY <1>7, <2>1, GetFields
  <2>2. CASE \E c \in Blocks, k \in Words : t = InBlock(c, k)
    <3>1. PICK c \in Blocks, k \in Words : t = InBlock(c, k)
      BY <2>2
    <3>2. s.words[b][k] = 0
      BY FreeHoldsNone, GetFields
    <3> QED BY <1>5, <1>7, <3>1, <3>2, GetFields
  <2> QED BY <2>1, <2>2, SlotCases
<1>9. \A c \in s.bitmap : c \in Blocks /\ c # b
  BY <1>1 DEF FsRecord
<1> QED BY <1>6, <1>7, <1>8, <1>9 DEF r

LEMMA FillFacts ==
  ASSUME NEW s, Sound(s), s.panic = "", NEW slot, Proper(s, slot)
  PROVE  /\ Sound(Fill(s, slot))
         /\ \/ Get(s, slot) # 0 /\ Fill(s, slot) = s
            \/ Get(s, slot) = 0 /\ Fill(s, slot) = Panic(s, "no free block")
            \/ Get(s, slot) = 0 /\ \E b \in Blocks : Fills(s, Fill(s, slot), slot, b)
<1> DEFINE free == Blocks \ s.bitmap
           r == Fill(s, slot)
<1>1. s \in FsRecord /\ slot \in AllSlots
  BY DEF Sound, Proper
<1>2. CASE Get(s, slot) # 0
  BY <1>2 DEF Fill
<1>3. CASE Get(s, slot) = 0 /\ free = {}
  <2>1. r = Panic(s, "no free block")
    BY <1>3 DEF Fill
  <2> DEFINE q == Panic(s, "no free block")
  <2>2. q \in FsRecord /\ q.bitmap = s.bitmap /\ q.addrs = s.addrs /\ q.words = s.words
    BY <1>1 DEF Panic, FsRecord
  <2> HIDE DEF q
  <2>3. ASSUME NEW t \in AllSlots PROVE Get(q, t) = Get(s, t)
    BY <2>2, SameSlots
  <2>4. Holding(q) = Holding(s)
    BY <2>3 DEF Holding
  <2>5. \A f \in Files : MapsOf(q, f) = MapsOf(s, f)
    <3>1. \A t : Get(q, t) = Get(s, t)
      BY <2>2, SameSlots
    <3> QED BY <3>1 DEF MapsOf, SingleOf, DoubleOf, MidOf
  <2>6. q.bitmap = Meta \cup {Get(q, t) : t \in Holding(q)}
    <3>1. {Get(q, t) : t \in Holding(q)} = {Get(s, t) : t \in Holding(s)}
      BY <2>3, <2>4 DEF Holding
    <3> QED BY <2>2, <3>1 DEF Sound
  <2>7. /\ \A t, u \in Holding(q) : Get(q, t) = Get(q, u) => t = u
        /\ \A t \in Holding(q) : Get(q, t) \notin Meta
    BY <2>3, <2>4 DEF Sound, Holding
  <2>8. \A b \in Blocks, k \in Words : Get(q, InBlock(b, k)) # 0 => \E f \in Files : b \in MapsOf(q, f)
    BY <2>3, <2>5, SlotsThere DEF Sound
  <2>9. Sound(q)
    BY <2>2, <2>6, <2>7, <2>8 DEF Sound
  <2> QED BY <1>3, <2>1, <2>9 DEF q
<1>4. CASE Get(s, slot) = 0 /\ free # {}
  <2> DEFINE b == CHOOSE x \in free : \A y \in free : x <= y
             a == Alloc(s, b)
  <2>1. free \in SUBSET Nat
    BY CofsSizes
  <2>2. \E x \in free : \A y \in free : x <= y
    <3> HIDE DEF free
    <3> QED BY <1>4, <2>1, LeastExists
  <2>3. b \in free
    <3> HIDE DEF free
    <3> QED BY <2>2
  <2>4. r = Set(a, slot, b)
    BY <1>4 DEF Fill
  <2> HIDE DEF b
  <2>5. b \in Blocks /\ b \notin s.bitmap /\ b # 0
    BY <2>3, CofsSizes DEF Sound
  <2>6. /\ a \in FsRecord /\ a.bitmap = s.bitmap \cup {b} /\ a.panic = ""
        /\ \A t \in AllSlots : Get(a, t) = Get(s, t)
        /\ \A c \in s.bitmap : a.data[c] = s.data[c]
    BY <2>5, AllocFacts
  <2> HIDE DEF a, r
  <2>7. r \in FsRecord /\ Fills(s, r, slot, b)
    <3>1. /\ Set(a, slot, b) \in FsRecord
          /\ Set(a, slot, b).bitmap = a.bitmap /\ Set(a, slot, b).data = a.data
          /\ Set(a, slot, b).panic = a.panic
          /\ \A t \in AllSlots : Get(Set(a, slot, b), t) = IF t = slot THEN b ELSE Get(a, t)
      BY <1>1, <2>5, <2>6, SetFacts, ZenonT(60)
    <3> QED BY <2>4, <2>5, <2>6, <3>1 DEF Fills
  <2>8. Sound(r)
    BY <1>4, <2>7, FillsSound
  <2> QED BY <1>4, <2>5, <2>7, <2>8 DEF r
<1> QED BY <1>2, <1>3, <1>4

(* A block that holds nothing is freed and its place cleared, in one order or
   the other.                                                               *)
LEMMA EmptyFacts ==
  ASSUME NEW s, Sound(s), s.panic = "", NEW slot \in Holding(s),
         \A k \in Words : Get(s, InBlock(Get(s, slot), k)) = 0
  PROVE  /\ Empties(s, FreeSlot(s, slot), slot) /\ Sound(FreeSlot(s, slot))
         /\ Set(BlockFree(s, Get(s, slot)), slot, 0) = FreeSlot(s, slot)
<1> DEFINE b == Get(s, slot)
           a == Set(s, slot, 0)
           r == FreeSlot(s, slot)
           f == BlockFree(s, b)
<1>1. s \in FsRecord /\ slot \in AllSlots /\ b \in s.bitmap /\ 0 \in Blocks
  BY SoundFacts, CofsSizes
<1>2. /\ a \in FsRecord /\ a.bitmap = s.bitmap /\ a.data = s.data /\ a.panic = ""
      /\ \A t \in AllSlots : Get(a, t) = IF t = slot THEN 0 ELSE Get(s, t)
  BY <1>1, SetZero
<1>3. r = [a EXCEPT !.bitmap = a.bitmap \ {b}]
  BY <1>1, <1>2 DEF FreeSlot, BlockFree
<1>4. f = [s EXCEPT !.bitmap = s.bitmap \ {b}]
  BY <1>1 DEF BlockFree
<1>5. Set(f, slot, 0) = r
  <2> HIDE DEF f, r
  <2>1. CASE slot[1] = "inode"
    <3>1. a = [s EXCEPT !.addrs[slot[2]][slot[3]] = 0]
      BY <2>1 DEF Set
    <3>2. Set(f, slot, 0) = [f EXCEPT !.addrs[slot[2]][slot[3]] = 0]
      BY <2>1 DEF Set
    <3> HIDE DEF a, b
    <3> QED BY <1>1, <1>2, <1>3, <1>4, <3>1, <3>2 DEF FsRecord
  <2>2. CASE slot[1] # "inode"
    <3>1. a = [s EXCEPT !.words[slot[2]][slot[3]] = 0]
      BY <2>2 DEF Set
    <3>2. Set(f, slot, 0) = [f EXCEPT !.words[slot[2]][slot[3]] = 0]
      BY <2>2 DEF Set
    <3> HIDE DEF a, b
    <3> QED BY <1>1, <1>2, <1>3, <1>4, <3>1, <3>2 DEF FsRecord
  <2> QED BY <2>1, <2>2
<1> HIDE DEF a, r, f
<1>6. /\ r \in FsRecord /\ r.bitmap = s.bitmap \ {b} /\ r.data = s.data /\ r.panic = ""
      /\ r.addrs = a.addrs /\ r.words = a.words
  BY <1>1, <1>2, <1>3 DEF FsRecord
<1>7. \A t \in AllSlots : Get(r, t) = Get(a, t)
  BY <1>6, SameSlots
<1>8. Empties(s, r, slot)
  BY <1>2, <1>6, <1>7 DEF Empties
<1>9. Sound(r)
  BY <1>6, <1>8, EmptiesSound
<1> QED BY <1>5, <1>8, <1>9 DEF r, f

-----------------------------------------------------------------------------
(* What a change of one slot does to the files.                             *)
Puts(s, r, slot, b) ==
    /\ r \in FsRecord /\ slot \in AllSlots
    /\ \A t \in AllSlots : Get(r, t) = IF t = slot THEN b ELSE Get(s, t)

(* File g is the same in r as in s.                                         *)
Seen(s, r, g) ==
    /\ r.addrs[g] = s.addrs[g]
    /\ SingleOf(r, g) = SingleOf(s, g) /\ DoubleOf(r, g) = DoubleOf(s, g)
    /\ \A m \in Words : MidOf(r, g, m) = MidOf(s, g, m)
    /\ \A n \in FileBlocks : Address(r, g, n) = Address(s, g, n)
Kept(s, r, f) == \A g \in Files \ {f} : Seen(s, r, g)

OwnSlots(s, f) == {InInode(f, k) : k \in Addrs} \cup {InBlock(c, k) : c \in MapsOf(s, f), k \in Words}

LEMMA DoubleIndex ==
  ASSUME NEW S \in Nat \ {0}, NEW x \in 0..(S * S - 1)
  PROVE  x \div S \in 0..(S - 1) /\ x % S \in 0..(S - 1) /\ x = S * (x \div S) + (x % S)
<1>1. x \in Int /\ x >= 0 /\ x < S * S /\ S > 0 /\ S \in Int
  OBVIOUS
<1>2. x = S * (x \div S) + (x % S) /\ x % S \in 0..(S - 1) /\ x \div S \in Int
  BY <1>1, Z3
<1> DEFINE q == x \div S
           y == x % S
<1>3. q \in Int /\ y \in 0..(S - 1) /\ x = S * q + y
  BY <1>2
<1> HIDE DEF q, y
<1>4. ~(q >= S)
  <2>1. ASSUME q >= S PROVE FALSE
    <3>1. S * q >= S * S
      BY <1>1, <1>3, <2>1
    <3> QED BY <1>1, <1>3, <3>1
  <2> QED BY <2>1
<1>5. ~(q < 0)
  <2>1. ASSUME q < 0 PROVE FALSE
    <3>1. S * q <= S * (0 - 1)
      BY <1>1, <1>3, <2>1
    <3> QED BY <1>1, <1>3, <3>1
  <2> QED BY <2>1
<1> QED BY <1>1, <1>3, <1>4, <1>5 DEF q, y

(* Where the number of a file's block is kept.                              *)
LEMMA NumberCases ==
  /\ \A n \in FileBlocks : n \in 0..(NUM_DIRECT - 1) \/ n \in SingleRange \/ n \in DoubleRange
  /\ \A n \in SingleRange : n - NUM_DIRECT \in Words /\ n \notin 0..(NUM_DIRECT - 1) /\ n \in FileBlocks
  /\ \A n \in DoubleRange : Midx(n) \in Words /\ Sidx(n) \in Words /\ n \notin SingleRange
                            /\ n \notin 0..(NUM_DIRECT - 1) /\ n \in FileBlocks
  /\ \A n \in DoubleRange : n = NUM_DIRECT + NUM_SIND + NUM_SIND * Midx(n) + Sidx(n)
  /\ \A n \in 0..(NUM_DIRECT - 1) : n \in FileBlocks /\ n \in Addrs
<1>1. /\ NUM_DIRECT \in Nat \ {0} /\ NUM_SIND \in Nat \ {0} /\ NUM_DIND \in Nat \ {0}
      /\ NUM_DIND = NUM_SIND * NUM_SIND /\ Words = 0..(NUM_SIND - 1)
  BY CofsSizes
<1> DEFINE D == NUM_DIND
<1>2. D \in Nat \ {0}
  BY <1>1
<1> HIDE DEF D
<1>3. /\ FileBlocks = 0..(NUM_DIRECT + NUM_SIND + D - 1)
      /\ DoubleRange = (NUM_DIRECT + NUM_SIND)..(NUM_DIRECT + NUM_SIND + D - 1)
      /\ SingleRange = NUM_DIRECT..(NUM_DIRECT + NUM_SIND - 1)
  BY DEF D, FileBlocks, DoubleRange, SingleRange
<1>4. \A n \in FileBlocks : n \in 0..(NUM_DIRECT - 1) \/ n \in SingleRange \/ n \in DoubleRange
  BY <1>1, <1>2, <1>3
<1>5. \A n \in SingleRange : n - NUM_DIRECT \in Words /\ n \notin 0..(NUM_DIRECT - 1) /\ n \in FileBlocks
  BY <1>1, <1>2, <1>3
<1>6. ASSUME NEW n \in DoubleRange
      PROVE  /\ Midx(n) \in Words /\ Sidx(n) \in Words
             /\ n = NUM_DIRECT + NUM_SIND + NUM_SIND * Midx(n) + Sidx(n)
  <2> DEFINE x == n - NUM_DIRECT - NUM_SIND
  <2>1. x \in 0..(D - 1)
    BY <1>1, <1>2, <1>3
  <2>2. x \in 0..(NUM_SIND * NUM_SIND - 1)
    BY <1>1, <2>1 DEF D
  <2> HIDE DEF x
  <2>3. /\ x \div NUM_SIND \in 0..(NUM_SIND - 1) /\ x % NUM_SIND \in 0..(NUM_SIND - 1)
        /\ x = NUM_SIND * (x \div NUM_SIND) + (x % NUM_SIND)
    BY <1>1, <2>2, DoubleIndex
  <2>4. Midx(n) = x \div NUM_SIND /\ Sidx(n) = x % NUM_SIND
    BY DEF Midx, Sidx, x
  <2>5. x = NUM_SIND * Midx(n) + Sidx(n) /\ x \in Int
    BY <2>1, <2>3, <2>4
  <2>6. n = NUM_DIRECT + NUM_SIND + x
    BY <1>1, <1>2, <1>3 DEF x
  <2>7. NUM_SIND * Midx(n) \in Int /\ Sidx(n) \in Int
    BY <1>1, <2>3, <2>4
  <2> QED BY <1>1, <2>3, <2>4, <2>5, <2>6, <2>7
<1>7. \A n \in DoubleRange : n \notin SingleRange /\ n \notin 0..(NUM_DIRECT - 1) /\ n \in FileBlocks
  BY <1>1, <1>2, <1>3
<1>8. \A n \in 0..(NUM_DIRECT - 1) : n \in FileBlocks /\ n \in Addrs
  BY <1>1, <1>2, <1>3, CofsSizes
<1> QED BY <1>4, <1>5, <1>6, <1>7, <1>8

LEMMA AddressAt ==
  /\ \A s, f, n : n \in 0..(NUM_DIRECT - 1) => Address(s, f, n) = Get(s, InInode(f, n))
  /\ \A s, f, n : n \in SingleRange => Address(s, f, n) = Get(s, InBlock(SingleOf(s, f), n - NUM_DIRECT))
  /\ \A s, f, n : n \in DoubleRange => Address(s, f, n) = Get(s, InBlock(MidOf(s, f, Midx(n)), Sidx(n)))
<1>1. /\ NUM_DIRECT \in Nat \ {0} /\ NUM_SIND \in Nat \ {0} /\ NUM_DIND \in Nat \ {0}
  BY CofsSizes
<1>2. ASSUME NEW s, NEW f, NEW n, n \in 0..(NUM_DIRECT - 1) PROVE Address(s, f, n) = Get(s, InInode(f, n))
  <2>1. n < NUM_DIRECT
    BY <1>1, <1>2
  <2> QED BY <2>1 DEF Address
<1>3. ASSUME NEW s, NEW f, NEW n, n \in SingleRange
      PROVE  Address(s, f, n) = Get(s, InBlock(SingleOf(s, f), n - NUM_DIRECT))
  <2>1. ~(n < NUM_DIRECT) /\ n < NUM_DIRECT + NUM_SIND
    BY <1>1, <1>3 DEF SingleRange
  <2> QED BY <2>1 DEF Address, SingleOf
<1>4. ASSUME NEW s, NEW f, NEW n, n \in DoubleRange
      PROVE  Address(s, f, n) = Get(s, InBlock(MidOf(s, f, Midx(n)), Sidx(n)))
  <2>1. ~(n < NUM_DIRECT) /\ ~(n < NUM_DIRECT + NUM_SIND)
    BY <1>1, <1>4 DEF DoubleRange
  <2> QED BY <2>1 DEF Address, MidOf, DoubleOf
<1> QED BY <1>2, <1>3, <1>4

(* Files share no block of block numbers.                                   *)
LEMMA MapsApart ==
  ASSUME NEW s, Sound(s), NEW f \in Files, NEW g \in Files
  PROVE  /\ SingleOf(s, f) # 0 /\ SingleOf(s, f) = SingleOf(s, g) => f = g
         /\ DoubleOf(s, f) # 0 /\ DoubleOf(s, f) = DoubleOf(s, g) => f = g
         /\ SingleOf(s, f) # 0 => SingleOf(s, f) # DoubleOf(s, g)
         /\ \A m \in Words : MidOf(s, f, m) # 0 => MidOf(s, f, m) # SingleOf(s, g) /\ MidOf(s, f, m) # DoubleOf(s, g)
         /\ \A m, k \in Words : MidOf(s, f, m) # 0 /\ MidOf(s, f, m) = MidOf(s, g, k) => f = g /\ m = k
<1>1. \A t, u \in AllSlots : Get(s, t) # 0 /\ Get(s, t) = Get(s, u) => t = u
  BY DEF Sound, Holding
<1>2. \A h \in Files : /\ InInode(h, SIND_IDX) \in AllSlots /\ InInode(h, DIND_IDX) \in AllSlots
                       /\ \A m \in Words : InBlock(DoubleOf(s, h), m) \in AllSlots
  BY SoundFacts
<1>3. SIND_IDX # DIND_IDX
  BY CofsSizes
<1>4. DoubleOf(s, f) # 0 /\ DoubleOf(s, f) = DoubleOf(s, g) => f = g
  BY <1>1, <1>2, SlotsDiffer DEF DoubleOf
<1>5. SingleOf(s, f) # 0 /\ SingleOf(s, f) = SingleOf(s, g) => f = g
  BY <1>1, <1>2, SlotsDiffer DEF SingleOf
<1>6. SingleOf(s, f) # 0 => SingleOf(s, f) # DoubleOf(s, g)
  BY <1>1, <1>2, <1>3, SlotsDiffer DEF SingleOf, DoubleOf
<1>7. ASSUME NEW m \in Words, MidOf(s, f, m) # 0
      PROVE  MidOf(s, f, m) # SingleOf(s, g) /\ MidOf(s, f, m) # DoubleOf(s, g)
  <2>1. InBlock(DoubleOf(s, f), m) # InInode(g, SIND_IDX) /\ InBlock(DoubleOf(s, f), m) # InInode(g, DIND_IDX)
    BY SlotsDiffer
  <2>2. MidOf(s, f, m) = Get(s, InBlock(DoubleOf(s, f), m))
    BY DEF MidOf
  <2>3. SingleOf(s, g) = Get(s, InInode(g, SIND_IDX)) /\ DoubleOf(s, g) = Get(s, InInode(g, DIND_IDX))
    BY DEF SingleOf, DoubleOf
  <2> QED BY <1>1, <1>2, <1>7, <2>1, <2>2, <2>3
<1>8. ASSUME NEW m \in Words, NEW k \in Words, MidOf(s, f, m) # 0, MidOf(s, f, m) = MidOf(s, g, k)
      PROVE  f = g /\ m = k
  <2>1. InBlock(DoubleOf(s, f), m) = InBlock(DoubleOf(s, g), k)
    BY <1>1, <1>2, <1>8 DEF MidOf
  <2>2. DoubleOf(s, f) = DoubleOf(s, g) /\ m = k
    BY <2>1, SlotsDiffer
  <2>3. DoubleOf(s, f) # 0
    BY <1>8, SoundFacts
  <2> QED BY <1>4, <2>2, <2>3
<1> QED BY <1>4, <1>5, <1>6, <1>7, <1>8

LEMMA KeptOthers ==
  ASSUME NEW s, Sound(s), NEW r, NEW slot, NEW b, Puts(s, r, slot, b),
         NEW f \in Files, slot \in OwnSlots(s, f)
  PROVE  Kept(s, r, f)
<1> SUFFICES ASSUME NEW g \in Files, g # f PROVE Seen(s, r, g)
  BY DEF Kept
<1>1. \A k \in Addrs : slot # InInode(g, k)
  BY SlotsDiffer DEF OwnSlots
<1>2. ASSUME NEW c \in MapsOf(s, g) \cup {0}, NEW k \in Words PROVE slot # InBlock(c, k)
  <2>1. c \notin MapsOf(s, f)
    <3>1. c \in MapsOf(s, g) => c \notin MapsOf(s, f)
      BY MapsApart DEF MapsOf
    <3> QED BY <3>1 DEF MapsOf
  <2> QED BY <2>1, SlotsDiffer DEF OwnSlots
<1>3. SingleOf(r, g) = SingleOf(s, g) /\ DoubleOf(r, g) = DoubleOf(s, g)
  <2>1. SIND_IDX \in Addrs /\ DIND_IDX \in Addrs
    BY CofsSizes
  <2> QED BY <1>1, <2>1, SlotsThere DEF SingleOf, DoubleOf, Puts
<1>4. SingleOf(s, g) \in MapsOf(s, g) \cup {0} /\ DoubleOf(s, g) \in MapsOf(s, g) \cup {0}
      /\ \A m \in Words : MidOf(s, g, m) \in MapsOf(s, g) \cup {0}
  BY DEF MapsOf
<1>5. ASSUME NEW m \in Words PROVE MidOf(r, g, m) = MidOf(s, g, m)
  <2>1. InBlock(DoubleOf(s, g), m) \in AllSlots /\ InBlock(DoubleOf(s, g), m) # slot
    BY <1>2, <1>4, SoundFacts
  <2> QED BY <1>3, <2>1 DEF MidOf, Puts
<1>6. ASSUME NEW n \in FileBlocks PROVE Address(r, g, n) = Address(s, g, n)
  <2>1. CASE n \in 0..(NUM_DIRECT - 1)
    <3>1. InInode(g, n) \in AllSlots /\ InInode(g, n) # slot
      BY <1>1, <2>1, NumberCases, SlotsThere
    <3> QED BY <2>1, <3>1, AddressAt DEF Puts
  <2>2. CASE n \in SingleRange
    <3>1. n - NUM_DIRECT \in Words
      BY <2>2, NumberCases
    <3>2. InBlock(SingleOf(s, g), n - NUM_DIRECT) # slot
      BY <1>2, <1>4, <3>1
    <3>3. InBlock(SingleOf(s, g), n - NUM_DIRECT) \in AllSlots
      BY <3>1, SoundFacts, SlotsThere
    <3> QED BY <1>3, <2>2, <3>2, <3>3, AddressAt DEF Puts
  <2>3. CASE n \in DoubleRange
    <3>1. Midx(n) \in Words /\ Sidx(n) \in Words
      BY <2>3, NumberCases
    <3>2. InBlock(MidOf(s, g, Midx(n)), Sidx(n)) # slot
      BY <1>2, <1>4, <3>1
    <3>3. InBlock(MidOf(s, g, Midx(n)), Sidx(n)) \in AllSlots
      BY <3>1, SoundFacts, SlotsThere
    <3> QED BY <1>5, <2>3, <3>1, <3>2, <3>3, AddressAt DEF Puts
  <2> QED BY <2>1, <2>2, <2>3, NumberCases
<1>7. r.addrs[g] = s.addrs[g]
  <2>1. s.addrs[g] \in [Addrs -> Blocks] /\ r.addrs[g] \in [Addrs -> Blocks]
    <3>1. s.addrs \in [Files -> [Addrs -> Blocks]] /\ r.addrs \in [Files -> [Addrs -> Blocks]]
      BY DEF Sound, Puts, FsRecord
    <3> QED BY <3>1
  <2>2. \A k \in Addrs : Get(r, InInode(g, k)) = Get(s, InInode(g, k))
    BY <1>1, SlotsThere DEF Puts
  <2>3. \A k \in Addrs : r.addrs[g][k] = s.addrs[g][k]
    BY <2>2, GetFields
  <2> QED BY <2>1, <2>3
<1> QED BY <1>3, <1>5, <1>6, <1>7 DEF Seen

(* The file itself, by the place of the slot.                               *)
Hollow(s, b) == b \in Blocks /\ \A k \in Words : Get(s, InBlock(b, k)) = 0
SameMaps(s, r, f) ==
    /\ SingleOf(r, f) = SingleOf(s, f) /\ DoubleOf(r, f) = DoubleOf(s, f)
    /\ \A m \in Words : MidOf(r, f, m) = MidOf(s, f, m)
LeafPut(s, r, f, N, b) ==
    /\ SameMaps(s, r, f)
    /\ \A n \in FileBlocks : Address(r, f, n) = IF n = N THEN b ELSE Address(s, f, n)

LEMMA PutDirect ==
  ASSUME NEW s, Sound(s), NEW r, NEW f \in Files, NEW N \in 0..(NUM_DIRECT - 1), NEW b,
         Puts(s, r, InInode(f, N), b)
  PROVE  LeafPut(s, r, f, N, b)
<1>1. N \in Addrs /\ N # SIND_IDX /\ N # DIND_IDX
  BY CofsSizes
<1>2. \A c \in Blocks, k \in Words : Get(r, InBlock(c, k)) = Get(s, InBlock(c, k))
  BY SlotsThere, SlotsDiffer DEF Puts
<1>3. SingleOf(r, f) = SingleOf(s, f) /\ DoubleOf(r, f) = DoubleOf(s, f)
  BY <1>1, SoundFacts, SlotsDiffer DEF SingleOf, DoubleOf, Puts
<1>4. \A m \in Words : MidOf(r, f, m) = MidOf(s, f, m)
  BY <1>2, <1>3, SoundFacts DEF MidOf
<1>5. ASSUME NEW n \in FileBlocks PROVE Address(r, f, n) = IF n = N THEN b ELSE Address(s, f, n)
  <2>1. CASE n \in 0..(NUM_DIRECT - 1)
    <3>1. InInode(f, n) \in AllSlots
      BY <2>1, NumberCases, SlotsThere
    <3>2. InInode(f, n) = InInode(f, N) <=> n = N
      BY SlotsDiffer
    <3> QED BY <2>1, <3>1, <3>2, AddressAt DEF Puts
  <2>2. CASE n \in SingleRange
    BY <1>2, <1>3, <2>2, AddressAt, NumberCases, SoundFacts
  <2>3. CASE n \in DoubleRange
    <3>1. Midx(n) \in Words /\ Sidx(n) \in Words /\ n # N
      BY <2>3, NumberCases
    <3>2. MidOf(s, f, Midx(n)) \in Blocks /\ MidOf(r, f, Midx(n)) = MidOf(s, f, Midx(n))
      BY <1>4, <3>1, SoundFacts
    <3>3. Get(r, InBlock(MidOf(s, f, Midx(n)), Sidx(n))) = Get(s, InBlock(MidOf(s, f, Midx(n)), Sidx(n)))
      BY <1>2, <3>1, <3>2
    <3> QED BY <2>3, <3>1, <3>2, <3>3, AddressAt
  <2> QED BY <2>1, <2>2, <2>3, NumberCases
<1> QED BY <1>3, <1>4, <1>5 DEF LeafPut, SameMaps

LEMMA PutSingle ==
  ASSUME NEW s, Sound(s), NEW r, NEW f \in Files, NEW b, Puts(s, r, InInode(f, SIND_IDX), b),
         Hollow(s, b), Hollow(s, SingleOf(s, f))
  PROVE  /\ SingleOf(r, f) = b /\ DoubleOf(r, f) = DoubleOf(s, f)
         /\ \A m \in Words : MidOf(r, f, m) = MidOf(s, f, m)
         /\ \A n \in FileBlocks : Address(r, f, n) = Address(s, f, n)
<1>1. \A c \in Blocks, k \in Words : Get(r, InBlock(c, k)) = Get(s, InBlock(c, k))
  BY SlotsThere, SlotsDiffer DEF Puts
<1>2. SingleOf(r, f) = b /\ DoubleOf(r, f) = DoubleOf(s, f)
  BY CofsSizes, SoundFacts, SlotsDiffer DEF SingleOf, DoubleOf, Puts
<1>3. \A m \in Words : MidOf(r, f, m) = MidOf(s, f, m)
  BY <1>1, <1>2, SoundFacts DEF MidOf
<1>4. ASSUME NEW n \in FileBlocks PROVE Address(r, f, n) = Address(s, f, n)
  <2>1. CASE n \in 0..(NUM_DIRECT - 1)
    <3>1. InInode(f, n) \in AllSlots /\ n # SIND_IDX
      BY <2>1, NumberCases, SlotsThere, CofsSizes
    <3>2. InInode(f, n) # InInode(f, SIND_IDX)
      BY <3>1, SlotsDiffer
    <3> QED BY <2>1, <3>1, <3>2, AddressAt DEF Puts
  <2>2. CASE n \in SingleRange
    <3>1. n - NUM_DIRECT \in Words
      BY <2>2, NumberCases
    <3>2. Get(s, InBlock(SingleOf(s, f), n - NUM_DIRECT)) = 0 /\ Get(r, InBlock(b, n - NUM_DIRECT)) = 0
      BY <1>1, <3>1 DEF Hollow
    <3> QED BY <1>2, <2>2, <3>2, AddressAt
  <2>3. CASE n \in DoubleRange
    <3>1. Midx(n) \in Words /\ Sidx(n) \in Words
      BY <2>3, NumberCases
    <3>2. MidOf(s, f, Midx(n)) \in Blocks /\ MidOf(r, f, Midx(n)) = MidOf(s, f, Midx(n))
      BY <1>3, <3>1, SoundFacts
    <3>3. Get(r, InBlock(MidOf(s, f, Midx(n)), Sidx(n))) = Get(s, InBlock(MidOf(s, f, Midx(n)), Sidx(n)))
      BY <1>1, <3>1, <3>2
    <3> QED BY <2>3, <3>2, <3>3, AddressAt
  <2> QED BY <2>1, <2>2, <2>3, NumberCases
<1> QED BY <1>2, <1>3, <1>4

LEMMA PutDouble ==
  ASSUME NEW s, Sound(s), NEW r, NEW f \in Files, NEW b, Puts(s, r, InInode(f, DIND_IDX), b),
         Hollow(s, b), Hollow(s, DoubleOf(s, f))
  PROVE  /\ SingleOf(r, f) = SingleOf(s, f) /\ DoubleOf(r, f) = b
         /\ \A m \in Words : MidOf(r, f, m) = MidOf(s, f, m)
         /\ \A n \in FileBlocks : Address(r, f, n) = Address(s, f, n)
<1>1. \A c \in Blocks, k \in Words : Get(r, InBlock(c, k)) = Get(s, InBlock(c, k))
  BY SlotsThere, SlotsDiffer DEF Puts
<1>2. SingleOf(r, f) = SingleOf(s, f) /\ DoubleOf(r, f) = b
  BY CofsSizes, SoundFacts, SlotsDiffer DEF SingleOf, DoubleOf, Puts
<1>3. ASSUME NEW m \in Words PROVE MidOf(r, f, m) = MidOf(s, f, m)
  <2>1. Get(s, InBlock(DoubleOf(s, f), m)) = 0 /\ Get(r, InBlock(b, m)) = 0
    BY <1>1 DEF Hollow
  <2> QED BY <1>2, <2>1 DEF MidOf
<1>4. ASSUME NEW n \in FileBlocks PROVE Address(r, f, n) = Address(s, f, n)
  <2>1. CASE n \in 0..(NUM_DIRECT - 1)
    <3>1. InInode(f, n) \in AllSlots /\ n # DIND_IDX
      BY <2>1, NumberCases, SlotsThere, CofsSizes
    <3>2. InInode(f, n) # InInode(f, DIND_IDX)
      BY <3>1, SlotsDiffer
    <3> QED BY <2>1, <3>1, <3>2, AddressAt DEF Puts
  <2>2. CASE n \in SingleRange
    BY <1>1, <1>2, <2>2, AddressAt, NumberCases, SoundFacts
  <2>3. CASE n \in DoubleRange
    <3>1. Midx(n) \in Words /\ Sidx(n) \in Words
      BY <2>3, NumberCases
    <3>2. MidOf(s, f, Midx(n)) \in Blocks /\ MidOf(r, f, Midx(n)) = MidOf(s, f, Midx(n))
      BY <1>3, <3>1, SoundFacts
    <3>3. Get(r, InBlock(MidOf(s, f, Midx(n)), Sidx(n))) = Get(s, InBlock(MidOf(s, f, Midx(n)), Sidx(n)))
      BY <1>1, <3>1, <3>2
    <3> QED BY <2>3, <3>2, <3>3, AddressAt
  <2> QED BY <2>1, <2>2, <2>3, NumberCases
<1> QED BY <1>2, <1>3, <1>4

LEMMA PutSingleLeaf ==
  ASSUME NEW s, Sound(s), NEW r, NEW f \in Files, NEW N \in SingleRange, NEW b,
         SingleOf(s, f) # 0, Puts(s, r, InBlock(SingleOf(s, f), N - NUM_DIRECT), b)
  PROVE  LeafPut(s, r, f, N, b)
<1> DEFINE slot == InBlock(SingleOf(s, f), N - NUM_DIRECT)
<1>1. \A k \in Addrs : Get(r, InInode(f, k)) = Get(s, InInode(f, k))
  BY SlotsThere, SlotsDiffer DEF Puts
<1>2. SingleOf(r, f) = SingleOf(s, f) /\ DoubleOf(r, f) = DoubleOf(s, f)
  BY <1>1, CofsSizes DEF SingleOf, DoubleOf
<1>3. \A c \in Blocks, k \in Words : c # SingleOf(s, f) => Get(r, InBlock(c, k)) = Get(s, InBlock(c, k))
  BY SlotsThere, SlotsDiffer DEF Puts
<1>4. ASSUME NEW m \in Words PROVE MidOf(r, f, m) = MidOf(s, f, m)
  <2>1. DoubleOf(s, f) # SingleOf(s, f) /\ DoubleOf(s, f) \in Blocks
    BY MapsApart, SoundFacts
  <2> QED BY <1>2, <1>3, <2>1 DEF MidOf
<1>5. ASSUME NEW n \in FileBlocks PROVE Address(r, f, n) = IF n = N THEN b ELSE Address(s, f, n)
  <2>1. CASE n \in 0..(NUM_DIRECT - 1)
    <3>1. n \in Addrs /\ n # N
      BY <2>1, NumberCases
    <3> QED BY <1>1, <2>1, <3>1, AddressAt
  <2>2. CASE n \in SingleRange
    <3>1. InBlock(SingleOf(s, f), n - NUM_DIRECT) \in AllSlots
      BY <2>2, NumberCases, SlotsThere, SoundFacts
    <3>2. n \in Int /\ N \in Int /\ NUM_DIRECT \in Int
      BY <2>2, CofsSizes DEF SingleRange
    <3>3. n - NUM_DIRECT = N - NUM_DIRECT <=> n = N
      BY <3>2
    <3>4. InBlock(SingleOf(s, f), n - NUM_DIRECT) = slot <=> n = N
      BY <3>3, SlotsDiffer
    <3>5. Get(r, InBlock(SingleOf(s, f), n - NUM_DIRECT))
             = IF n = N THEN b ELSE Get(s, InBlock(SingleOf(s, f), n - NUM_DIRECT))
      BY <3>1, <3>4 DEF Puts
    <3> QED BY <1>2, <2>2, <3>5, AddressAt
  <2>3. CASE n \in DoubleRange
    <3>1. Midx(n) \in Words /\ Sidx(n) \in Words /\ n # N
      BY <2>3, NumberCases
    <3>2. MidOf(s, f, Midx(n)) \in Blocks /\ MidOf(r, f, Midx(n)) = MidOf(s, f, Midx(n))
      BY <1>4, <3>1, SoundFacts
    <3>3. MidOf(s, f, Midx(n)) # SingleOf(s, f)
      BY <3>1, MapsApart
    <3>4. Get(r, InBlock(MidOf(s, f, Midx(n)), Sidx(n))) = Get(s, InBlock(MidOf(s, f, Midx(n)), Sidx(n)))
      BY <1>3, <3>1, <3>2, <3>3
    <3> QED BY <2>3, <3>1, <3>2, <3>4, AddressAt
  <2> QED BY <2>1, <2>2, <2>3, NumberCases
<1> QED BY <1>2, <1>4, <1>5 DEF LeafPut, SameMaps

LEMMA PutMid ==
  ASSUME NEW s, Sound(s), NEW r, NEW f \in Files, NEW j \in Words, NEW b,
         DoubleOf(s, f) # 0, Puts(s, r, InBlock(DoubleOf(s, f), j), b),
         Hollow(s, b), b # DoubleOf(s, f), Hollow(s, MidOf(s, f, j))
  PROVE  /\ SingleOf(r, f) = SingleOf(s, f) /\ DoubleOf(r, f) = DoubleOf(s, f)
         /\ \A m \in Words : MidOf(r, f, m) = IF m = j THEN b ELSE MidOf(s, f, m)
         /\ \A n \in FileBlocks : Address(r, f, n) = Address(s, f, n)
<1>1. \A k \in Addrs : Get(r, InInode(f, k)) = Get(s, InInode(f, k))
  BY SlotsThere, SlotsDiffer DEF Puts
<1>2. SingleOf(r, f) = SingleOf(s, f) /\ DoubleOf(r, f) = DoubleOf(s, f)
  BY <1>1, CofsSizes DEF SingleOf, DoubleOf
<1>3. \A c \in Blocks, k \in Words : c # DoubleOf(s, f) => Get(r, InBlock(c, k)) = Get(s, InBlock(c, k))
  BY SlotsThere, SlotsDiffer DEF Puts
<1>4. ASSUME NEW m \in Words PROVE MidOf(r, f, m) = IF m = j THEN b ELSE MidOf(s, f, m)
  <2>1. InBlock(DoubleOf(s, f), m) \in AllSlots
    BY SoundFacts
  <2>2. InBlock(DoubleOf(s, f), m) = InBlock(DoubleOf(s, f), j) <=> m = j
    BY SlotsDiffer
  <2>3. Get(r, InBlock(DoubleOf(s, f), m)) = IF m = j THEN b ELSE Get(s, InBlock(DoubleOf(s, f), m))
    BY <2>1, <2>2 DEF Puts
  <2> QED BY <1>2, <2>3 DEF MidOf
<1>5. ASSUME NEW n \in FileBlocks PROVE Address(r, f, n) = Address(s, f, n)
  <2>1. CASE n \in 0..(NUM_DIRECT - 1)
    BY <1>1, <2>1, NumberCases, AddressAt
  <2>2. CASE n \in SingleRange
    <3>1. SingleOf(s, f) \in Blocks /\ SingleOf(s, f) # DoubleOf(s, f)
      BY SoundFacts, MapsApart
    <3> QED BY <1>2, <1>3, <2>2, <3>1, AddressAt, NumberCases
  <2>3. CASE n \in DoubleRange
    <3>1. Midx(n) \in Words /\ Sidx(n) \in Words
      BY <2>3, NumberCases
    <3>2. CASE Midx(n) = j
      <4>1. Get(s, InBlock(MidOf(s, f, j), Sidx(n))) = 0 /\ Get(s, InBlock(b, Sidx(n))) = 0 /\ b \in Blocks
        BY <3>1 DEF Hollow
      <4>2. Get(r, InBlock(b, Sidx(n))) = 0
        BY <1>3, <3>1, <4>1
      <4>3. MidOf(r, f, Midx(n)) = b
        BY <1>4, <3>1, <3>2
      <4> QED BY <2>3, <3>2, <4>1, <4>2, <4>3, AddressAt
    <3>3. CASE Midx(n) # j
      <4>1. MidOf(r, f, Midx(n)) = MidOf(s, f, Midx(n))
        BY <1>4, <3>1, <3>3
      <4>2. MidOf(s, f, Midx(n)) \in Blocks /\ MidOf(s, f, Midx(n)) # DoubleOf(s, f)
        BY <3>1, SoundFacts, MapsApart
      <4>3. Get(r, InBlock(MidOf(s, f, Midx(n)), Sidx(n))) = Get(s, InBlock(MidOf(s, f, Midx(n)), Sidx(n)))
        BY <1>3, <3>1, <4>2
      <4> QED BY <2>3, <4>1, <4>3, AddressAt
    <3> QED BY <3>2, <3>3
  <2> QED BY <2>1, <2>2, <2>3, NumberCases
<1> QED BY <1>2, <1>4, <1>5

(* The slot of the double indirect block for mid j is cleared.              *)
MidCleared(s, r, f, j) ==
    /\ SingleOf(r, f) = SingleOf(s, f) /\ DoubleOf(r, f) = DoubleOf(s, f)
    /\ \A m \in Words : MidOf(r, f, m) = IF m = j THEN 0 ELSE MidOf(s, f, m)
    /\ \A n \in FileBlocks : Address(r, f, n) = Address(s, f, n)

LEMMA ClearMid ==
  ASSUME NEW s, Sound(s), NEW r, NEW f \in Files, NEW j \in Words, DoubleOf(s, f) # 0,
         Puts(s, r, InBlock(DoubleOf(s, f), j), 0), Hollow(s, 0), Hollow(s, MidOf(s, f, j))
  PROVE  MidCleared(s, r, f, j)
  BY PutMid DEF MidCleared

LEMMA PutDoubleLeaf ==
  ASSUME NEW s, Sound(s), NEW r, NEW f \in Files, NEW N \in DoubleRange, NEW b,
         MidOf(s, f, Midx(N)) # 0, Puts(s, r, InBlock(MidOf(s, f, Midx(N)), Sidx(N)), b)
  PROVE  LeafPut(s, r, f, N, b)
<1> DEFINE j == Midx(N)
           mid == MidOf(s, f, j)
           slot == InBlock(mid, Sidx(N))
<1>1. \A k \in Addrs : Get(r, InInode(f, k)) = Get(s, InInode(f, k))
  BY SlotsThere, SlotsDiffer DEF Puts
<1>2. SingleOf(r, f) = SingleOf(s, f) /\ DoubleOf(r, f) = DoubleOf(s, f)
  BY <1>1, CofsSizes DEF SingleOf, DoubleOf
<1>3. \A c \in Blocks, k \in Words : c # mid => Get(r, InBlock(c, k)) = Get(s, InBlock(c, k))
  BY SlotsThere, SlotsDiffer DEF Puts
<1>4. j \in Words /\ Sidx(N) \in Words
  BY NumberCases
<1>5. mid # SingleOf(s, f) /\ mid # DoubleOf(s, f) /\ \A m \in Words : MidOf(s, f, m) = mid => m = j
  BY <1>4, MapsApart
<1>6. \A m \in Words : MidOf(r, f, m) = MidOf(s, f, m)
  BY <1>2, <1>3, <1>5, SoundFacts DEF MidOf
<1>7. ASSUME NEW n \in FileBlocks PROVE Address(r, f, n) = IF n = N THEN b ELSE Address(s, f, n)
  <2>1. CASE n \in 0..(NUM_DIRECT - 1)
    <3>1. n \in Addrs /\ n # N
      BY <2>1, NumberCases
    <3> QED BY <1>1, <2>1, <3>1, AddressAt
  <2>2. CASE n \in SingleRange
    <3>1. n # N /\ n - NUM_DIRECT \in Words
      BY <2>2, NumberCases
    <3> QED BY <1>2, <1>3, <1>5, <2>2, <3>1, AddressAt, SoundFacts
  <2>3. CASE n \in DoubleRange
    <3>1. Midx(n) \in Words /\ Sidx(n) \in Words
      BY <2>3, NumberCases
    <3>2. Midx(n) = j /\ Sidx(n) = Sidx(N) => n = N
      <4>1. /\ n = NUM_DIRECT + NUM_SIND + NUM_SIND * Midx(n) + Sidx(n)
            /\ N = NUM_DIRECT + NUM_SIND + NUM_SIND * Midx(N) + Sidx(N)
        BY <2>3, NumberCases
      <4> QED BY <4>1
    <3>3. MidOf(s, f, Midx(n)) \in Blocks /\ InBlock(MidOf(s, f, Midx(n)), Sidx(n)) \in AllSlots
      BY <3>1, SoundFacts, SlotsThere
    <3>4. InBlock(MidOf(s, f, Midx(n)), Sidx(n)) = slot <=> n = N
      <4>1. InBlock(MidOf(s, f, Midx(n)), Sidx(n)) = slot
               <=> MidOf(s, f, Midx(n)) = mid /\ Sidx(n) = Sidx(N)
        BY SlotsDiffer
      <4> QED BY <1>5, <3>1, <3>2, <4>1
    <3>5. Get(r, InBlock(MidOf(s, f, Midx(n)), Sidx(n)))
             = IF n = N THEN b ELSE Get(s, InBlock(MidOf(s, f, Midx(n)), Sidx(n)))
      BY <3>3, <3>4 DEF Puts
    <3> QED BY <1>6, <2>3, <3>1, <3>5, AddressAt
  <2> QED BY <2>1, <2>2, <2>3, NumberCases
<1> QED BY <1>2, <1>6, <1>7 DEF LeafPut, SameMaps

-----------------------------------------------------------------------------
(* block_map.  r comes from s by mapping blocks of file f.                  *)
SameBlocks(s, r, f) == \A n \in FileBlocks : Address(r, f, n) = Address(s, f, n)
Grown(s, r, f) ==
    /\ Sound(r) /\ s.bitmap \subseteq r.bitmap
    /\ \A c \in s.bitmap : r.data[c] = s.data[c]
    /\ Kept(s, r, f)
    /\ \A n \in FileBlocks : Address(s, f, n) # 0 => Address(r, f, n) = Address(s, f, n)

LEMMA GrownSame == \A s, f : Sound(s) => Grown(s, s, f)
  BY DEF Grown, Kept, Seen

LEMMA GrownOn ==
  ASSUME NEW s, NEW a, NEW r, NEW f, Grown(s, a, f), Grown(a, r, f)
  PROVE  Grown(s, r, f)
<1>1. Kept(s, r, f)
  <2>1. \A g \in Files \ {f} : Seen(s, a, g) /\ Seen(a, r, g)
    BY DEF Grown, Kept
  <2> QED BY <2>1 DEF Kept, Seen
<1>2. Sound(r) /\ s.bitmap \subseteq r.bitmap /\ \A c \in s.bitmap : r.data[c] = s.data[c]
  BY DEF Grown
<1>3. \A n \in FileBlocks : Address(s, f, n) # 0 => Address(r, f, n) = Address(s, f, n)
  BY DEF Grown
<1> QED BY <1>1, <1>2, <1>3 DEF Grown

LEMMA OwnProper ==
  ASSUME NEW s, Sound(s), NEW f \in Files, NEW slot, slot \in OwnSlots(s, f)
  PROVE  Proper(s, slot) /\ slot \in AllSlots
<1>1. slot \in AllSlots
  <2>1. MapsOf(s, f) \subseteq Blocks
    BY MapsHeld
  <2> QED BY <2>1, SlotsThere DEF OwnSlots
<1>2. ASSUME NEW b \in Blocks, NEW k \in Words, slot = InBlock(b, k) PROVE b \in MapsOf(s, f)
  BY <1>2, SlotsDiffer DEF OwnSlots
<1> QED BY <1>1, <1>2 DEF Proper

LEMMA OwnThere ==
  ASSUME NEW s, NEW f
  PROVE  /\ \A k \in Addrs : InInode(f, k) \in OwnSlots(s, f)
         /\ \A c \in MapsOf(s, f), k \in Words : InBlock(c, k) \in OwnSlots(s, f)
  BY DEF OwnSlots

LEMMA FillStep ==
  ASSUME NEW s, Sound(s), s.panic = "", NEW f \in Files, NEW slot, slot \in OwnSlots(s, f)
  PROVE  \/ Get(s, slot) # 0 /\ Fill(s, slot) = s
         \/ /\ Get(s, slot) = 0 /\ Fill(s, slot).panic # ""
            /\ Grown(s, Fill(s, slot), f)
         \/ /\ Get(s, slot) = 0 /\ Fill(s, slot).panic = ""
            /\ Sound(Fill(s, slot)) /\ s.bitmap \subseteq Fill(s, slot).bitmap
            /\ \A c \in s.bitmap : Fill(s, slot).data[c] = s.data[c]
            /\ Kept(s, Fill(s, slot), f)
            /\ \E b \in Blocks : b # 0 /\ b \notin s.bitmap /\ Hollow(s, b) /\ Puts(s, Fill(s, slot), slot, b)
<1> DEFINE r == Fill(s, slot)
<1>1. /\ Sound(r)
      /\ \/ Get(s, slot) # 0 /\ r = s
         \/ Get(s, slot) = 0 /\ r = Panic(s, "no free block")
         \/ Get(s, slot) = 0 /\ \E b \in Blocks : Fills(s, r, slot, b)
  BY OwnProper, FillFacts
<1> HIDE DEF r
<1>2. CASE Get(s, slot) = 0 /\ r = Panic(s, "no free block")
  <2>1. r.addrs = s.addrs /\ r.words = s.words /\ r.bitmap = s.bitmap /\ r.data = s.data /\ r.panic # ""
    BY <1>2 DEF Panic, Sound, FsRecord
  <2>2. \A t : Get(r, t) = Get(s, t)
    BY <2>1, SameSlots
  <2>3. \A g : SingleOf(r, g) = SingleOf(s, g) /\ DoubleOf(r, g) = DoubleOf(s, g)
    BY <2>2 DEF SingleOf, DoubleOf
  <2>4. \A g, m : MidOf(r, g, m) = MidOf(s, g, m)
    BY <2>2, <2>3 DEF MidOf
  <2>5. \A g : \A n \in FileBlocks : Address(r, g, n) = Address(s, g, n)
    <3> SUFFICES ASSUME NEW g, NEW n \in FileBlocks PROVE Address(r, g, n) = Address(s, g, n)
      OBVIOUS
    <3>1. CASE n \in 0..(NUM_DIRECT - 1)
      <4>1. Address(r, g, n) = Get(r, InInode(g, n)) /\ Address(s, g, n) = Get(s, InInode(g, n))
        BY <3>1, AddressAt, ZenonT(60)
      <4> QED BY <2>2, <4>1
    <3>2. CASE n \in SingleRange
      <4>1. /\ Address(r, g, n) = Get(r, InBlock(SingleOf(r, g), n - NUM_DIRECT))
            /\ Address(s, g, n) = Get(s, InBlock(SingleOf(s, g), n - NUM_DIRECT))
        BY <3>2, AddressAt, ZenonT(60)
      <4> QED BY <2>2, <2>3, <4>1
    <3>3. CASE n \in DoubleRange
      <4>1. /\ Address(r, g, n) = Get(r, InBlock(MidOf(r, g, Midx(n)), Sidx(n)))
            /\ Address(s, g, n) = Get(s, InBlock(MidOf(s, g, Midx(n)), Sidx(n)))
        BY <3>3, AddressAt
      <4> QED BY <2>2, <2>4, <4>1
    <3> QED BY <3>1, <3>2, <3>3, NumberCases
  <2>6. Kept(s, r, f)
    BY <2>1, <2>3, <2>4, <2>5 DEF Kept, Seen
  <2>7. Grown(s, r, f)
    BY <1>1, <2>1, <2>5, <2>6 DEF Grown
  <2> QED BY <1>2, <2>1, <2>7 DEF r
<1>3. CASE Get(s, slot) = 0 /\ \E b \in Blocks : Fills(s, r, slot, b)
  <2>1. PICK b \in Blocks : Fills(s, r, slot, b)
    BY <1>3
  <2>2. b # 0 /\ b \notin s.bitmap /\ r.panic = "" /\ s.bitmap \subseteq r.bitmap
        /\ \A c \in s.bitmap : r.data[c] = s.data[c]
    BY <2>1 DEF Fills
  <2>3. Hollow(s, b)
    BY <2>2, FreeHoldsNone DEF Hollow
  <2>4. r \in FsRecord /\ slot \in AllSlots
    BY <1>1, OwnProper DEF Sound
  <2>5. Puts(s, r, slot, b)
    BY <2>1, <2>4 DEF Puts, Fills
  <2>6. Kept(s, r, f)
    BY <2>5, KeptOthers
  <2> QED BY <1>1, <1>3, <2>2, <2>3, <2>5, <2>6 DEF r
<1> QED BY <1>1, <1>2, <1>3 DEF r

(* The slot of file block N, and that it is filled.                         *)
LeafSlot(s, slot, f, N) ==
    /\ slot \in OwnSlots(s, f) /\ Address(s, f, N) = Get(s, slot)
    /\ \A q, b : Puts(s, q, slot, b) => LeafPut(s, q, f, N, b)

LeafFilled(s, r, f, N) ==
    /\ Grown(s, r, f)
    /\ r.panic = "" =>
          /\ SameMaps(s, r, f)
          /\ \A n \in FileBlocks : Address(r, f, n) # 0 <=> Address(s, f, n) # 0 \/ n = N

LEMMA FillLeaf ==
  ASSUME NEW s, Sound(s), s.panic = "", NEW f \in Files, NEW N \in FileBlocks,
         NEW slot, LeafSlot(s, slot, f, N)
  PROVE  LeafFilled(s, Fill(s, slot), f, N)
<1> DEFINE r == Fill(s, slot)
<1>0. slot \in OwnSlots(s, f) /\ Address(s, f, N) = Get(s, slot)
  BY DEF LeafSlot
<1>1. CASE Get(s, slot) # 0 /\ r = s
  <2>1. \A n \in FileBlocks : Address(r, f, n) # 0 <=> Address(s, f, n) # 0 \/ n = N
    BY <1>0, <1>1
  <2> QED BY <1>1, <2>1, GrownSame DEF SameMaps, LeafFilled
<1>2. CASE r.panic # "" /\ Grown(s, r, f)
  BY <1>2 DEF LeafFilled
<1>3. CASE /\ Get(s, slot) = 0 /\ r.panic = ""
           /\ Sound(r) /\ s.bitmap \subseteq r.bitmap
           /\ \A c \in s.bitmap : r.data[c] = s.data[c]
           /\ Kept(s, r, f)
           /\ \E b \in Blocks : b # 0 /\ b \notin s.bitmap /\ Hollow(s, b) /\ Puts(s, r, slot, b)
  <2> HIDE DEF r
  <2>1. PICK b \in Blocks : b # 0 /\ Puts(s, r, slot, b)
    BY <1>3
  <2>2. LeafPut(s, r, f, N, b)
    BY <2>1 DEF LeafSlot
  <2>3. /\ SameMaps(s, r, f)
        /\ \A n \in FileBlocks : Address(r, f, n) = IF n = N THEN b ELSE Address(s, f, n)
    BY <2>2 DEF LeafPut
  <2>4. \A n \in FileBlocks : Address(r, f, n) # 0 <=> Address(s, f, n) # 0 \/ n = N
    BY <2>1, <2>3
  <2>5. \A n \in FileBlocks : Address(s, f, n) # 0 => Address(r, f, n) = Address(s, f, n)
    BY <1>0, <1>3, <2>3
  <2>6. Grown(s, r, f)
    BY <1>3, <2>5 DEF Grown
  <2> QED BY <2>3, <2>4, <2>6 DEF r, LeafFilled
<1>4. \/ Get(s, slot) # 0 /\ r = s
      \/ Get(s, slot) = 0 /\ r.panic # "" /\ Grown(s, r, f)
      \/ /\ Get(s, slot) = 0 /\ r.panic = ""
         /\ Sound(r) /\ s.bitmap \subseteq r.bitmap
         /\ \A c \in s.bitmap : r.data[c] = s.data[c]
         /\ Kept(s, r, f)
         /\ \E b \in Blocks : b # 0 /\ b \notin s.bitmap /\ Hollow(s, b) /\ Puts(s, r, slot, b)
  BY <1>0, FillStep
<1> QED BY <1>1, <1>2, <1>3, <1>4

LEMMA HollowNone == \A s : Sound(s) => Hollow(s, 0)
  BY SoundFacts, CofsSizes DEF Hollow

LEMMA FillSingle ==
  ASSUME NEW s, Sound(s), s.panic = "", NEW f \in Files
  PROVE  LET a == Fill(s, InInode(f, SIND_IDX))
         IN  /\ Grown(s, a, f)
             /\ a.panic = "" =>
                   /\ SingleOf(a, f) # 0 /\ DoubleOf(a, f) = DoubleOf(s, f)
                   /\ \A m \in Words : MidOf(a, f, m) = MidOf(s, f, m)
                   /\ SameBlocks(s, a, f)
<1> DEFINE slot == InInode(f, SIND_IDX)
           a == Fill(s, slot)
<1>1. slot \in OwnSlots(s, f) /\ Get(s, slot) = SingleOf(s, f)
  <2>1. slot \in OwnSlots(s, f)
    BY CofsSizes, OwnThere
  <2> QED BY <2>1 DEF SingleOf
<1>2. CASE Get(s, slot) # 0 /\ a = s
  BY <1>1, <1>2, GrownSame DEF SameBlocks
<1>3. CASE a.panic # "" /\ Grown(s, a, f)
  BY <1>3
<1>4. CASE /\ Get(s, slot) = 0 /\ a.panic = ""
           /\ Sound(a) /\ s.bitmap \subseteq a.bitmap
           /\ \A c \in s.bitmap : a.data[c] = s.data[c]
           /\ Kept(s, a, f)
           /\ \E b \in Blocks : b # 0 /\ b \notin s.bitmap /\ Hollow(s, b) /\ Puts(s, a, slot, b)
  <2> HIDE DEF a
  <2>1. PICK b \in Blocks : b # 0 /\ b \notin s.bitmap /\ Hollow(s, b) /\ Puts(s, a, slot, b)
    BY <1>4
  <2>2. Hollow(s, SingleOf(s, f))
    BY <1>1, <1>4, HollowNone
  <2>3. /\ SingleOf(a, f) = b /\ DoubleOf(a, f) = DoubleOf(s, f)
        /\ \A m \in Words : MidOf(a, f, m) = MidOf(s, f, m)
        /\ SameBlocks(s, a, f)
    BY <2>1, <2>2, PutSingle DEF SameBlocks
  <2>4. Grown(s, a, f)
    BY <1>4, <2>3 DEF Grown, SameBlocks
  <2> QED BY <2>1, <2>3, <2>4 DEF a
<1>5. \/ Get(s, slot) # 0 /\ a = s
      \/ Get(s, slot) = 0 /\ a.panic # "" /\ Grown(s, a, f)
      \/ /\ Get(s, slot) = 0 /\ a.panic = ""
         /\ Sound(a) /\ s.bitmap \subseteq a.bitmap
         /\ \A c \in s.bitmap : a.data[c] = s.data[c]
         /\ Kept(s, a, f)
         /\ \E b \in Blocks : b # 0 /\ b \notin s.bitmap /\ Hollow(s, b) /\ Puts(s, a, slot, b)
  BY <1>1, FillStep
<1> QED BY <1>2, <1>3, <1>4, <1>5

LEMMA FillDouble ==
  ASSUME NEW s, Sound(s), s.panic = "", NEW f \in Files
  PROVE  LET a == Fill(s, InInode(f, DIND_IDX))
         IN  /\ Grown(s, a, f)
             /\ a.panic = "" =>
                   /\ DoubleOf(a, f) # 0 /\ SingleOf(a, f) = SingleOf(s, f)
                   /\ \A m \in Words : MidOf(a, f, m) = MidOf(s, f, m)
                   /\ SameBlocks(s, a, f)
<1> DEFINE slot == InInode(f, DIND_IDX)
           a == Fill(s, slot)
<1>1. slot \in OwnSlots(s, f) /\ Get(s, slot) = DoubleOf(s, f)
  <2>1. slot \in OwnSlots(s, f)
    BY CofsSizes, OwnThere
  <2> QED BY <2>1 DEF DoubleOf
<1>2. CASE Get(s, slot) # 0 /\ a = s
  BY <1>1, <1>2, GrownSame DEF SameBlocks
<1>3. CASE a.panic # "" /\ Grown(s, a, f)
  BY <1>3
<1>4. CASE /\ Get(s, slot) = 0 /\ a.panic = ""
           /\ Sound(a) /\ s.bitmap \subseteq a.bitmap
           /\ \A c \in s.bitmap : a.data[c] = s.data[c]
           /\ Kept(s, a, f)
           /\ \E b \in Blocks : b # 0 /\ b \notin s.bitmap /\ Hollow(s, b) /\ Puts(s, a, slot, b)
  <2> HIDE DEF a
  <2>1. PICK b \in Blocks : b # 0 /\ b \notin s.bitmap /\ Hollow(s, b) /\ Puts(s, a, slot, b)
    BY <1>4
  <2>2. Hollow(s, DoubleOf(s, f))
    BY <1>1, <1>4, HollowNone
  <2>3. /\ DoubleOf(a, f) = b /\ SingleOf(a, f) = SingleOf(s, f)
        /\ \A m \in Words : MidOf(a, f, m) = MidOf(s, f, m)
        /\ SameBlocks(s, a, f)
    BY <2>1, <2>2, PutDouble DEF SameBlocks
  <2>4. Grown(s, a, f)
    BY <1>4, <2>3 DEF Grown, SameBlocks
  <2> QED BY <2>1, <2>3, <2>4 DEF a
<1>5. \/ Get(s, slot) # 0 /\ a = s
      \/ Get(s, slot) = 0 /\ a.panic # "" /\ Grown(s, a, f)
      \/ /\ Get(s, slot) = 0 /\ a.panic = ""
         /\ Sound(a) /\ s.bitmap \subseteq a.bitmap
         /\ \A c \in s.bitmap : a.data[c] = s.data[c]
         /\ Kept(s, a, f)
         /\ \E b \in Blocks : b # 0 /\ b \notin s.bitmap /\ Hollow(s, b) /\ Puts(s, a, slot, b)
  BY <1>1, FillStep
<1> QED BY <1>2, <1>3, <1>4, <1>5

LEMMA FillMid ==
  ASSUME NEW s, Sound(s), s.panic = "", NEW f \in Files, NEW j \in Words, DoubleOf(s, f) # 0
  PROVE  LET a == Fill(s, InBlock(DoubleOf(s, f), j))
         IN  /\ Grown(s, a, f)
             /\ a.panic = "" =>
                   /\ DoubleOf(a, f) = DoubleOf(s, f) /\ SingleOf(a, f) = SingleOf(s, f)
                   /\ MidOf(a, f, j) # 0
                   /\ \A m \in Words : m # j => MidOf(a, f, m) = MidOf(s, f, m)
                   /\ SameBlocks(s, a, f)
<1> DEFINE slot == InBlock(DoubleOf(s, f), j)
           a == Fill(s, slot)
<1>1. slot \in OwnSlots(s, f) /\ Get(s, slot) = MidOf(s, f, j)
  <2>1. DoubleOf(s, f) \in MapsOf(s, f)
    BY DEF MapsOf
  <2>2. slot \in OwnSlots(s, f)
    BY <2>1, OwnThere
  <2> QED BY <2>2 DEF MidOf
<1>2. CASE Get(s, slot) # 0 /\ a = s
  BY <1>1, <1>2, GrownSame DEF SameBlocks
<1>3. CASE a.panic # "" /\ Grown(s, a, f)
  BY <1>3
<1>4. CASE /\ Get(s, slot) = 0 /\ a.panic = ""
           /\ Sound(a) /\ s.bitmap \subseteq a.bitmap
           /\ \A c \in s.bitmap : a.data[c] = s.data[c]
           /\ Kept(s, a, f)
           /\ \E b \in Blocks : b # 0 /\ b \notin s.bitmap /\ Hollow(s, b) /\ Puts(s, a, slot, b)
  <2> HIDE DEF a
  <2>1. PICK b \in Blocks : b # 0 /\ b \notin s.bitmap /\ Hollow(s, b) /\ Puts(s, a, slot, b)
    BY <1>4
  <2>2. Hollow(s, MidOf(s, f, j))
    BY <1>1, <1>4, HollowNone
  <2>3. b # DoubleOf(s, f)
    <3>1. DoubleOf(s, f) \in s.bitmap
      BY MapsHeld DEF MapsOf
    <3> QED BY <2>1, <3>1
  <2>4. /\ SingleOf(a, f) = SingleOf(s, f) /\ DoubleOf(a, f) = DoubleOf(s, f)
        /\ \A m \in Words : MidOf(a, f, m) = IF m = j THEN b ELSE MidOf(s, f, m)
        /\ SameBlocks(s, a, f)
    BY <2>1, <2>2, <2>3, PutMid DEF SameBlocks
  <2>5. Grown(s, a, f)
    BY <1>4, <2>4 DEF Grown, SameBlocks
  <2> QED BY <2>1, <2>4, <2>5 DEF a
<1>5. \/ Get(s, slot) # 0 /\ a = s
      \/ Get(s, slot) = 0 /\ a.panic # "" /\ Grown(s, a, f)
      \/ /\ Get(s, slot) = 0 /\ a.panic = ""
         /\ Sound(a) /\ s.bitmap \subseteq a.bitmap
         /\ \A c \in s.bitmap : a.data[c] = s.data[c]
         /\ Kept(s, a, f)
         /\ \E b \in Blocks : b # 0 /\ b \notin s.bitmap /\ Hollow(s, b) /\ Puts(s, a, slot, b)
  BY <1>1, FillStep
<1> QED BY <1>2, <1>3, <1>4, <1>5

(* r has one block of file f more than s, and what leads to it.             *)
Mapped(s, r, f, N) ==
    /\ \A n \in FileBlocks : Address(r, f, n) # 0 <=> Address(s, f, n) # 0 \/ n = N
    /\ SingleOf(r, f) # 0 <=> SingleOf(s, f) # 0 \/ N \in SingleRange
    /\ DoubleOf(r, f) # 0 <=> DoubleOf(s, f) # 0 \/ N \in DoubleRange
    /\ \A m \in Words : MidOf(r, f, m) # 0 <=> MidOf(s, f, m) # 0 \/ (N \in DoubleRange /\ m = Midx(N))

LEMMA FillPanicked == \A s, slot : s.panic # "" => Fill(s, slot) = s
  BY DEF Fill

LEMMA BlockMapCases ==
  /\ \A s, f, n : n \in 0..(NUM_DIRECT - 1) => BlockMap(s, f, n) = Fill(s, InInode(f, n))
  /\ \A s, f, n : n \in SingleRange =>
        BlockMap(s, f, n) =
           LET a == Fill(s, InInode(f, SIND_IDX)) IN Fill(a, InBlock(SingleOf(a, f), n - NUM_DIRECT))
  /\ \A s, f, n : n \in DoubleRange =>
        BlockMap(s, f, n) =
           LET a == Fill(s, InInode(f, DIND_IDX))
               c == Fill(a, InBlock(DoubleOf(a, f), Midx(n)))
           IN  Fill(c, InBlock(Get(c, InBlock(DoubleOf(a, f), Midx(n))), Sidx(n)))
<1>1. /\ NUM_DIRECT \in Nat \ {0} /\ NUM_SIND \in Nat \ {0} /\ NUM_DIND \in Nat \ {0}
  BY CofsSizes
<1>2. ASSUME NEW s, NEW f, NEW n, n \in 0..(NUM_DIRECT - 1) PROVE BlockMap(s, f, n) = Fill(s, InInode(f, n))
  <2>1. n < NUM_DIRECT
    BY <1>1, <1>2
  <2> QED BY <2>1 DEF BlockMap
<1>3. ASSUME NEW s, NEW f, NEW n, n \in SingleRange
      PROVE  BlockMap(s, f, n) =
               LET a == Fill(s, InInode(f, SIND_IDX)) IN Fill(a, InBlock(SingleOf(a, f), n - NUM_DIRECT))
  <2>1. ~(n < NUM_DIRECT) /\ n < NUM_DIRECT + NUM_SIND
    BY <1>1, <1>3 DEF SingleRange
  <2> QED BY <2>1 DEF BlockMap, SingleOf
<1>4. ASSUME NEW s, NEW f, NEW n, n \in DoubleRange
      PROVE  BlockMap(s, f, n) =
               LET a == Fill(s, InInode(f, DIND_IDX))
                   c == Fill(a, InBlock(DoubleOf(a, f), Midx(n)))
               IN  Fill(c, InBlock(Get(c, InBlock(DoubleOf(a, f), Midx(n))), Sidx(n)))
  <2> DEFINE D == NUM_DIND
  <2>1. D \in Nat \ {0} /\ n \in (NUM_DIRECT + NUM_SIND)..(NUM_DIRECT + NUM_SIND + D - 1)
    BY <1>1, <1>4 DEF DoubleRange
  <2> HIDE DEF D
  <2>2. ~(n < NUM_DIRECT) /\ ~(n < NUM_DIRECT + NUM_SIND) /\ n < NUM_DIRECT + NUM_SIND + D
    BY <1>1, <2>1
  <2> QED BY <2>2 DEF BlockMap, DoubleOf, D
<1> QED BY <1>2, <1>3, <1>4

(* block_map fails for want of free blocks, or maps the block; what was mapped
   stays where it was.                                                      *)
LEMMA BlockMapStep ==
  ASSUME NEW s, Sound(s), s.panic = "", NEW f \in Files, NEW N \in FileBlocks
  PROVE  /\ Grown(s, BlockMap(s, f, N), f)
         /\ BlockMap(s, f, N).panic = "" => Mapped(s, BlockMap(s, f, N), f, N)
<1> DEFINE r == BlockMap(s, f, N)
<1>1. CASE N \in 0..(NUM_DIRECT - 1)
  <2> DEFINE slot == InInode(f, N)
  <2>1. r = Fill(s, slot)
    BY <1>1, BlockMapCases, ZenonT(60)
  <2>2. slot \in OwnSlots(s, f) /\ Address(s, f, N) = Get(s, slot) /\ N \notin SingleRange /\ N \notin DoubleRange
    BY <1>1, NumberCases, OwnThere, AddressAt
  <2>3. LeafSlot(s, slot, f, N)
    <3>1. \A q, b : Puts(s, q, slot, b) => LeafPut(s, q, f, N, b)
      BY <1>1, PutDirect
    <3> HIDE DEF slot
    <3> QED BY <2>2, <3>1 DEF LeafSlot
  <2> HIDE DEF r, slot
  <2>4. /\ Grown(s, r, f)
        /\ r.panic = "" =>
              /\ SameMaps(s, r, f)
              /\ \A n \in FileBlocks : Address(r, f, n) # 0 <=> Address(s, f, n) # 0 \/ n = N
    <3>1. LeafFilled(s, r, f, N)
      BY <2>1, <2>3, FillLeaf
    <3> QED BY <3>1 DEF LeafFilled
  <2>5. r.panic = "" => Mapped(s, r, f, N)
    BY <2>2, <2>4 DEF Mapped, SameMaps
  <2> QED BY <2>4, <2>5 DEF r
<1>2. CASE N \in SingleRange
  <2> DEFINE a == Fill(s, InInode(f, SIND_IDX))
             slot == InBlock(SingleOf(a, f), N - NUM_DIRECT)
  <2>1. r = Fill(a, slot)
    BY <1>2, BlockMapCases, ZenonT(60)
  <2>2. /\ Grown(s, a, f)
        /\ a.panic = "" =>
              /\ SingleOf(a, f) # 0 /\ DoubleOf(a, f) = DoubleOf(s, f)
              /\ \A m \in Words : MidOf(a, f, m) = MidOf(s, f, m)
              /\ SameBlocks(s, a, f)
    BY FillSingle
  <2> HIDE DEF a, r
  <2>3. CASE a.panic # ""
    <3>1. r = a
      BY <2>1, <2>3, FillPanicked
    <3> QED BY <2>2, <2>3, <3>1 DEF r
  <2>4. CASE a.panic = ""
    <3>1. Sound(a)
      BY <2>2 DEF Grown
    <3>2. SingleOf(a, f) \in MapsOf(a, f) /\ N - NUM_DIRECT \in Words
      BY <1>2, <2>2, <2>4, NumberCases DEF MapsOf
    <3>3. slot \in OwnSlots(a, f) /\ Address(a, f, N) = Get(a, slot)
      BY <1>2, <3>2, OwnThere, AddressAt
    <3>4. \A q, b : Puts(a, q, slot, b) => LeafPut(a, q, f, N, b)
      BY <1>2, <2>2, <2>4, <3>1, PutSingleLeaf
    <3> HIDE DEF slot
    <3>9. LeafSlot(a, slot, f, N)
      BY <3>3, <3>4 DEF LeafSlot
    <3>5. /\ Grown(a, r, f)
          /\ r.panic = "" =>
                /\ SameMaps(a, r, f)
                /\ \A n \in FileBlocks : Address(r, f, n) # 0 <=> Address(a, f, n) # 0 \/ n = N
      <4>1. LeafFilled(a, r, f, N)
        BY <2>1, <2>4, <3>1, <3>9, FillLeaf
      <4> QED BY <4>1 DEF LeafFilled
    <3>6. Grown(s, r, f)
      BY <2>2, <3>5, GrownOn
    <3>7. N \notin DoubleRange
      BY <1>2, NumberCases
    <3>8. ASSUME r.panic = "" PROVE Mapped(s, r, f, N)
      <4>1. SingleOf(r, f) # 0 /\ DoubleOf(r, f) = DoubleOf(s, f) /\ \A m \in Words : MidOf(r, f, m) = MidOf(s, f, m)
        BY <2>2, <2>4, <3>5, <3>8 DEF SameMaps
      <4>2. \A n \in FileBlocks : Address(r, f, n) # 0 <=> Address(s, f, n) # 0 \/ n = N
        BY <2>2, <2>4, <3>5, <3>8 DEF SameBlocks
      <4> QED BY <1>2, <3>7, <4>1, <4>2 DEF Mapped
    <3> QED BY <3>6, <3>8 DEF r
  <2> QED BY <2>3, <2>4
<1>3. CASE N \in DoubleRange
  <2> DEFINE a == Fill(s, InInode(f, DIND_IDX))
             j == Midx(N)
             mid == InBlock(DoubleOf(a, f), j)
             c == Fill(a, mid)
             slot == InBlock(Get(c, mid), Sidx(N))
  <2>1. r = Fill(c, slot)
    BY <1>3, BlockMapCases, ZenonT(60)
  <2>2. /\ Grown(s, a, f)
        /\ a.panic = "" =>
              /\ DoubleOf(a, f) # 0 /\ SingleOf(a, f) = SingleOf(s, f)
              /\ \A m \in Words : MidOf(a, f, m) = MidOf(s, f, m)
              /\ SameBlocks(s, a, f)
    BY FillDouble
  <2>3. j \in Words /\ Sidx(N) \in Words /\ N \notin SingleRange
    BY <1>3, NumberCases
  <2> HIDE DEF a, r
  <2>4. CASE a.panic # ""
    <3>1. c = a
      BY <2>4, FillPanicked
    <3>2. r = a
      BY <2>1, <2>4, <3>1, FillPanicked
    <3> QED BY <2>2, <2>4, <3>2 DEF r
  <2>5. CASE a.panic = ""
    <3>1. Sound(a)
      BY <2>2 DEF Grown
    <3>2. /\ Grown(a, c, f)
          /\ c.panic = "" =>
                /\ DoubleOf(c, f) = DoubleOf(a, f) /\ SingleOf(c, f) = SingleOf(a, f)
                /\ MidOf(c, f, j) # 0
                /\ \A m \in Words : m # j => MidOf(c, f, m) = MidOf(a, f, m)
                /\ SameBlocks(a, c, f)
      BY <2>2, <2>3, <2>5, <3>1, FillMid
    <3>3. Grown(s, c, f)
      BY <2>2, <3>2, GrownOn
    <3> HIDE DEF c
    <3>4. CASE c.panic # ""
      <4>1. r = c
        BY <2>1, <3>4, FillPanicked
      <4> QED BY <3>3, <3>4, <4>1 DEF r
    <3>5. CASE c.panic = ""
      <4>1. Sound(c) /\ Get(c, mid) = MidOf(c, f, j) /\ MidOf(c, f, j) # 0
        BY <3>2, <3>5 DEF Grown, MidOf
      <4>2. MidOf(c, f, j) \in MapsOf(c, f)
        BY <2>3, <4>1 DEF MapsOf
      <4>3. slot = InBlock(MidOf(c, f, j), Sidx(N))
        BY <4>1
      <4>4. slot \in OwnSlots(c, f) /\ Address(c, f, N) = Get(c, slot)
        BY <1>3, <2>3, <4>2, <4>3, OwnThere, AddressAt, ZenonT(60)
      <4>5. \A q, b : Puts(c, q, slot, b) => LeafPut(c, q, f, N, b)
        BY <1>3, <4>1, <4>3, PutDoubleLeaf
      <4> HIDE DEF slot, mid
      <4>9. LeafSlot(c, slot, f, N)
        BY <4>4, <4>5 DEF LeafSlot
      <4>6. /\ Grown(c, r, f)
            /\ r.panic = "" =>
                  /\ SameMaps(c, r, f)
                  /\ \A n \in FileBlocks : Address(r, f, n) # 0 <=> Address(c, f, n) # 0 \/ n = N
        <5>1. LeafFilled(c, r, f, N)
          BY <2>1, <3>5, <4>1, <4>9, FillLeaf
        <5> QED BY <5>1 DEF LeafFilled
      <4>7. Grown(s, r, f)
        BY <3>3, <4>6, GrownOn
      <4>8. ASSUME r.panic = "" PROVE Mapped(s, r, f, N)
        <5>1. DoubleOf(r, f) # 0 /\ SingleOf(r, f) = SingleOf(s, f)
          BY <2>2, <2>5, <3>2, <3>5, <4>6, <4>8 DEF SameMaps
        <5>2. \A m \in Words : MidOf(r, f, m) # 0 <=> MidOf(s, f, m) # 0 \/ m = j
          BY <2>2, <2>5, <3>2, <3>5, <4>6, <4>8 DEF SameMaps
        <5>3. \A n \in FileBlocks : Address(r, f, n) # 0 <=> Address(s, f, n) # 0 \/ n = N
          BY <2>2, <2>5, <3>2, <3>5, <4>6, <4>8 DEF SameBlocks
        <5> QED BY <1>3, <2>3, <5>1, <5>2, <5>3 DEF Mapped
      <4> QED BY <4>7, <4>8 DEF r
    <3> QED BY <3>4, <3>5
  <2> QED BY <2>4, <2>5
<1> QED BY <1>1, <1>2, <1>3, NumberCases

(* A mapped block is found, and nothing changes.                            *)
LEMMA BlockMapFinds ==
  ASSUME NEW s, Sound(s), s.panic = "", NEW f \in Files, NEW N \in FileBlocks, Address(s, f, N) # 0
  PROVE  BlockMap(s, f, N) = s
<1>1. \A k \in Words : Get(s, InBlock(0, k)) = 0
  BY SoundFacts
<1>2. \A slot : Get(s, slot) # 0 => Fill(s, slot) = s
  BY DEF Fill
<1>3. CASE N \in 0..(NUM_DIRECT - 1)
  <2>1. BlockMap(s, f, N) = Fill(s, InInode(f, N)) /\ Get(s, InInode(f, N)) # 0
    BY <1>3, AddressAt, BlockMapCases
  <2> QED BY <1>2, <2>1
<1>4. CASE N \in SingleRange
  <2>1. Get(s, InBlock(SingleOf(s, f), N - NUM_DIRECT)) # 0 /\ N - NUM_DIRECT \in Words
    BY <1>4, AddressAt, NumberCases
  <2>2. SingleOf(s, f) # 0
    BY <1>1, <2>1
  <2>3. Fill(s, InInode(f, SIND_IDX)) = s
    BY <1>2, <2>2 DEF SingleOf
  <2> DEFINE a == Fill(s, InInode(f, SIND_IDX))
  <2>4. BlockMap(s, f, N) = Fill(a, InBlock(SingleOf(a, f), N - NUM_DIRECT))
    BY <1>4, BlockMapCases, ZenonT(60)
  <2>5. a = s
    BY <2>3
  <2> HIDE DEF a
  <2> QED BY <1>2, <2>1, <2>4, <2>5
<1>5. CASE N \in DoubleRange
  <2>1. /\ Get(s, InBlock(MidOf(s, f, Midx(N)), Sidx(N))) # 0
        /\ Midx(N) \in Words /\ Sidx(N) \in Words
    BY <1>5, AddressAt, NumberCases
  <2>2. MidOf(s, f, Midx(N)) # 0
    BY <1>1, <2>1
  <2>3. DoubleOf(s, f) # 0
    BY <2>1, <2>2, SoundFacts
  <2>4. Fill(s, InInode(f, DIND_IDX)) = s
    BY <1>2, <2>3 DEF DoubleOf
  <2>5. Fill(s, InBlock(DoubleOf(s, f), Midx(N))) = s
    BY <1>2, <2>2 DEF MidOf
  <2>6. Fill(s, InBlock(Get(s, InBlock(DoubleOf(s, f), Midx(N))), Sidx(N))) = s
    BY <1>2, <2>1 DEF MidOf
  <2> DEFINE a == Fill(s, InInode(f, DIND_IDX))
             c == Fill(a, InBlock(DoubleOf(a, f), Midx(N)))
  <2>7. BlockMap(s, f, N) = Fill(c, InBlock(Get(c, InBlock(DoubleOf(a, f), Midx(N))), Sidx(N)))
    BY <1>5, BlockMapCases, ZenonT(60)
  <2>8. a = s
    BY <2>4
  <2>9. c = s
    BY <2>5, <2>8
  <2> HIDE DEF a, c
  <2> QED BY <2>6, <2>7, <2>8, <2>9
<1> QED BY <1>3, <1>4, <1>5, NumberCases

LEMMA MappedShape ==
  ASSUME NEW s, NEW r, NEW f, NEW N \in FileBlocks, NEW P, Shape(s, f, P), Mapped(s, r, f, N)
  PROVE  Shape(r, f, P \cup {N})
<1>1. \A n \in FileBlocks : Address(r, f, n) # 0 <=> Address(s, f, n) # 0 \/ n = N
  BY DEF Mapped
<1>2. /\ \A n \in SingleRange : n \in FileBlocks
      /\ \A n \in DoubleRange : n \in FileBlocks
  BY NumberCases
<1>3. SingleOf(r, f) # 0 <=> \E n \in SingleRange : Address(r, f, n) # 0
  BY <1>1, <1>2 DEF Mapped, Shape, Neat
<1>4. DoubleOf(r, f) # 0 <=> \E n \in DoubleRange : Address(r, f, n) # 0
  BY <1>1, <1>2 DEF Mapped, Shape, Neat
<1>5. ASSUME NEW m \in Words
      PROVE  MidOf(r, f, m) # 0 <=> \E n \in DoubleRange : Midx(n) = m /\ Address(r, f, n) # 0
  BY <1>1, <1>2 DEF Mapped, Shape, Neat
<1>6. \A n \in FileBlocks : Address(r, f, n) # 0 <=> n \in P \cup {N}
  BY <1>1 DEF Shape
<1> QED BY <1>3, <1>4, <1>5, <1>6 DEF Shape, Neat

-----------------------------------------------------------------------------
(* cofs_truncate's turn.  r comes from s by freeing blocks of file f.       *)
Shrunk(s, r, f) == Sound(r) /\ r.panic = "" /\ r.data = s.data /\ Kept(s, r, f)

LEMMA ShrunkSame == \A s, f : Sound(s) /\ s.panic = "" => Shrunk(s, s, f)
  BY DEF Shrunk, Kept, Seen

LEMMA ShrunkOn ==
  ASSUME NEW s, NEW a, NEW r, NEW f, Shrunk(s, a, f), Shrunk(a, r, f)
  PROVE  Shrunk(s, r, f)
<1>1. Kept(s, r, f)
  <2>1. \A g \in Files \ {f} : Seen(s, a, g) /\ Seen(a, r, g)
    BY DEF Shrunk, Kept
  <2> QED BY <2>1 DEF Kept, Seen
<1> QED BY <1>1 DEF Shrunk

(* A slot in use, and the block in it holds no numbers.                     *)
LEMMA FreeStep ==
  ASSUME NEW s, Sound(s), s.panic = "", NEW f \in Files, NEW slot, slot \in OwnSlots(s, f),
         Get(s, slot) # 0, Hollow(s, Get(s, slot))
  PROVE  /\ Shrunk(s, FreeSlot(s, slot), f) /\ Puts(s, FreeSlot(s, slot), slot, 0)
         /\ Set(BlockFree(s, Get(s, slot)), slot, 0) = FreeSlot(s, slot)
<1>1. slot \in AllSlots /\ slot \in Holding(s)
  BY OwnProper DEF Holding
<1>2. \A k \in Words : Get(s, InBlock(Get(s, slot), k)) = 0
  BY DEF Hollow
<1> DEFINE r == FreeSlot(s, slot)
<1>3. /\ Empties(s, r, slot) /\ Sound(r)
      /\ Set(BlockFree(s, Get(s, slot)), slot, 0) = r
  BY <1>1, <1>2, EmptyFacts
<1> HIDE DEF r
<1>4. Puts(s, r, slot, 0)
  BY <1>1, <1>3 DEF Puts, Empties, Sound
<1>5. Kept(s, r, f)
  BY <1>4, KeptOthers
<1> QED BY <1>3, <1>4, <1>5 DEF Shrunk, Empties, r

(* Data blocks hold no block numbers.                                       *)
LEMMA LeafHollow ==
  ASSUME NEW s, Sound(s), NEW f \in Files, NEW N \in FileBlocks, Address(s, f, N) # 0
  PROVE  Hollow(s, Address(s, f, N))
<1> DEFINE b == Address(s, f, N)
<1>1. \A t, u \in AllSlots : Get(s, t) # 0 /\ Get(s, t) = Get(s, u) => t = u
  BY DEF Sound, Holding
<1>2. ASSUME NEW slot \in AllSlots, b = Get(s, slot),
             \A g \in Files : /\ slot # InInode(g, SIND_IDX) /\ slot # InInode(g, DIND_IDX)
                              /\ \A m \in Words : slot # InBlock(DoubleOf(s, g), m)
      PROVE  Hollow(s, b)
  <2>1. b \in Blocks
    BY <1>2, GetType DEF Sound
  <2>2. ASSUME NEW k \in Words, Get(s, InBlock(b, k)) # 0 PROVE FALSE
    <3>1. PICK g \in Files : b \in MapsOf(s, g)
      BY <2>1, <2>2 DEF Sound
    <3>2. b = SingleOf(s, g) \/ b = DoubleOf(s, g) \/ \E m \in Words : b = MidOf(s, g, m)
      BY <3>1 DEF MapsOf
    <3>3. b # SingleOf(s, g) /\ b # DoubleOf(s, g)
      BY <1>1, <1>2, SoundFacts DEF SingleOf, DoubleOf
    <3>4. ASSUME NEW m \in Words PROVE b # MidOf(s, g, m)
      <4>1. InBlock(DoubleOf(s, g), m) \in AllSlots /\ slot # InBlock(DoubleOf(s, g), m)
        BY <1>2, SoundFacts
      <4> QED BY <1>1, <1>2, <4>1 DEF MidOf
    <3> QED BY <3>2, <3>3, <3>4
  <2> QED BY <2>1, <2>2 DEF Hollow
<1>3. CASE N \in 0..(NUM_DIRECT - 1)
  <2> DEFINE slot == InInode(f, N)
  <2>1. slot \in AllSlots /\ b = Get(s, slot)
    BY <1>3, NumberCases, SlotsThere, AddressAt
  <2>2. N # SIND_IDX /\ N # DIND_IDX
    BY <1>3, CofsSizes
  <2>3. \A g \in Files : /\ slot # InInode(g, SIND_IDX) /\ slot # InInode(g, DIND_IDX)
                         /\ \A m \in Words : slot # InBlock(DoubleOf(s, g), m)
    BY <2>2, SlotsDiffer
  <2> QED BY <1>2, <2>1, <2>3
<1>4. CASE N \in SingleRange
  <2> DEFINE slot == InBlock(SingleOf(s, f), N - NUM_DIRECT)
  <2>1. slot \in AllSlots /\ b = Get(s, slot) /\ N - NUM_DIRECT \in Words
    BY <1>4, NumberCases, SlotsThere, AddressAt, SoundFacts
  <2>2. SingleOf(s, f) # 0
    BY <2>1, SoundFacts
  <2>3. \A g \in Files : SingleOf(s, f) # DoubleOf(s, g)
    BY <2>2, MapsApart
  <2>4. \A g \in Files : /\ slot # InInode(g, SIND_IDX) /\ slot # InInode(g, DIND_IDX)
                         /\ \A m \in Words : slot # InBlock(DoubleOf(s, g), m)
    BY <2>3, SlotsDiffer
  <2> QED BY <1>2, <2>1, <2>4
<1>5. CASE N \in DoubleRange
  <2> DEFINE mid == MidOf(s, f, Midx(N))
             slot == InBlock(mid, Sidx(N))
  <2>1. Midx(N) \in Words /\ Sidx(N) \in Words
    BY <1>5, NumberCases
  <2>2. slot \in AllSlots /\ b = Get(s, slot)
    BY <1>5, <2>1, SlotsThere, AddressAt, SoundFacts
  <2>3. mid # 0
    BY <2>1, <2>2, SoundFacts
  <2>4. \A g \in Files : mid # DoubleOf(s, g)
    BY <2>1, <2>3, MapsApart
  <2>5. \A g \in Files : /\ slot # InInode(g, SIND_IDX) /\ slot # InInode(g, DIND_IDX)
                         /\ \A m \in Words : slot # InBlock(DoubleOf(s, g), m)
    BY <2>4, SlotsDiffer
  <2> QED BY <1>2, <2>2, <2>5
<1> QED BY <1>3, <1>4, <1>5, NumberCases

LeafFreed(s, r, f, N) ==
    /\ Shrunk(s, r, f) /\ SameMaps(s, r, f)
    /\ \A n \in FileBlocks : Address(r, f, n) = IF n = N THEN 0 ELSE Address(s, f, n)

LEMMA FreeLeaf ==
  ASSUME NEW s, Sound(s), s.panic = "", NEW f \in Files, NEW N \in FileBlocks, Address(s, f, N) # 0,
         NEW slot, LeafSlot(s, slot, f, N)
  PROVE  LeafFreed(s, FreeSlot(s, slot), f, N)
<1> DEFINE r == FreeSlot(s, slot)
<1>1. slot \in OwnSlots(s, f) /\ Get(s, slot) = Address(s, f, N)
  BY DEF LeafSlot
<1>2. Get(s, slot) # 0 /\ Hollow(s, Get(s, slot))
  BY <1>1, LeafHollow
<1>3. Shrunk(s, r, f) /\ Puts(s, r, slot, 0)
  BY <1>1, <1>2, FreeStep
<1> HIDE DEF r
<1>4. LeafPut(s, r, f, N, 0)
  BY <1>3 DEF LeafSlot
<1> QED BY <1>3, <1>4 DEF LeafPut, LeafFreed, r

(* What leads to the slot of a block that is there.                         *)
LEMMA LeafSlots ==
  ASSUME NEW s, Sound(s), NEW f \in Files, NEW N \in FileBlocks, Address(s, f, N) # 0
  PROVE  /\ N \in 0..(NUM_DIRECT - 1) => LeafSlot(s, InInode(f, N), f, N)
         /\ N \in SingleRange => /\ SingleOf(s, f) # 0
                                 /\ LeafSlot(s, InBlock(SingleOf(s, f), N - NUM_DIRECT), f, N)
         /\ N \in DoubleRange => /\ DoubleOf(s, f) # 0 /\ MidOf(s, f, Midx(N)) # 0
                                 /\ LeafSlot(s, InBlock(MidOf(s, f, Midx(N)), Sidx(N)), f, N)
<1>1. ASSUME N \in 0..(NUM_DIRECT - 1) PROVE LeafSlot(s, InInode(f, N), f, N)
  <2>1. InInode(f, N) \in OwnSlots(s, f) /\ Address(s, f, N) = Get(s, InInode(f, N))
    BY <1>1, NumberCases, OwnThere, AddressAt
  <2>2. \A q, b : Puts(s, q, InInode(f, N), b) => LeafPut(s, q, f, N, b)
    BY <1>1, PutDirect
  <2> QED BY <2>1, <2>2 DEF LeafSlot
<1>2. ASSUME N \in SingleRange
      PROVE  SingleOf(s, f) # 0 /\ LeafSlot(s, InBlock(SingleOf(s, f), N - NUM_DIRECT), f, N)
  <2>1. Address(s, f, N) = Get(s, InBlock(SingleOf(s, f), N - NUM_DIRECT)) /\ N - NUM_DIRECT \in Words
    BY <1>2, AddressAt, NumberCases
  <2>2. SingleOf(s, f) # 0
    BY <2>1, SoundFacts
  <2>3. InBlock(SingleOf(s, f), N - NUM_DIRECT) \in OwnSlots(s, f)
    BY <2>1, <2>2, OwnThere DEF MapsOf
  <2>4. \A q, b : Puts(s, q, InBlock(SingleOf(s, f), N - NUM_DIRECT), b) => LeafPut(s, q, f, N, b)
    BY <1>2, <2>2, PutSingleLeaf
  <2> QED BY <2>1, <2>2, <2>3, <2>4 DEF LeafSlot
<1>3. ASSUME N \in DoubleRange
      PROVE  /\ DoubleOf(s, f) # 0 /\ MidOf(s, f, Midx(N)) # 0
             /\ LeafSlot(s, InBlock(MidOf(s, f, Midx(N)), Sidx(N)), f, N)
  <2>1. /\ Address(s, f, N) = Get(s, InBlock(MidOf(s, f, Midx(N)), Sidx(N)))
        /\ Midx(N) \in Words /\ Sidx(N) \in Words
    BY <1>3, AddressAt, NumberCases
  <2>2. MidOf(s, f, Midx(N)) # 0
    BY <2>1, SoundFacts
  <2>3. DoubleOf(s, f) # 0
    BY <2>1, <2>2, SoundFacts
  <2>4. InBlock(MidOf(s, f, Midx(N)), Sidx(N)) \in OwnSlots(s, f)
    BY <2>1, <2>2, OwnThere DEF MapsOf
  <2>5. \A q, b : Puts(s, q, InBlock(MidOf(s, f, Midx(N)), Sidx(N)), b) => LeafPut(s, q, f, N, b)
    BY <1>3, <2>2, PutDoubleLeaf
  <2> QED BY <2>1, <2>2, <2>3, <2>4, <2>5 DEF LeafSlot
<1> QED BY <1>1, <1>2, <1>3

(* scan_block finds a block of block numbers empty if none of the file's
   blocks is reached through it.                                            *)
LEMMA ClearedHollow ==
  ASSUME NEW s, NEW b \in Blocks
  PROVE  Cleared(s, b) <=> Hollow(s, b)
  BY GetFields DEF Cleared, Hollow

LEMMA HollowSingle ==
  ASSUME NEW s, Sound(s), NEW f \in Files
  PROVE  Hollow(s, SingleOf(s, f)) <=> ~\E n \in SingleRange : Address(s, f, n) # 0
<1>1. SingleOf(s, f) \in Blocks
  BY SoundFacts
<1>2. ASSUME NEW n \in SingleRange, Hollow(s, SingleOf(s, f)) PROVE Address(s, f, n) = 0
  BY <1>2, NumberCases, AddressAt DEF Hollow
<1>3. ASSUME NEW k \in Words, Get(s, InBlock(SingleOf(s, f), k)) # 0
      PROVE  \E n \in SingleRange : Address(s, f, n) # 0
  <2> DEFINE n == NUM_DIRECT + k
  <2>1. n \in SingleRange /\ n - NUM_DIRECT = k
    BY CofsSizes DEF SingleRange
  <2> HIDE DEF n
  <2>2. Address(s, f, n) = Get(s, InBlock(SingleOf(s, f), n - NUM_DIRECT))
    BY <2>1, AddressAt
  <2> QED BY <1>3, <2>1, <2>2
<1> QED BY <1>1, <1>2, <1>3 DEF Hollow

LEMMA DoubleNumber ==
  ASSUME NEW j \in Words, NEW k \in Words
  PROVE  \E n \in DoubleRange : Midx(n) = j /\ Sidx(n) = k
<1>1. /\ NUM_DIRECT \in Nat \ {0} /\ NUM_SIND \in Nat \ {0} /\ NUM_DIND \in Nat \ {0}
      /\ NUM_DIND = NUM_SIND * NUM_SIND /\ Words = 0..(NUM_SIND - 1)
  BY CofsSizes
<1> DEFINE x == NUM_SIND * j + k
           n == NUM_DIRECT + NUM_SIND + x
<1>2. NUM_SIND * j \in Nat /\ NUM_SIND * j <= NUM_SIND * (NUM_SIND - 1)
  <2>1. NUM_SIND \in Nat /\ j \in Nat /\ j <= NUM_SIND - 1
    BY <1>1
  <2> QED BY <2>1
<1>3. NUM_SIND * (NUM_SIND - 1) = NUM_SIND * NUM_SIND - NUM_SIND
  BY <1>1
<1>4. x \in Nat /\ x <= NUM_DIND - 1
  <2>1. k \in Nat /\ k <= NUM_SIND - 1
    BY <1>1
  <2> DEFINE y == NUM_SIND * j
             z == NUM_SIND * NUM_SIND
  <2>2. y \in Nat /\ z \in Int /\ y <= z - NUM_SIND /\ NUM_SIND \in Nat
    BY <1>1, <1>2, <1>3
  <2> HIDE DEF y, z
  <2>3. y + k \in Nat /\ y + k <= z - 1
    BY <2>1, <2>2
  <2> QED BY <1>1, <2>3 DEF y, z
<1>5. n \in DoubleRange
  <2> HIDE DEF x
  <2> QED BY <1>1, <1>4 DEF DoubleRange
<1>6. n - NUM_DIRECT - NUM_SIND = x
  <2> HIDE DEF x
  <2> QED BY <1>1, <1>4
<1>7. Midx(n) = x \div NUM_SIND /\ Sidx(n) = x % NUM_SIND
  BY <1>6 DEF Midx, Sidx
<1>8. x \in 0..(NUM_SIND * NUM_SIND - 1)
  <2> HIDE DEF x
  <2> QED BY <1>1, <1>4
<1>9. /\ x \div NUM_SIND \in 0..(NUM_SIND - 1) /\ x % NUM_SIND \in 0..(NUM_SIND - 1)
      /\ x = NUM_SIND * (x \div NUM_SIND) + (x % NUM_SIND)
  <2> HIDE DEF x
  <2> QED BY <1>1, <1>8, DoubleIndex
<1>10. x \div NUM_SIND = j /\ x % NUM_SIND = k
  <2> DEFINE p == x \div NUM_SIND
             q == x % NUM_SIND
  <2>1. /\ p \in Int /\ q \in 0..(NUM_SIND - 1) /\ j \in Int /\ k \in 0..(NUM_SIND - 1)
        /\ NUM_SIND \in Nat /\ NUM_SIND > 0 /\ NUM_SIND * p + q = NUM_SIND * j + k
    BY <1>1, <1>9
  <2> HIDE DEF p, q
  <2>2. NUM_SIND * p = p * NUM_SIND /\ NUM_SIND * j = j * NUM_SIND
    BY <2>1
  <2>3. p * NUM_SIND + q = j * NUM_SIND + k
    BY <2>1, <2>2
  <2>4. p = j /\ q = k
    BY <2>1, <2>3, DivUnique
  <2> QED BY <2>4 DEF p, q
<1> QED BY <1>5, <1>7, <1>10

LEMMA HollowMid ==
  ASSUME NEW s, Sound(s), NEW f \in Files, NEW j \in Words
  PROVE  Hollow(s, MidOf(s, f, j)) <=> ~\E n \in DoubleRange : Midx(n) = j /\ Address(s, f, n) # 0
<1>1. MidOf(s, f, j) \in Blocks
  BY SoundFacts
<1>2. ASSUME NEW n \in DoubleRange, Midx(n) = j, Hollow(s, MidOf(s, f, j)) PROVE Address(s, f, n) = 0
  BY <1>2, NumberCases, AddressAt DEF Hollow
<1>3. ASSUME NEW k \in Words, Get(s, InBlock(MidOf(s, f, j), k)) # 0
      PROVE  \E n \in DoubleRange : Midx(n) = j /\ Address(s, f, n) # 0
  <2>1. PICK n \in DoubleRange : Midx(n) = j /\ Sidx(n) = k
    BY DoubleNumber
  <2>2. Address(s, f, n) = Get(s, InBlock(MidOf(s, f, Midx(n)), Sidx(n)))
    BY AddressAt
  <2> QED BY <1>3, <2>1, <2>2
<1> QED BY <1>1, <1>2, <1>3 DEF Hollow

LEMMA HollowDouble ==
  ASSUME NEW s, Sound(s), NEW f \in Files
  PROVE  Hollow(s, DoubleOf(s, f)) <=> \A m \in Words : MidOf(s, f, m) = 0
  BY SoundFacts DEF Hollow, MidOf

LEMMA FreeSingle ==
  ASSUME NEW s, Sound(s), s.panic = "", NEW f \in Files, SingleOf(s, f) # 0
  PROVE  LET r == FreeEmpty(s, InInode(f, SIND_IDX))
         IN  /\ Shrunk(s, r, f)
             /\ SingleOf(r, f) # 0 <=> \E n \in SingleRange : Address(s, f, n) # 0
             /\ DoubleOf(r, f) = DoubleOf(s, f) /\ \A m \in Words : MidOf(r, f, m) = MidOf(s, f, m)
             /\ SameBlocks(s, r, f)
<1> DEFINE slot == InInode(f, SIND_IDX)
           r == FreeEmpty(s, slot)
<1>1. Get(s, slot) = SingleOf(s, f) /\ SingleOf(s, f) \in Blocks /\ slot \in OwnSlots(s, f)
  <2>1. slot \in OwnSlots(s, f)
    BY CofsSizes, OwnThere
  <2> QED BY <2>1, SoundFacts DEF SingleOf
<1>2. CASE Hollow(s, SingleOf(s, f))
  <2>1. r = Set(BlockFree(s, Get(s, slot)), slot, 0)
    BY <1>1, <1>2, ClearedHollow DEF FreeEmpty
  <2>2. /\ Shrunk(s, FreeSlot(s, slot), f) /\ Puts(s, FreeSlot(s, slot), slot, 0)
        /\ Set(BlockFree(s, Get(s, slot)), slot, 0) = FreeSlot(s, slot)
    BY <1>1, <1>2, FreeStep
  <2>3. Shrunk(s, r, f) /\ Puts(s, r, slot, 0)
    BY <2>1, <2>2
  <2>4. Hollow(s, 0)
    BY HollowNone
  <2> HIDE DEF r
  <2>5. /\ SingleOf(r, f) = 0 /\ DoubleOf(r, f) = DoubleOf(s, f)
        /\ \A m \in Words : MidOf(r, f, m) = MidOf(s, f, m)
        /\ SameBlocks(s, r, f)
    BY <1>2, <2>3, <2>4, PutSingle DEF SameBlocks
  <2> QED BY <1>2, <2>3, <2>5, HollowSingle DEF r
<1>3. CASE ~Hollow(s, SingleOf(s, f))
  <2>1. r = s
    BY <1>1, <1>3, ClearedHollow DEF FreeEmpty
  <2> QED BY <1>3, <2>1, HollowSingle, ShrunkSame DEF SameBlocks
<1> QED BY <1>2, <1>3

LEMMA FreeMid ==
  ASSUME NEW s, Sound(s), s.panic = "", NEW f \in Files, NEW j \in Words, MidOf(s, f, j) # 0
  PROVE  LET r == FreeEmpty(s, InBlock(DoubleOf(s, f), j))
         IN  /\ Shrunk(s, r, f)
             /\ MidOf(r, f, j) # 0 <=> \E n \in DoubleRange : Midx(n) = j /\ Address(s, f, n) # 0
             /\ SingleOf(r, f) = SingleOf(s, f) /\ DoubleOf(r, f) = DoubleOf(s, f)
             /\ \A m \in Words : m # j => MidOf(r, f, m) = MidOf(s, f, m)
             /\ SameBlocks(s, r, f)
<1> DEFINE slot == InBlock(DoubleOf(s, f), j)
           r == FreeEmpty(s, slot)
<1>1. /\ Get(s, slot) = MidOf(s, f, j) /\ MidOf(s, f, j) \in Blocks /\ slot \in OwnSlots(s, f)
      /\ DoubleOf(s, f) # 0
  <2>1. DoubleOf(s, f) # 0
    BY SoundFacts
  <2>2. slot \in OwnSlots(s, f)
    BY <2>1, OwnThere DEF MapsOf
  <2> QED BY <2>1, <2>2, SoundFacts DEF MidOf
<1>2. CASE Hollow(s, MidOf(s, f, j))
  <2>1. r = Set(BlockFree(s, Get(s, slot)), slot, 0)
    BY <1>1, <1>2, ClearedHollow DEF FreeEmpty
  <2>2. /\ Shrunk(s, FreeSlot(s, slot), f) /\ Puts(s, FreeSlot(s, slot), slot, 0)
        /\ Set(BlockFree(s, Get(s, slot)), slot, 0) = FreeSlot(s, slot)
    BY <1>1, <1>2, FreeStep
  <2>3. Shrunk(s, r, f) /\ Puts(s, r, slot, 0)
    BY <2>1, <2>2
  <2>4. Hollow(s, 0)
    BY HollowNone
  <2> HIDE DEF r
  <2>5. /\ SingleOf(r, f) = SingleOf(s, f) /\ DoubleOf(r, f) = DoubleOf(s, f)
        /\ \A m \in Words : MidOf(r, f, m) = IF m = j THEN 0 ELSE MidOf(s, f, m)
        /\ SameBlocks(s, r, f)
    <3>1. DoubleOf(s, f) # 0 /\ Puts(s, r, InBlock(DoubleOf(s, f), j), 0)
      BY <1>1, <2>3
    <3>2. MidCleared(s, r, f, j)
      BY <1>2, <2>4, <3>1, ClearMid
    <3> QED BY <3>2 DEF MidCleared, SameBlocks
  <2> QED BY <1>2, <2>3, <2>5, HollowMid DEF r
<1>3. CASE ~Hollow(s, MidOf(s, f, j))
  <2>1. r = s
    BY <1>1, <1>3, ClearedHollow DEF FreeEmpty
  <2> QED BY <1>3, <2>1, HollowMid, ShrunkSame DEF SameBlocks
<1> QED BY <1>2, <1>3

LEMMA FreeDouble ==
  ASSUME NEW s, Sound(s), s.panic = "", NEW f \in Files, DoubleOf(s, f) # 0
  PROVE  LET r == FreeEmpty(s, InInode(f, DIND_IDX))
         IN  /\ Shrunk(s, r, f)
             /\ DoubleOf(r, f) # 0 <=> \E m \in Words : MidOf(s, f, m) # 0
             /\ SingleOf(r, f) = SingleOf(s, f) /\ \A m \in Words : MidOf(r, f, m) = MidOf(s, f, m)
             /\ SameBlocks(s, r, f)
<1> DEFINE slot == InInode(f, DIND_IDX)
           r == FreeEmpty(s, slot)
<1>1. Get(s, slot) = DoubleOf(s, f) /\ DoubleOf(s, f) \in Blocks /\ slot \in OwnSlots(s, f)
  <2>1. slot \in OwnSlots(s, f)
    BY CofsSizes, OwnThere
  <2> QED BY <2>1, SoundFacts DEF DoubleOf
<1>2. CASE Hollow(s, DoubleOf(s, f))
  <2>1. r = Set(BlockFree(s, Get(s, slot)), slot, 0)
    BY <1>1, <1>2, ClearedHollow DEF FreeEmpty
  <2>2. /\ Shrunk(s, FreeSlot(s, slot), f) /\ Puts(s, FreeSlot(s, slot), slot, 0)
        /\ Set(BlockFree(s, Get(s, slot)), slot, 0) = FreeSlot(s, slot)
    BY <1>1, <1>2, FreeStep
  <2>3. Shrunk(s, r, f) /\ Puts(s, r, slot, 0)
    BY <2>1, <2>2
  <2>4. Hollow(s, 0)
    BY HollowNone
  <2> HIDE DEF r
  <2>5. /\ SingleOf(r, f) = SingleOf(s, f) /\ DoubleOf(r, f) = 0
        /\ \A m \in Words : MidOf(r, f, m) = MidOf(s, f, m)
        /\ SameBlocks(s, r, f)
    BY <1>2, <2>3, <2>4, PutDouble DEF SameBlocks
  <2> QED BY <1>2, <2>3, <2>5, HollowDouble DEF r
<1>3. CASE ~Hollow(s, DoubleOf(s, f))
  <2>1. r = s
    BY <1>1, <1>3, ClearedHollow DEF FreeEmpty
  <2> QED BY <1>3, <2>1, HollowDouble, ShrunkSame DEF SameBlocks
<1> QED BY <1>2, <1>3

(* free_file_block, by the level of the block.                               *)
LEMMA FreeCases ==
  /\ \A s, f, n : n \in 0..(NUM_DIRECT - 1) =>
        FreeFileBlock(s, f, n) = IF Get(s, InInode(f, n)) = 0 THEN s ELSE FreeSlot(s, InInode(f, n))
  /\ \A s, f, n : n \in SingleRange =>
        FreeFileBlock(s, f, n) =
           FreeEmpty(FreeSlot(s, InBlock(SingleOf(s, f), n - NUM_DIRECT)), InInode(f, SIND_IDX))
  /\ \A s, f, n : n \in DoubleRange =>
        FreeFileBlock(s, f, n) =
           FreeEmpty(FreeEmpty(FreeSlot(s, InBlock(MidOf(s, f, Midx(n)), Sidx(n))),
                               InBlock(DoubleOf(s, f), Midx(n))), InInode(f, DIND_IDX))
<1>1. /\ NUM_DIRECT \in Nat \ {0} /\ NUM_SIND \in Nat \ {0} /\ NUM_DIND \in Nat \ {0}
  BY CofsSizes
<1>2. ASSUME NEW s, NEW f, NEW n, n \in 0..(NUM_DIRECT - 1)
      PROVE  FreeFileBlock(s, f, n) = IF Get(s, InInode(f, n)) = 0 THEN s ELSE FreeSlot(s, InInode(f, n))
  <2>1. n < NUM_DIRECT
    BY <1>1, <1>2
  <2> QED BY <2>1 DEF FreeFileBlock
<1>3. ASSUME NEW s, NEW f, NEW n, n \in SingleRange
      PROVE  FreeFileBlock(s, f, n) =
               FreeEmpty(FreeSlot(s, InBlock(SingleOf(s, f), n - NUM_DIRECT)), InInode(f, SIND_IDX))
  <2>1. ~(n < NUM_DIRECT) /\ n < NUM_DIRECT + NUM_SIND
    BY <1>1, <1>3 DEF SingleRange
  <2> QED BY <2>1 DEF FreeFileBlock, SingleOf
<1>4. ASSUME NEW s, NEW f, NEW n, n \in DoubleRange
      PROVE  FreeFileBlock(s, f, n) =
               FreeEmpty(FreeEmpty(FreeSlot(s, InBlock(MidOf(s, f, Midx(n)), Sidx(n))),
                                   InBlock(DoubleOf(s, f), Midx(n))), InInode(f, DIND_IDX))
  <2> DEFINE D == NUM_DIND
  <2>1. D \in Nat \ {0} /\ n \in (NUM_DIRECT + NUM_SIND)..(NUM_DIRECT + NUM_SIND + D - 1)
    BY <1>1, <1>4 DEF DoubleRange
  <2> HIDE DEF D
  <2>2. ~(n < NUM_DIRECT) /\ ~(n < NUM_DIRECT + NUM_SIND) /\ n < NUM_DIRECT + NUM_SIND + D
    BY <1>1, <2>1
  <2> QED BY <2>2 DEF FreeFileBlock, DoubleOf, MidOf, D
<1> QED BY <1>2, <1>3, <1>4

(* r has block N of file f no more, nor what was only for that block.       *)
Freed(s, r, f, N) ==
    /\ Shrunk(s, r, f) /\ Neat(r, f)
    /\ \A n \in FileBlocks : Address(r, f, n) = IF n = N THEN 0 ELSE Address(s, f, n)

LEMMA FreeFileBlockStep ==
  ASSUME NEW s, Sound(s), s.panic = "", NEW f \in Files, Neat(s, f),
         NEW N \in FileBlocks, Address(s, f, N) # 0
  PROVE  Freed(s, FreeFileBlock(s, f, N), f, N)
<1> DEFINE r == FreeFileBlock(s, f, N)
<1>0. /\ \A n \in SingleRange : n \in FileBlocks /\ n \notin DoubleRange
      /\ \A n \in DoubleRange : n \in FileBlocks /\ n \notin SingleRange
      /\ \A n \in 0..(NUM_DIRECT - 1) : n \notin SingleRange /\ n \notin DoubleRange
  BY NumberCases
<1>1. CASE N \in 0..(NUM_DIRECT - 1)
  <2>1. r = FreeSlot(s, InInode(f, N))
    <3>1. Get(s, InInode(f, N)) # 0
      BY <1>1, AddressAt
    <3>2. r = IF Get(s, InInode(f, N)) = 0 THEN s ELSE FreeSlot(s, InInode(f, N))
      BY <1>1, FreeCases
    <3> QED BY <3>1, <3>2
  <2>2. LeafFreed(s, FreeSlot(s, InInode(f, N)), f, N)
    BY <1>1, LeafSlots, FreeLeaf
  <2> HIDE DEF r
  <2>3. /\ Shrunk(s, r, f) /\ SameMaps(s, r, f)
        /\ \A n \in FileBlocks : Address(r, f, n) = IF n = N THEN 0 ELSE Address(s, f, n)
    BY <2>1, <2>2 DEF LeafFreed
  <2>4. /\ \A n \in SingleRange : Address(r, f, n) = Address(s, f, n)
        /\ \A n \in DoubleRange : Address(r, f, n) = Address(s, f, n)
    BY <1>0, <1>1, <2>3
  <2>5. Neat(r, f)
    BY <2>3, <2>4 DEF Neat, SameMaps
  <2> QED BY <2>3, <2>5 DEF Freed, r
<1>2. CASE N \in SingleRange
  <2> DEFINE a == FreeSlot(s, InBlock(SingleOf(s, f), N - NUM_DIRECT))
             q == FreeEmpty(a, InInode(f, SIND_IDX))
  <2>1. r = q
    BY <1>2, FreeCases
  <2>2. SingleOf(s, f) # 0 /\ LeafSlot(s, InBlock(SingleOf(s, f), N - NUM_DIRECT), f, N)
    BY <1>2, LeafSlots
  <2>3. LeafFreed(s, a, f, N)
    BY <2>2, FreeLeaf
  <2> HIDE DEF a
  <2>4. /\ Shrunk(s, a, f) /\ SameMaps(s, a, f)
        /\ \A n \in FileBlocks : Address(a, f, n) = IF n = N THEN 0 ELSE Address(s, f, n)
    BY <2>3 DEF LeafFreed
  <2>5. Sound(a) /\ a.panic = "" /\ SingleOf(a, f) # 0
    BY <2>2, <2>4 DEF Shrunk, SameMaps
  <2>6. /\ Shrunk(a, q, f)
        /\ SingleOf(q, f) # 0 <=> \E n \in SingleRange : Address(a, f, n) # 0
        /\ DoubleOf(q, f) = DoubleOf(a, f) /\ \A m \in Words : MidOf(q, f, m) = MidOf(a, f, m)
        /\ SameBlocks(a, q, f)
    BY <2>5, FreeSingle
  <2> HIDE DEF q, r
  <2>7. Shrunk(s, q, f)
    BY <2>4, <2>6, ShrunkOn
  <2>8. \A n \in FileBlocks : Address(q, f, n) = IF n = N THEN 0 ELSE Address(s, f, n)
    BY <2>4, <2>6 DEF SameBlocks
  <2>9. SingleOf(q, f) # 0 <=> \E n \in SingleRange : Address(q, f, n) # 0
    BY <1>0, <2>6 DEF SameBlocks
  <2>10. \A n \in DoubleRange : Address(q, f, n) = Address(s, f, n)
    BY <1>0, <1>2, <2>8
  <2>11. Neat(q, f)
    BY <2>4, <2>6, <2>9, <2>10 DEF Neat, SameMaps
  <2> QED BY <2>1, <2>7, <2>8, <2>11 DEF Freed, r
<1>3. CASE N \in DoubleRange
  <2> DEFINE j == Midx(N)
             a == FreeSlot(s, InBlock(MidOf(s, f, j), Sidx(N)))
             c == FreeEmpty(a, InBlock(DoubleOf(s, f), j))
             q == FreeEmpty(c, InInode(f, DIND_IDX))
  <2>1. r = q
    BY <1>3, FreeCases
  <2>2. DoubleOf(s, f) # 0 /\ MidOf(s, f, j) # 0 /\ LeafSlot(s, InBlock(MidOf(s, f, j), Sidx(N)), f, N)
    BY <1>3, LeafSlots
  <2>3. LeafFreed(s, a, f, N)
    BY <2>2, FreeLeaf
  <2> HIDE DEF a
  <2>4. /\ Shrunk(s, a, f) /\ SameMaps(s, a, f)
        /\ \A n \in FileBlocks : Address(a, f, n) = IF n = N THEN 0 ELSE Address(s, f, n)
    BY <2>3 DEF LeafFreed
  <2>5. j \in Words
    BY <1>3, NumberCases
  <2>6. Sound(a) /\ a.panic = "" /\ MidOf(a, f, j) # 0 /\ DoubleOf(a, f) = DoubleOf(s, f)
    BY <2>2, <2>4, <2>5 DEF Shrunk, SameMaps
  <2>7. c = FreeEmpty(a, InBlock(DoubleOf(a, f), j))
    BY <2>6
  <2>8. /\ Shrunk(a, c, f)
        /\ MidOf(c, f, j) # 0 <=> \E n \in DoubleRange : Midx(n) = j /\ Address(a, f, n) # 0
        /\ SingleOf(c, f) = SingleOf(a, f) /\ DoubleOf(c, f) = DoubleOf(a, f)
        /\ \A m \in Words : m # j => MidOf(c, f, m) = MidOf(a, f, m)
        /\ SameBlocks(a, c, f)
    <3> DEFINE e == FreeEmpty(a, InBlock(DoubleOf(a, f), j))
    <3>1. /\ Shrunk(a, e, f)
          /\ MidOf(e, f, j) # 0 <=> \E n \in DoubleRange : Midx(n) = j /\ Address(a, f, n) # 0
          /\ SingleOf(e, f) = SingleOf(a, f) /\ DoubleOf(e, f) = DoubleOf(a, f)
          /\ \A m \in Words : m # j => MidOf(e, f, m) = MidOf(a, f, m)
          /\ SameBlocks(a, e, f)
      BY <2>5, <2>6, FreeMid
    <3>2. c = e
      BY <2>7
    <3> HIDE DEF c, e
    <3> QED BY <3>1, <3>2
  <2> HIDE DEF c
  <2>9. Sound(c) /\ c.panic = "" /\ DoubleOf(c, f) # 0
    BY <2>2, <2>6, <2>8 DEF Shrunk
  <2>10. /\ Shrunk(c, q, f)
         /\ DoubleOf(q, f) # 0 <=> \E m \in Words : MidOf(c, f, m) # 0
         /\ SingleOf(q, f) = SingleOf(c, f) /\ \A m \in Words : MidOf(q, f, m) = MidOf(c, f, m)
         /\ SameBlocks(c, q, f)
    BY <2>9, FreeDouble
  <2> HIDE DEF q, r
  <2>11. Shrunk(s, q, f)
    BY <2>4, <2>8, <2>10, ShrunkOn
  <2>12. \A n \in FileBlocks : Address(q, f, n) = IF n = N THEN 0 ELSE Address(s, f, n)
    BY <2>4, <2>8, <2>10 DEF SameBlocks
  <2>13. \A n \in SingleRange : Address(q, f, n) = Address(s, f, n)
    BY <1>0, <1>3, <2>12
  <2>14. SingleOf(q, f) # 0 <=> \E n \in SingleRange : Address(q, f, n) # 0
    BY <2>4, <2>8, <2>10, <2>13 DEF Neat, SameMaps
  <2>15. ASSUME NEW m \in Words
         PROVE  MidOf(q, f, m) # 0 <=> \E n \in DoubleRange : Midx(n) = m /\ Address(q, f, n) # 0
    <3>1. CASE m = j
      <4>1. \A n \in DoubleRange : Address(q, f, n) = Address(a, f, n)
        BY <1>0, <2>8, <2>10 DEF SameBlocks
      <4> QED BY <2>8, <2>10, <3>1, <4>1
    <3>2. CASE m # j
      <4>1. \A n \in DoubleRange : Midx(n) = m => Address(q, f, n) = Address(s, f, n)
        BY <1>0, <2>12, <3>2
      <4>2. MidOf(q, f, m) = MidOf(s, f, m)
        BY <2>4, <2>8, <2>10, <3>2 DEF SameMaps
      <4>3. MidOf(s, f, m) # 0 <=> \E n \in DoubleRange : Midx(n) = m /\ Address(s, f, n) # 0
        BY DEF Neat
      <4> QED BY <4>1, <4>2, <4>3
    <3> QED BY <3>1, <3>2
  <2>16. DoubleOf(q, f) # 0 <=> \E n \in DoubleRange : Address(q, f, n) # 0
    <3>1. DoubleOf(q, f) # 0 <=> \E m \in Words : MidOf(q, f, m) # 0
      BY <2>10
    <3>2. \A n \in DoubleRange : Midx(n) \in Words
      BY NumberCases
    <3> QED BY <2>15, <3>1, <3>2
  <2>17. Neat(q, f)
    BY <2>14, <2>15, <2>16 DEF Neat
  <2> QED BY <2>1, <2>11, <2>12, <2>17 DEF Freed, r
<1> QED BY <1>1, <1>2, <1>3, NumberCases

-----------------------------------------------------------------------------
(* Bytes and blocks.                                                        *)
LEMMA BlockOf ==
  ASSUME NEW x \in Nat
  PROVE  /\ x \div BLOCK_SIZE \in Nat /\ x % BLOCK_SIZE \in Bytes
         /\ x = (x \div BLOCK_SIZE) * BLOCK_SIZE + (x % BLOCK_SIZE)
         /\ (x \div BLOCK_SIZE) * BLOCK_SIZE \in Nat
<1> DEFINE B == BLOCK_SIZE
<1>1. B \in Nat /\ B > 0
  BY CofsSizes
<1> HIDE DEF B
<1>2. x = B * (x \div B) + (x % B) /\ x % B \in 0..(B - 1) /\ x \div B \in Int
  BY <1>1, Z3
<1> DEFINE q == x \div B
           y == x % B
<1>3. q \in Int /\ y \in 0..(B - 1) /\ x = B * q + y
  BY <1>2
<1> HIDE DEF q, y
<1>4. ~(q < 0)
  <2>1. ASSUME q < 0 PROVE FALSE
    <3>1. B * q <= B * (0 - 1)
      BY <1>1, <1>3, <2>1
    <3> QED BY <1>1, <1>3, <3>1
  <2> QED BY <2>1
<1>5. q \in Nat /\ y \in 0..(B - 1) /\ x = q * B + y /\ q * B \in Nat
  BY <1>1, <1>3, <1>4
<1> QED BY <1>5 DEF q, y, B, Bytes

LEMMA BlocksGrow ==
  ASSUME NEW k \in Nat, NEW n \in Nat
  PROVE  /\ k * BLOCK_SIZE \in Nat /\ n * BLOCK_SIZE \in Nat
         /\ k <= n => k * BLOCK_SIZE <= n * BLOCK_SIZE
         /\ k < n => k * BLOCK_SIZE + BLOCK_SIZE <= n * BLOCK_SIZE
         /\ (k + 1) * BLOCK_SIZE = k * BLOCK_SIZE + BLOCK_SIZE
<1> DEFINE B == BLOCK_SIZE
<1>1. B \in Nat /\ B > 0
  BY CofsSizes
<1> HIDE DEF B
<1>2. k * B \in Nat /\ n * B \in Nat /\ (k + 1) * B = k * B + B
  BY <1>1
<1>3. ASSUME NEW a \in Nat, NEW b \in Nat, a <= b PROVE a * B <= b * B
  <2>1. b - a \in Nat /\ (b - a) * B \in Nat
    BY <1>1, <1>3
  <2>2. (b - a) * B = b * B - a * B /\ a * B \in Nat /\ b * B \in Nat
    BY <1>1
  <2> QED BY <2>1, <2>2
<1>4. k <= n => k * B <= n * B
  BY <1>3
<1>5. k < n => k * B + B <= n * B
  <2>1. ASSUME k < n PROVE (k + 1) * B <= n * B
    <3>1. k + 1 \in Nat /\ k + 1 <= n
      BY <2>1
    <3> QED BY <1>3, <3>1
  <2> QED BY <1>2, <2>1
<1> QED BY <1>2, <1>4, <1>5 DEF B

(* What is below byte x, by blocks.                                         *)
LEMMA BlockBelow ==
  ASSUME NEW x \in Nat, NEW k \in Nat
  PROVE  /\ k <= x \div BLOCK_SIZE <=> k * BLOCK_SIZE <= x
         /\ x < (x \div BLOCK_SIZE) * BLOCK_SIZE + BLOCK_SIZE
         /\ (x \div BLOCK_SIZE) * BLOCK_SIZE <= x
<1> DEFINE B == BLOCK_SIZE
           n == x \div B
           y == x % B
<1>1. B \in Nat /\ B > 0
  BY CofsSizes
<1>2. n \in Nat /\ y \in 0..(B - 1) /\ x = n * B + y /\ n * B \in Nat
  BY BlockOf DEF Bytes
<1>3. /\ k * B \in Nat /\ (k <= n => k * B <= n * B)
      /\ n < k => n * B + B <= k * B
  <2> HIDE DEF n
  <2> QED BY <1>2, BlocksGrow
<1> HIDE DEF n, y, B
<1>4. k <= n => k * B <= x
  BY <1>2, <1>3
<1>5. k * B <= x => k <= n
  BY <1>1, <1>2, <1>3
<1> QED BY <1>1, <1>2, <1>4, <1>5 DEF n, B

(* No file is longer than its block numbers reach.                          *)
LEMMA InRange ==
  ASSUME NEW n \in Nat, n * BLOCK_SIZE < MaxBytes
  PROVE  n \in FileBlocks
<1> DEFINE B == BLOCK_SIZE
           D == NUM_DIND
           T == NUM_DIRECT + NUM_SIND
<1>1. B \in Nat /\ B > 0 /\ D \in Nat /\ T \in Nat
  BY CofsSizes
<1>2. MaxBytes = T + D * B
  BY DEF MaxBytes
<1>3. n * B < T + D * B
  BY <1>2
<1> HIDE DEF B, D, T
<1>4. ~(n >= T + D)
  <2>1. ASSUME n >= T + D PROVE FALSE
    <3>1. T + D \in Nat /\ T + D <= n
      BY <1>1, <2>1
    <3>2. (T + D) * B <= n * B /\ (T + D) * B \in Nat /\ n * B \in Nat
      BY <3>1, BlocksGrow DEF B
    <3>3. (T + D) * B = T * B + D * B /\ T * B \in Nat /\ D * B \in Nat
      BY <1>1
    <3>4. T * B >= T
      BY <1>1
    <3> QED BY <1>1, <1>3, <3>2, <3>3, <3>4
  <2> QED BY <2>1
<1>5. n \in 0..(T + D - 1)
  BY <1>1, <1>4
<1> QED BY <1>5 DEF FileBlocks, T, D

-----------------------------------------------------------------------------
(* Addresses lead to one place each.                                        *)
LEMMA AddressSlot ==
  ASSUME NEW s \in FsRecord, NEW g \in Files, NEW k \in FileBlocks
  PROVE  \E v \in AllSlots : Address(s, g, k) = Get(s, v)
<1>1. SingleOf(s, g) \in Blocks /\ DoubleOf(s, g) \in Blocks
  BY CofsSizes, SlotsThere, GetType DEF SingleOf, DoubleOf
<1>2. \A m \in Words : MidOf(s, g, m) \in Blocks
  BY <1>1, SlotsThere, GetType DEF MidOf
<1>3. CASE k \in 0..(NUM_DIRECT - 1)
  BY <1>3, AddressAt, NumberCases, SlotsThere
<1>4. CASE k \in SingleRange
  BY <1>1, <1>4, AddressAt, NumberCases, SlotsThere
<1>5. CASE k \in DoubleRange
  BY <1>2, <1>5, AddressAt, NumberCases, SlotsThere
<1> QED BY <1>3, <1>4, <1>5, NumberCases

LEMMA AddressMarked ==
  ASSUME NEW s, Sound(s), NEW g \in Files, NEW k \in FileBlocks
  PROVE  Address(s, g, k) \in s.bitmap /\ Address(s, g, k) \in Blocks
<1>1. s \in FsRecord /\ 0 \in s.bitmap /\ 0 \in Blocks
  BY CofsSizes DEF Sound
<1>2. PICK v \in AllSlots : Address(s, g, k) = Get(s, v)
  BY <1>1, AddressSlot
<1>3. CASE Get(s, v) = 0
  BY <1>1, <1>2, <1>3
<1>4. CASE Get(s, v) # 0
  <2>1. v \in Holding(s)
    BY <1>4 DEF Holding
  <2> QED BY <1>2, <2>1, SoundFacts
<1> QED BY <1>3, <1>4

LEMMA AddressApart ==
  ASSUME NEW s, Sound(s), NEW f \in Files, NEW g \in Files, NEW n \in FileBlocks, NEW k \in FileBlocks,
         Address(s, f, n) # 0, Address(s, g, k) = Address(s, f, n)
  PROVE  g = f /\ k = n
<1> SUFFICES ASSUME ~(g = f /\ k = n) PROVE FALSE
  OBVIOUS
<1>1. PICK slot : LeafSlot(s, slot, f, n)
  BY LeafSlots, NumberCases
<1>2. slot \in OwnSlots(s, f) /\ Address(s, f, n) = Get(s, slot)
  BY <1>1 DEF LeafSlot
<1>3. slot \in AllSlots /\ s \in FsRecord
  BY <1>2, OwnProper DEF Sound
<1> DEFINE r == Set(s, slot, 0)
<1>4. Puts(s, r, slot, 0)
  BY <1>3, SetZero DEF Puts
<1> HIDE DEF r
<1>5. LeafPut(s, r, f, n, 0) /\ Kept(s, r, f)
  BY <1>1, <1>2, <1>4, KeptOthers DEF LeafSlot
<1>6. Address(r, g, k) = Address(s, g, k)
  BY <1>5 DEF LeafPut, Kept, Seen
<1>7. PICK v \in AllSlots : Address(r, g, k) = Get(r, v)
  BY <1>4, AddressSlot DEF Puts
<1>8. v # slot /\ Get(s, v) = Get(s, slot)
  BY <1>2, <1>4, <1>6, <1>7 DEF Puts
<1> QED BY <1>2, <1>3, <1>8 DEF Sound, Holding

LEMMA SameSound ==
  ASSUME NEW s, Sound(s), NEW q \in FsRecord,
         q.bitmap = s.bitmap, q.addrs = s.addrs, q.words = s.words
  PROVE  Sound(q) /\ \A g \in Files : Seen(s, q, g)
<1>1. \A t : Get(q, t) = Get(s, t)
  BY SameSlots
<1>2. \A g : SingleOf(q, g) = SingleOf(s, g) /\ DoubleOf(q, g) = DoubleOf(s, g)
  BY <1>1 DEF SingleOf, DoubleOf
<1>3. \A g, m : MidOf(q, g, m) = MidOf(s, g, m)
  BY <1>1, <1>2 DEF MidOf
<1>4. ASSUME NEW g, NEW n \in FileBlocks PROVE Address(q, g, n) = Address(s, g, n)
  <2>1. CASE n \in 0..(NUM_DIRECT - 1)
    <3>1. Address(q, g, n) = Get(q, InInode(g, n)) /\ Address(s, g, n) = Get(s, InInode(g, n))
      BY <2>1, AddressAt
    <3> QED BY <1>1, <3>1
  <2>2. CASE n \in SingleRange
    <3>1. /\ Address(q, g, n) = Get(q, InBlock(SingleOf(q, g), n - NUM_DIRECT))
          /\ Address(s, g, n) = Get(s, InBlock(SingleOf(s, g), n - NUM_DIRECT))
      BY <2>2, AddressAt
    <3> QED BY <1>1, <1>2, <3>1
  <2>3. CASE n \in DoubleRange
    <3>1. /\ Address(q, g, n) = Get(q, InBlock(MidOf(q, g, Midx(n)), Sidx(n)))
          /\ Address(s, g, n) = Get(s, InBlock(MidOf(s, g, Midx(n)), Sidx(n)))
      BY <2>3, AddressAt
    <3> QED BY <1>1, <1>3, <3>1
  <2> QED BY <2>1, <2>2, <2>3, NumberCases
<1>5. \A g : MapsOf(q, g) = MapsOf(s, g)
  BY <1>2, <1>3 DEF MapsOf
<1>6. Holding(q) = Holding(s)
  BY <1>1 DEF Holding
<1>7. {Get(q, t) : t \in Holding(q)} = {Get(s, t) : t \in Holding(s)}
  BY <1>1, <1>6
<1>8. q.bitmap = Meta \cup {Get(q, t) : t \in Holding(q)}
  BY <1>7 DEF Sound
<1>9. /\ \A t, u \in Holding(q) : Get(q, t) = Get(q, u) => t = u
      /\ \A t \in Holding(q) : Get(q, t) \notin Meta
  BY <1>1, <1>6 DEF Sound
<1>10. \A b \in Blocks, k \in Words : Get(q, InBlock(b, k)) # 0 => \E f \in Files : b \in MapsOf(q, f)
  BY <1>1, <1>5 DEF Sound
<1>11. Sound(q)
  BY <1>8, <1>9, <1>10 DEF Sound
<1> QED BY <1>2, <1>3, <1>4, <1>11 DEF Seen

-----------------------------------------------------------------------------
(* One file and the call that works on it: j the call, z the size, d the
   inode on disk.                                                           *)
Alive(s) == s.panic = ""
JobRecord == [op : JobOps, pos : Nat, end : Nat, length : Nat]
UptoOf(j, z) == IF j.op = "write" /\ j.pos > z THEN j.pos ELSE z
PresentOf(j, z) ==
    {n \in FileBlocks : /\ n * BLOCK_SIZE < UptoOf(j, z)
                        /\ j.op = "truncate" => n * BLOCK_SIZE < j.length \/ n >= j.pos}
KnownOf(s, j, z) == IF j.op = "truncate" THEN j.length ELSE IF Alive(s) THEN UptoOf(j, z) ELSE z
JobOf(j, z) ==
    /\ j.op = "idle" => j = Idle
    /\ j.op = "read" => j.pos <= j.end /\ j.end <= z
    /\ j.op = "write" => j.pos <= j.end /\ j.end <= MaxBytes
    /\ j.op = "truncate" =>
          /\ j.length <= z /\ j.length % BLOCK_SIZE = 0
          /\ j.length \div BLOCK_SIZE <= j.pos
          /\ j.pos <= j.end /\ j.end = z \div BLOCK_SIZE + 1
          /\ z % BLOCK_SIZE # 0 \/ z \div BLOCK_SIZE < NUM_DIRECT
SavedOf(s, j, z, d, f) ==
    \/ j.op \in {"idle", "read"}
    \/ j.op = "write" /\ Alive(s) /\ j.pos <= z
    => d = [size |-> z, addrs |-> s.addrs[f]]
FileInv(s, j, z, d, f) ==
    /\ z \in 0..MaxBytes /\ j \in JobRecord /\ JobOf(j, z)
    /\ Alive(s) \/ j.op = "idle" => Shape(s, f, PresentOf(j, z))
    /\ \A k \in 0..(KnownOf(s, j, z) - 1) : Right(s, f, k)
    /\ SavedOf(s, j, z, d, f)

LEMMA KnownSize ==
  ASSUME NEW s, NEW j \in JobRecord, NEW z \in 0..MaxBytes, JobOf(j, z)
  PROVE  /\ KnownOf(s, j, z) \in Nat /\ KnownOf(s, j, z) <= MaxBytes
         /\ UptoOf(j, z) \in Nat /\ UptoOf(j, z) <= MaxBytes /\ z <= UptoOf(j, z)
<1>1. /\ MaxBytes \in Nat /\ z \in Nat /\ z <= MaxBytes
      /\ j.op \in JobOps /\ j.pos \in Nat /\ j.end \in Nat /\ j.length \in Nat
  BY CofsSizes DEF JobRecord
<1>2. UptoOf(j, z) \in Nat /\ UptoOf(j, z) <= MaxBytes /\ z <= UptoOf(j, z)
  BY <1>1 DEF UptoOf, JobOf
<1>3. j.op = "truncate" => j.length <= z
  BY DEF JobOf
<1>4. CASE j.op = "truncate"
  <2>1. KnownOf(s, j, z) = j.length
    BY <1>4 DEF KnownOf
  <2> QED BY <1>1, <1>2, <1>3, <1>4, <2>1
<1>5. CASE j.op # "truncate"
  <2>1. KnownOf(s, j, z) = UptoOf(j, z) \/ KnownOf(s, j, z) = z
    BY <1>5 DEF KnownOf
  <2> QED BY <1>1, <1>2, <2>1
<1> QED BY <1>4, <1>5

(* Byte k is in block k \div BLOCK_SIZE, which is there.                    *)
LEMMA ByteBlock ==
  ASSUME NEW k \in Nat, k < MaxBytes
  PROVE  k \div BLOCK_SIZE \in FileBlocks /\ k % BLOCK_SIZE \in Bytes
<1>1. k \div BLOCK_SIZE \in Nat /\ (k \div BLOCK_SIZE) * BLOCK_SIZE <= k
      /\ (k \div BLOCK_SIZE) * BLOCK_SIZE \in Nat
  BY BlockOf, BlockBelow
<1>2. (k \div BLOCK_SIZE) * BLOCK_SIZE < MaxBytes
  BY <1>1, CofsSizes
<1> QED BY <1>1, <1>2, InRange, BlockOf

(* A file that a step leaves alone.                                         *)
LEMMA FileKept ==
  ASSUME NEW s, Sound(s), NEW r, NEW g \in Files, Seen(s, r, g),
         \A k \in FileBlocks, i \in Bytes : r.data[Address(s, g, k)][i] = s.data[Address(s, g, k)][i],
         Alive(r) => Alive(s),
         NEW j, NEW z, NEW d, FileInv(s, j, z, d, g)
  PROVE  FileInv(r, j, z, d, g)
<1>1. z \in 0..MaxBytes /\ j \in JobRecord /\ JobOf(j, z)
  BY DEF FileInv
<1>2. ASSUME Alive(r) \/ j.op = "idle" PROVE Shape(r, g, PresentOf(j, z))
  <2>1. Shape(s, g, PresentOf(j, z))
    BY <1>2 DEF FileInv
  <2>2. /\ \A n \in SingleRange : n \in FileBlocks
        /\ \A n \in DoubleRange : n \in FileBlocks
    BY NumberCases
  <2>3. Neat(r, g)
    BY <2>1, <2>2 DEF Shape, Neat, Seen
  <2> QED BY <2>1, <2>3 DEF Shape, Seen
<1>3. ASSUME NEW k \in 0..(KnownOf(r, j, z) - 1) PROVE Right(r, g, k)
  <2>1. KnownOf(r, j, z) \in Nat /\ KnownOf(s, j, z) \in Nat /\ KnownOf(r, j, z) <= MaxBytes
        /\ z <= UptoOf(j, z) /\ UptoOf(j, z) \in Nat /\ z \in Nat
    BY <1>1, KnownSize
  <2>2. KnownOf(r, j, z) <= KnownOf(s, j, z)
    <3>1. CASE j.op = "truncate"
      BY <2>1, <3>1 DEF KnownOf
    <3>2. CASE j.op # "truncate" /\ Alive(r)
      BY <2>1, <3>2 DEF KnownOf
    <3>3. CASE j.op # "truncate" /\ ~Alive(r)
      BY <2>1, <3>3 DEF KnownOf
    <3> QED BY <3>1, <3>2, <3>3
  <2>3. k \in Nat /\ k < MaxBytes /\ k \in 0..(KnownOf(s, j, z) - 1)
    BY <2>1, <2>2, CofsSizes
  <2>4. k \div BLOCK_SIZE \in FileBlocks /\ k % BLOCK_SIZE \in Bytes
    BY <2>3, ByteBlock
  <2>5. Right(s, g, k)
    BY <2>3 DEF FileInv
  <2>6. Address(r, g, k \div BLOCK_SIZE) = Address(s, g, k \div BLOCK_SIZE)
    BY <2>4 DEF Seen
  <2> QED BY <2>4, <2>5, <2>6 DEF Right
<1>4. SavedOf(r, j, z, d, g)
  BY DEF FileInv, SavedOf, Seen
<1> QED BY <1>1, <1>2, <1>3, <1>4 DEF FileInv

-----------------------------------------------------------------------------
(* The bytes of one block are copied into it.                               *)
LEMMA CopyFacts ==
  ASSUME NEW s, Sound(s), NEW f \in Files, NEW j \in JobRecord, j.end <= MaxBytes, NEW n,
         n = j.pos \div BLOCK_SIZE, n \in FileBlocks, Address(s, f, n) # 0
  PROVE  /\ Alive(s) => Sound(Copy(s, f, j)) /\ Alive(Copy(s, f, j))
         /\ Alive(s) => \A g \in Files : Seen(s, Copy(s, f, j), g)
         /\ Alive(s) => \A g \in Files, k \in FileBlocks, i \in Bytes :
               Copy(s, f, j).data[Address(s, g, k)][i] =
                  IF g = f /\ k = n /\ j.pos <= n * BLOCK_SIZE + i /\ n * BLOCK_SIZE + i < j.end
                  THEN <<f, n * BLOCK_SIZE + i>> ELSE s.data[Address(s, g, k)][i]
         /\ ~Alive(s) => Copy(s, f, j) = s
<1> DEFINE q == Copy(s, f, j)
           b == Address(s, f, n)
           new == [k \in Bytes |-> IF j.pos <= n * BLOCK_SIZE + k /\ n * BLOCK_SIZE + k < j.end
                                   THEN <<f, n * BLOCK_SIZE + k>> ELSE s.data[b][k]]
           dat == [s.data EXCEPT ![b] = new]
<1>1. ~Alive(s) => q = s
  BY DEF Copy, Alive
<1>2. ASSUME Alive(s) PROVE q = [s EXCEPT !.data = dat]
  <2>1. s.data \in [Blocks -> [Bytes -> DataBytes]] /\ b \in Blocks
    BY AddressMarked DEF Sound, FsRecord
  <2>2. q = [s EXCEPT !.data[b] = new]
    BY <1>2 DEF Copy, Alive
  <2>3. s \in FsRecord
    BY DEF Sound
  <2> HIDE DEF q, b, new
  <2> QED BY <2>1, <2>2, <2>3 DEF FsRecord
<1>3. new \in [Bytes -> DataBytes]
  <2>1. ASSUME NEW k \in Bytes, n * BLOCK_SIZE + k < j.end PROVE n * BLOCK_SIZE + k \in 0..MaxBytes
    <3>1. n * BLOCK_SIZE \in Nat
      <4>1. n \in Nat
        BY BlockOf DEF JobRecord
      <4> QED BY <4>1, BlocksGrow
    <3>2. k \in Nat /\ j.end \in Nat /\ MaxBytes \in Nat
      BY CofsSizes DEF JobRecord, Bytes
    <3> QED BY <2>1, <3>1, <3>2
  <2>2. \A k \in Bytes : s.data[b][k] \in DataBytes
    <3>1. s.data \in [Blocks -> [Bytes -> DataBytes]] /\ b \in Blocks
      BY AddressMarked DEF Sound, FsRecord
    <3> QED BY <3>1
  <2> HIDE DEF b
  <2> QED BY <2>1, <2>2 DEF DataBytes
<1>4. b \in Blocks /\ s \in FsRecord
  BY AddressMarked DEF Sound
<1>5. /\ dat \in [Blocks -> [Bytes -> DataBytes]] /\ dat[b] = new
      /\ \A c \in Blocks : c # b => dat[c] = s.data[c]
  <2>1. s.data \in [Blocks -> [Bytes -> DataBytes]]
    BY <1>4 DEF FsRecord
  <2> HIDE DEF new, b
  <2> QED BY <1>3, <1>4, <2>1
<1>6. \A i \in Bytes : new[i] = IF j.pos <= n * BLOCK_SIZE + i /\ n * BLOCK_SIZE + i < j.end
                                THEN <<f, n * BLOCK_SIZE + i>> ELSE s.data[b][i]
  OBVIOUS
<1> HIDE DEF q, new, dat
<1>7. ASSUME Alive(s)
      PROVE  /\ q \in FsRecord /\ q.bitmap = s.bitmap /\ q.addrs = s.addrs /\ q.words = s.words
             /\ q.panic = s.panic /\ q.data = dat
  BY <1>2, <1>4, <1>5, <1>7 DEF FsRecord
<1>8. Alive(s) => Sound(q) /\ \A g \in Files : Seen(s, q, g)
  BY <1>7, SameSound
<1>9. Alive(s) => Alive(q)
  BY <1>7 DEF Alive
<1>10. ASSUME Alive(s), NEW g \in Files, NEW k \in FileBlocks, NEW i \in Bytes
       PROVE  q.data[Address(s, g, k)][i] =
                 IF g = f /\ k = n /\ j.pos <= n * BLOCK_SIZE + i /\ n * BLOCK_SIZE + i < j.end
                 THEN <<f, n * BLOCK_SIZE + i>> ELSE s.data[Address(s, g, k)][i]
  <2>1. CASE g = f /\ k = n
    BY <1>5, <1>6, <1>7, <1>10, <2>1
  <2>2. CASE ~(g = f /\ k = n)
    <3>1. Address(s, g, k) # b /\ Address(s, g, k) \in Blocks
      BY <2>2, AddressApart, AddressMarked
    <3> QED BY <1>5, <1>7, <1>10, <2>2, <3>1
  <2> QED BY <2>1, <2>2
<1> QED BY <1>1, <1>8, <1>9, <1>10 DEF q

(* What cofs_write's loop covers in one turn.                               *)
LEMMA AdvanceFacts ==
  ASSUME NEW j \in JobRecord, j.pos < j.end, j.end <= MaxBytes
  PROVE  LET n == j.pos \div BLOCK_SIZE
         IN  /\ n \in FileBlocks /\ n * BLOCK_SIZE \in Nat /\ n * BLOCK_SIZE <= j.pos
             /\ Advance(j) \in Nat /\ j.pos < Advance(j) /\ Advance(j) <= j.end
             /\ Advance(j) <= n * BLOCK_SIZE + BLOCK_SIZE
             /\ \A k \in FileBlocks : k * BLOCK_SIZE < Advance(j) <=> k * BLOCK_SIZE < j.pos \/ k = n
             /\ \A x \in Nat : j.pos <= x /\ x < Advance(j) => x \div BLOCK_SIZE = n
<1> DEFINE n == j.pos \div BLOCK_SIZE
           y == Advance(j)
           p == j.pos
<1>1. p \in Nat /\ j.end \in Nat /\ MaxBytes \in Nat /\ BLOCK_SIZE \in Nat \ {0}
  BY CofsSizes DEF JobRecord
<1>2. n \in Nat /\ n * BLOCK_SIZE <= p /\ p < n * BLOCK_SIZE + BLOCK_SIZE /\ n * BLOCK_SIZE \in Nat
  BY <1>1, BlockOf, BlockBelow
<1>3. n \in FileBlocks
  BY <1>1, ByteBlock
<1>4. y = MinOf(j.end, n * BLOCK_SIZE + BLOCK_SIZE)
  <2>1. (n + 1) * BLOCK_SIZE = n * BLOCK_SIZE + BLOCK_SIZE
    <3> HIDE DEF n
    <3> QED BY <1>2, BlocksGrow
  <2> QED BY <2>1 DEF Advance
<1> HIDE DEF n, y
<1>5. y \in Nat /\ p < y /\ y <= j.end /\ y <= n * BLOCK_SIZE + BLOCK_SIZE
  BY <1>1, <1>2, <1>4 DEF MinOf
<1> HIDE DEF p
<1>6. ASSUME NEW k \in FileBlocks
      PROVE  k * BLOCK_SIZE < y <=> k * BLOCK_SIZE < p \/ k = n
  <2>1. k \in Nat
    BY CofsSizes DEF FileBlocks
  <2>2. /\ k * BLOCK_SIZE \in Nat
        /\ k < n => k * BLOCK_SIZE + BLOCK_SIZE <= n * BLOCK_SIZE
        /\ n < k => n * BLOCK_SIZE + BLOCK_SIZE <= k * BLOCK_SIZE
    BY <1>2, <2>1, BlocksGrow
  <2>3. CASE k < n
    BY <1>1, <1>2, <1>5, <2>2, <2>3
  <2>4. CASE k = n
    BY <1>1, <1>2, <1>5, <2>4
  <2>5. CASE n < k
    BY <1>1, <1>2, <1>5, <2>2, <2>5
  <2> QED BY <1>2, <2>1, <2>3, <2>4, <2>5
<1>7. ASSUME NEW x \in Nat, p <= x, x < y PROVE x \div BLOCK_SIZE = n
  <2> DEFINE m == x \div BLOCK_SIZE
  <2>1. m \in Nat /\ m * BLOCK_SIZE <= x /\ x < m * BLOCK_SIZE + BLOCK_SIZE /\ m * BLOCK_SIZE \in Nat
    BY BlockOf, BlockBelow
  <2> HIDE DEF m
  <2>2. /\ m < n => m * BLOCK_SIZE + BLOCK_SIZE <= n * BLOCK_SIZE
        /\ n < m => n * BLOCK_SIZE + BLOCK_SIZE <= m * BLOCK_SIZE
    BY <1>2, <2>1, BlocksGrow
  <2>3. ~(m < n) /\ ~(n < m)
    BY <1>1, <1>2, <1>5, <1>7, <2>1, <2>2
  <2>4. m = n
    BY <1>2, <2>1, <2>3
  <2> QED BY <2>4 DEF m
<1> QED BY <1>2, <1>3, <1>5, <1>6, <1>7 DEF n, y, p

(* A byte below what is there lies in a block that is there.                *)
LEMMA ByteThere ==
  ASSUME NEW s, NEW f, NEW j \in JobRecord, NEW z \in 0..MaxBytes, JobOf(j, z), j.op # "truncate",
         Shape(s, f, PresentOf(j, z)), NEW k \in Nat, k < UptoOf(j, z)
  PROVE  /\ k \div BLOCK_SIZE \in FileBlocks /\ k % BLOCK_SIZE \in Bytes
         /\ Address(s, f, k \div BLOCK_SIZE) # 0
<1>1. UptoOf(j, z) \in Nat /\ UptoOf(j, z) <= MaxBytes /\ MaxBytes \in Nat
  BY KnownSize, CofsSizes
<1>2. k < MaxBytes
  BY <1>1
<1>3. k \div BLOCK_SIZE \in FileBlocks /\ k % BLOCK_SIZE \in Bytes
  BY <1>2, ByteBlock
<1>4. (k \div BLOCK_SIZE) * BLOCK_SIZE <= k /\ (k \div BLOCK_SIZE) * BLOCK_SIZE \in Nat
  BY BlockOf, BlockBelow
<1>5. (k \div BLOCK_SIZE) * BLOCK_SIZE < UptoOf(j, z)
  BY <1>1, <1>4
<1>6. k \div BLOCK_SIZE \in PresentOf(j, z)
  BY <1>3, <1>5 DEF PresentOf
<1> QED BY <1>3, <1>6 DEF Shape

(* What others see of a step on file f.                                     *)
Apart(s, r, f) ==
    /\ Sound(r) /\ Kept(s, r, f)
    /\ \A g \in Files \ {f}, k \in FileBlocks, i \in Bytes :
          r.data[Address(s, g, k)][i] = s.data[Address(s, g, k)][i]

LEMMA WriteTurn ==
  ASSUME NEW s, Sound(s), Alive(s), NEW f \in Files, NEW j, NEW z, NEW d, FileInv(s, j, z, d, f),
         j.op = "write", j.pos < j.end
  PROVE  LET q == Copy(BlockMap(s, f, j.pos \div BLOCK_SIZE), f, j)
         IN  Apart(s, q, f) /\ FileInv(q, [j EXCEPT !.pos = Advance(j)], z, d, f)
<1> DEFINE n == j.pos \div BLOCK_SIZE
           r == BlockMap(s, f, n)
           q == Copy(r, f, j)
           y == Advance(j)
           i == [j EXCEPT !.pos = y]
           P == PresentOf(j, z)
<1>1. /\ j \in JobRecord /\ z \in 0..MaxBytes /\ JobOf(j, z) /\ j.end <= MaxBytes
      /\ z \in Nat /\ j.pos \in Nat /\ j.end \in Nat /\ MaxBytes \in Nat
  BY CofsSizes DEF FileInv, JobOf, JobRecord
<1>2. /\ n \in FileBlocks /\ n * BLOCK_SIZE \in Nat /\ n * BLOCK_SIZE <= j.pos
      /\ y \in Nat /\ j.pos < y /\ y <= j.end
      /\ y <= n * BLOCK_SIZE + BLOCK_SIZE
      /\ \A k \in FileBlocks : k * BLOCK_SIZE < y <=> k * BLOCK_SIZE < j.pos \/ k = n
      /\ \A x \in Nat : j.pos <= x /\ x < y => x \div BLOCK_SIZE = n
  BY <1>1, AdvanceFacts
<1>3. Shape(s, f, P)
  BY DEF FileInv
<1>4. /\ Grown(s, r, f)
      /\ Alive(r) => Mapped(s, r, f, n)
  BY <1>2, BlockMapStep DEF Alive
<1> HIDE DEF n, r, y
<1>5. /\ i \in JobRecord /\ i.op = "write" /\ i.pos = y /\ i.end = j.end /\ i.length = j.length
  BY <1>1, <1>2 DEF JobRecord
<1> HIDE DEF i, P
<1>6. JobOf(i, z)
  BY <1>1, <1>2, <1>5 DEF JobOf
<1>7. UptoOf(i, z) = IF y > UptoOf(j, z) THEN y ELSE UptoOf(j, z)
  BY <1>1, <1>2, <1>5 DEF UptoOf
<1>8. PresentOf(i, z) = P \cup {n}
  <2>1. \A k \in FileBlocks : k * BLOCK_SIZE \in Nat
    <3>1. FileBlocks \subseteq Nat
      BY CofsSizes DEF FileBlocks
    <3> QED BY <3>1, BlocksGrow
  <2>2. \A k \in FileBlocks : k * BLOCK_SIZE < UptoOf(i, z) <=> k * BLOCK_SIZE < UptoOf(j, z) \/ k = n
    BY <1>1, <1>2, <1>5, <2>1 DEF UptoOf
  <2> QED BY <1>2, <1>5, <2>2 DEF PresentOf, P
<1>9. ASSUME NEW k \in 0..(UptoOf(j, z) - 1)
      PROVE  /\ Right(s, f, k) /\ k \div BLOCK_SIZE \in FileBlocks /\ k % BLOCK_SIZE \in Bytes /\ k \in Nat
             /\ Address(r, f, k \div BLOCK_SIZE) = Address(s, f, k \div BLOCK_SIZE)
             /\ Right(r, f, k)
  <2>1. UptoOf(j, z) \in Nat /\ k \in Nat /\ k < UptoOf(j, z)
    <3>1. UptoOf(j, z) \in Nat
      BY <1>1, KnownSize
    <3> QED BY <3>1
  <2>2. KnownOf(s, j, z) = UptoOf(j, z)
    BY DEF KnownOf
  <2>3. Right(s, f, k)
    BY <2>2 DEF FileInv
  <2>4. /\ k \div BLOCK_SIZE \in FileBlocks /\ k % BLOCK_SIZE \in Bytes
        /\ Address(s, f, k \div BLOCK_SIZE) # 0
    BY <1>1, <1>3, <2>1, ByteThere DEF P
  <2>5. Address(r, f, k \div BLOCK_SIZE) = Address(s, f, k \div BLOCK_SIZE)
    BY <1>4, <2>4 DEF Grown
  <2>6. Address(s, f, k \div BLOCK_SIZE) \in s.bitmap
    BY <2>4, AddressMarked
  <2>7. r.data[Address(s, f, k \div BLOCK_SIZE)] = s.data[Address(s, f, k \div BLOCK_SIZE)]
    BY <1>4, <2>6 DEF Grown
  <2> QED BY <2>1, <2>3, <2>4, <2>5, <2>7 DEF Right
<1>10. Apart(s, r, f)
  <2>1. ASSUME NEW g \in Files \ {f}, NEW k \in FileBlocks, NEW e \in Bytes
        PROVE  r.data[Address(s, g, k)][e] = s.data[Address(s, g, k)][e]
    <3>1. Address(s, g, k) \in s.bitmap
      BY AddressMarked
    <3> QED BY <1>4, <3>1 DEF Grown
  <2> QED BY <1>4, <2>1 DEF Apart, Grown
<1>11. CASE ~Alive(r)
  <2>1. q = r
    BY <1>11 DEF Copy, Alive
  <2>2. KnownOf(r, i, z) = z
    BY <1>5, <1>11 DEF KnownOf
  <2>3. \A k \in 0..(KnownOf(r, i, z) - 1) : Right(r, f, k)
    <3>1. z <= UptoOf(j, z) /\ UptoOf(j, z) \in Nat
      BY <1>1, KnownSize
    <3>2. \A k \in 0..(z - 1) : k \in 0..(UptoOf(j, z) - 1)
      BY <1>1, <3>1
    <3> QED BY <1>9, <2>2, <3>2
  <2>4. SavedOf(r, i, z, d, f)
    BY <1>5, <1>11 DEF SavedOf
  <2>5. FileInv(r, i, z, d, f)
    BY <1>1, <1>5, <1>6, <1>11, <2>3, <2>4 DEF FileInv
  <2> QED BY <1>10, <2>1, <2>5 DEF r, i, n, y
<1>12. CASE Alive(r)
  <2>1. Sound(r) /\ Mapped(s, r, f, n) /\ Shape(r, f, P \cup {n})
    BY <1>2, <1>3, <1>4, <1>12, MappedShape DEF Grown
  <2>2. Address(r, f, n) # 0
    BY <1>2, <2>1 DEF Mapped
  <2>3. n = j.pos \div BLOCK_SIZE
    BY DEF n
  <2>4. /\ Sound(q) /\ Alive(q) /\ \A g \in Files : Seen(r, q, g)
        /\ \A g \in Files, k \in FileBlocks, e \in Bytes :
              q.data[Address(r, g, k)][e] =
                 IF g = f /\ k = n /\ j.pos <= n * BLOCK_SIZE + e /\ n * BLOCK_SIZE + e < j.end
                 THEN <<f, n * BLOCK_SIZE + e>> ELSE r.data[Address(r, g, k)][e]
    BY <1>1, <1>2, <1>12, <2>1, <2>2, <2>3, CopyFacts
  <2> HIDE DEF q
  <2>5. Apart(s, q, f)
    <3>1. Kept(s, q, f)
      BY <1>4, <2>4 DEF Grown, Kept, Seen
    <3>2. ASSUME NEW g \in Files \ {f}, NEW k \in FileBlocks, NEW e \in Bytes
          PROVE  q.data[Address(s, g, k)][e] = s.data[Address(s, g, k)][e]
      <4>1. Address(r, g, k) = Address(s, g, k)
        BY <1>10 DEF Apart, Kept, Seen
      <4>2. q.data[Address(r, g, k)][e] = r.data[Address(r, g, k)][e]
        BY <2>4
      <4> QED BY <1>10, <4>1, <4>2 DEF Apart
    <3> QED BY <2>4, <3>1, <3>2 DEF Apart
  <2>6. Shape(q, f, PresentOf(i, z))
    <3>1. Seen(r, q, f)
      BY <2>4
    <3>2. /\ \A k \in SingleRange : k \in FileBlocks
          /\ \A k \in DoubleRange : k \in FileBlocks
      BY NumberCases
    <3>3. Neat(q, f)
      BY <2>1, <3>1, <3>2 DEF Shape, Neat, Seen
    <3> QED BY <1>8, <2>1, <3>1, <3>3 DEF Shape, Seen
  <2>7. ASSUME NEW k \in 0..(KnownOf(q, i, z) - 1) PROVE Right(q, f, k)
    <3>1. KnownOf(q, i, z) = UptoOf(i, z) /\ UptoOf(i, z) \in Nat /\ UptoOf(j, z) \in Nat /\ k \in Nat
      <4>1. KnownOf(q, i, z) = UptoOf(i, z)
        BY <1>5, <2>4 DEF KnownOf
      <4> QED BY <1>1, <1>5, <1>6, <4>1, KnownSize
    <3>2. k \div BLOCK_SIZE \in FileBlocks /\ k % BLOCK_SIZE \in Bytes
          /\ k = (k \div BLOCK_SIZE) * BLOCK_SIZE + (k % BLOCK_SIZE)
      <4>1. k < MaxBytes
        BY <1>1, <1>5, <1>6, <3>1, KnownSize
      <4> QED BY <3>1, <4>1, ByteBlock, BlockOf
    <3>3. Address(q, f, k \div BLOCK_SIZE) = Address(r, f, k \div BLOCK_SIZE)
      BY <2>4, <3>2 DEF Seen
    <3>4. \/ /\ k \div BLOCK_SIZE = n /\ j.pos <= k /\ k < j.end
             /\ q.data[Address(r, f, k \div BLOCK_SIZE)][k % BLOCK_SIZE] = <<f, k>>
          \/ /\ ~(k \div BLOCK_SIZE = n /\ j.pos <= k /\ k < j.end)
             /\ q.data[Address(r, f, k \div BLOCK_SIZE)][k % BLOCK_SIZE]
                   = r.data[Address(r, f, k \div BLOCK_SIZE)][k % BLOCK_SIZE]
      BY <2>4, <3>2, ZenonT(60)
    <3>5. CASE k \div BLOCK_SIZE = n /\ j.pos <= k /\ k < j.end
      BY <3>3, <3>4, <3>5 DEF Right
    <3>6. CASE ~(k \div BLOCK_SIZE = n /\ j.pos <= k /\ k < j.end)
      <4>1. k < UptoOf(j, z)
        <5>1. CASE k < y
          <6>1. k < j.pos
            BY <1>1, <1>2, <3>1, <3>6, <5>1
          <6>2. j.pos <= UptoOf(j, z)
            BY <1>1 DEF UptoOf
          <6> QED BY <1>1, <3>1, <6>1, <6>2
        <5>2. CASE ~(k < y)
          BY <1>2, <1>7, <3>1, <5>2
        <5> QED BY <5>1, <5>2
      <4>2. Right(r, f, k)
        BY <1>9, <3>1, <4>1
      <4> QED BY <3>3, <3>4, <3>6, <4>2 DEF Right
    <3> QED BY <3>5, <3>6
  <2>8. SavedOf(q, i, z, d, f)
    <3>1. ASSUME y <= z PROVE d = [size |-> z, addrs |-> q.addrs[f]]
      <4>1. j.pos < z /\ z <= UptoOf(j, z) /\ UptoOf(j, z) \in Nat
        <5>1. z <= UptoOf(j, z) /\ UptoOf(j, z) \in Nat
          BY <1>1, KnownSize
        <5> QED BY <1>1, <1>2, <3>1, <5>1
      <4>2. n * BLOCK_SIZE < UptoOf(j, z)
        BY <1>1, <1>2, <4>1
      <4>3. n \in P
        BY <1>2, <4>2 DEF P, PresentOf
      <4>4. Address(s, f, n) # 0
        BY <1>2, <1>3, <4>3 DEF Shape
      <4>5. r = s
        BY <1>2, <4>4, BlockMapFinds DEF r, Alive
      <4>6. d = [size |-> z, addrs |-> s.addrs[f]]
        BY <1>1, <4>1 DEF FileInv, SavedOf
      <4> QED BY <2>4, <4>5, <4>6 DEF Seen
    <3> QED BY <1>5, <3>1 DEF SavedOf
  <2>9. FileInv(q, i, z, d, f)
    BY <1>1, <1>5, <1>6, <2>6, <2>7, <2>8 DEF FileInv
  <2> QED BY <2>5, <2>9 DEF q, r, i, n, y
<1> QED BY <1>11, <1>12

-----------------------------------------------------------------------------
(* cofs_read maps only blocks that are there.                               *)
LEMMA ReadTurn ==
  ASSUME NEW s, Sound(s), Alive(s), NEW f \in Files, NEW j, NEW z, NEW d, FileInv(s, j, z, d, f),
         j.op = "read", j.pos < j.end
  PROVE  /\ BlockMap(s, f, j.pos \div BLOCK_SIZE) = s
         /\ FileInv(s, [j EXCEPT !.pos = Advance(j)], z, d, f)
<1> DEFINE n == j.pos \div BLOCK_SIZE
           y == Advance(j)
           i == [j EXCEPT !.pos = y]
<1>1. /\ j \in JobRecord /\ z \in 0..MaxBytes /\ JobOf(j, z) /\ j.end <= z
      /\ z \in Nat /\ z <= MaxBytes /\ j.pos \in Nat /\ j.end \in Nat /\ MaxBytes \in Nat
  BY CofsSizes DEF FileInv, JobOf, JobRecord
<1>2. Shape(s, f, PresentOf(j, z)) /\ UptoOf(j, z) = z
  BY DEF FileInv, UptoOf
<1>3. n \in FileBlocks /\ Address(s, f, n) # 0
  <2>1. j.pos < UptoOf(j, z) /\ j.op # "truncate"
    BY <1>1, <1>2
  <2> QED BY <1>1, <1>2, <2>1, ByteThere
<1>4. BlockMap(s, f, n) = s
  BY <1>3, BlockMapFinds DEF Alive
<1>5. y \in Nat /\ j.pos < y /\ y <= j.end
  <2>1. j.end <= MaxBytes
    BY <1>1
  <2> QED BY <1>1, <2>1, AdvanceFacts
<1> HIDE DEF y
<1>6. i \in JobRecord /\ i.op = "read" /\ i.pos = y /\ i.end = j.end /\ i.length = j.length
  BY <1>1, <1>5 DEF JobRecord
<1> HIDE DEF i
<1>7. JobOf(i, z)
  BY <1>1, <1>5, <1>6 DEF JobOf
<1>8. UptoOf(i, z) = z /\ KnownOf(s, i, z) = KnownOf(s, j, z)
  BY <1>2, <1>6 DEF UptoOf, KnownOf
<1>9. PresentOf(i, z) = PresentOf(j, z)
  BY <1>2, <1>6, <1>8 DEF PresentOf
<1>10. SavedOf(s, i, z, d, f)
  BY <1>6 DEF FileInv, SavedOf
<1>11. FileInv(s, i, z, d, f)
  BY <1>1, <1>6, <1>7, <1>8, <1>9, <1>10 DEF FileInv
<1> QED BY <1>4, <1>11 DEF i, y

LEMMA TruncateTurn ==
  ASSUME NEW s, Sound(s), Alive(s), NEW f \in Files, NEW j, NEW z, NEW d, FileInv(s, j, z, d, f),
         j.op = "truncate", j.pos < j.end
  PROVE  LET r == FreeFileBlock(s, f, j.pos)
         IN  Apart(s, r, f) /\ Alive(r) /\ FileInv(r, [j EXCEPT !.pos = j.pos + 1], z, d, f)
<1> DEFINE N == j.pos
           r == FreeFileBlock(s, f, N)
           i == [j EXCEPT !.pos = N + 1]
           P == PresentOf(j, z)
           L == j.length
<1>1. /\ j \in JobRecord /\ z \in 0..MaxBytes /\ JobOf(j, z)
      /\ z \in Nat /\ z <= MaxBytes /\ N \in Nat /\ j.end \in Nat /\ L \in Nat /\ MaxBytes \in Nat
      /\ NUM_DIRECT \in Nat /\ BLOCK_SIZE \in Nat \ {0}
  BY CofsSizes DEF FileInv, JobRecord
<1>2. /\ L <= z /\ L % BLOCK_SIZE = 0 /\ L \div BLOCK_SIZE <= N
      /\ j.end = z \div BLOCK_SIZE + 1
      /\ z % BLOCK_SIZE # 0 \/ z \div BLOCK_SIZE < NUM_DIRECT
  BY <1>1 DEF JobOf
<1>3. Shape(s, f, P) /\ UptoOf(j, z) = z
  BY DEF FileInv, UptoOf
<1>4. /\ z \div BLOCK_SIZE \in Nat /\ z % BLOCK_SIZE \in Bytes
      /\ (z \div BLOCK_SIZE) * BLOCK_SIZE \in Nat
      /\ z = (z \div BLOCK_SIZE) * BLOCK_SIZE + (z % BLOCK_SIZE)
      /\ L \div BLOCK_SIZE \in Nat
      /\ L = (L \div BLOCK_SIZE) * BLOCK_SIZE /\ N * BLOCK_SIZE \in Nat
  <2>1. L = (L \div BLOCK_SIZE) * BLOCK_SIZE + (L % BLOCK_SIZE) /\ (L \div BLOCK_SIZE) * BLOCK_SIZE \in Nat
    BY <1>1, BlockOf
  <2>2. L = (L \div BLOCK_SIZE) * BLOCK_SIZE
    <3> DEFINE a == (L \div BLOCK_SIZE) * BLOCK_SIZE
               y == L % BLOCK_SIZE
    <3>1. a \in Nat /\ L = a + y /\ y = 0 /\ L \in Nat
      BY <1>1, <1>2, <2>1
    <3> HIDE DEF a, y
    <3>2. L = a
      BY <3>1
    <3> QED BY <3>2 DEF a
  <2>3. N * BLOCK_SIZE \in Nat
    BY <1>1, BlocksGrow
  <2> QED BY <1>1, <2>2, <2>3, BlockOf
<1>5. L <= N * BLOCK_SIZE
  BY <1>1, <1>2, <1>4, BlockBelow
<1>6. N \in FileBlocks /\ (N \notin 0..(NUM_DIRECT - 1) => Address(s, f, N) # 0)
  <2>1. CASE N < NUM_DIRECT
    <3>1. N \in 0..(NUM_DIRECT - 1)
      BY <1>1, <2>1
    <3> QED BY <3>1, NumberCases
  <2>2. CASE ~(N < NUM_DIRECT)
    <3> DEFINE q == z \div BLOCK_SIZE
    <3>1. q \in Nat /\ N <= q /\ ~(q < NUM_DIRECT)
      BY <1>1, <1>2, <1>4, <2>2
    <3>2. z % BLOCK_SIZE # 0
      BY <1>2, <3>1
    <3>3. q * BLOCK_SIZE < z
      BY <1>1, <1>4, <3>2 DEF Bytes
    <3> HIDE DEF q
    <3>4. N * BLOCK_SIZE <= q * BLOCK_SIZE /\ q * BLOCK_SIZE \in Nat
      BY <1>1, <3>1, BlocksGrow
    <3> DEFINE a == N * BLOCK_SIZE
               b == q * BLOCK_SIZE
    <3>8. a \in Nat /\ b \in Nat /\ a <= b /\ b < z
      BY <1>4, <3>3, <3>4
    <3> HIDE DEF a, b
    <3>9. a < z /\ a < MaxBytes
      BY <1>1, <3>8
    <3>5. N * BLOCK_SIZE < z /\ N * BLOCK_SIZE < MaxBytes
      BY <3>9 DEF a
    <3>6. N \in FileBlocks
      BY <1>1, <3>5, InRange
    <3>7. N \in P
      BY <1>1, <1>3, <3>5, <3>6 DEF PresentOf
    <3> QED BY <1>3, <3>6, <3>7 DEF Shape
  <2> QED BY <2>1, <2>2
<1> HIDE DEF N, P, r
<1>7. /\ Shrunk(s, r, f) /\ Neat(r, f)
      /\ \A n \in FileBlocks : Address(r, f, n) = IF n = N THEN 0 ELSE Address(s, f, n)
  <2>1. CASE Address(s, f, N) = 0
    <3>1. N \in 0..(NUM_DIRECT - 1)
      BY <1>6, <2>1
    <3>2. r = s
      <4>1. Get(s, InInode(f, N)) = 0
        BY <2>1, <3>1, AddressAt
      <4>2. r = IF Get(s, InInode(f, N)) = 0 THEN s ELSE FreeSlot(s, InInode(f, N))
        BY <3>1, FreeCases DEF r
      <4> QED BY <4>1, <4>2
    <3>3. Shrunk(s, s, f)
      BY ShrunkSame DEF Alive
    <3> QED BY <1>3, <2>1, <3>2, <3>3 DEF Shape
  <2>2. CASE Address(s, f, N) # 0
    <3>1. Freed(s, r, f, N)
      BY <1>3, <1>6, <2>2, FreeFileBlockStep DEF r, Alive, Shape
    <3> QED BY <3>1 DEF Freed
  <2> QED BY <2>1, <2>2
<1>8. i \in JobRecord /\ i.op = "truncate" /\ i.pos = N + 1 /\ i.end = j.end /\ i.length = L
  BY <1>1 DEF JobRecord, N
<1> HIDE DEF i
<1>9. Sound(r) /\ Alive(r) /\ r.data = s.data /\ Kept(s, r, f)
  BY <1>7 DEF Shrunk, Alive
<1>10. Apart(s, r, f)
  BY <1>9 DEF Apart
<1>11. JobOf(i, z)
  <2>1. N < j.end
    BY DEF N
  <2> QED BY <1>1, <1>2, <1>4, <1>8, <2>1 DEF JobOf
<1>12. PresentOf(i, z) = P \ {N}
  <2>1. UptoOf(i, z) = z
    BY <1>8 DEF UptoOf
  <2>2. ASSUME NEW n \in FileBlocks
        PROVE  (n * BLOCK_SIZE < L \/ n >= N + 1) <=> (n * BLOCK_SIZE < L \/ n >= N) /\ n # N
    <3>1. n \in Nat
      BY CofsSizes DEF FileBlocks
    <3>2. n * BLOCK_SIZE \in Nat
      BY <3>1, BlocksGrow
    <3> QED BY <1>1, <1>4, <1>5, <3>1, <3>2
  <2> QED BY <1>3, <1>8, <2>1, <2>2 DEF PresentOf, P, N
<1>13. Shape(r, f, PresentOf(i, z))
  BY <1>3, <1>7, <1>12 DEF Shape
<1>14. ASSUME NEW k \in 0..(KnownOf(r, i, z) - 1) PROVE Right(r, f, k)
  <2>1. KnownOf(r, i, z) = L /\ KnownOf(s, j, z) = L
    BY <1>8 DEF KnownOf
  <2>2. k \in Nat /\ k < L /\ k < MaxBytes
    BY <1>1, <1>2, <2>1
  <2>3. k \div BLOCK_SIZE \in FileBlocks /\ k \div BLOCK_SIZE \in Nat
        /\ (k \div BLOCK_SIZE) * BLOCK_SIZE <= k /\ (k \div BLOCK_SIZE) * BLOCK_SIZE \in Nat
    BY <2>2, ByteBlock, BlockOf, BlockBelow
  <2>4. k \div BLOCK_SIZE # N
    BY <1>1, <1>4, <1>5, <2>2, <2>3
  <2>5. Right(s, f, k)
    BY <2>1 DEF FileInv
  <2> QED BY <1>7, <1>9, <2>3, <2>4, <2>5 DEF Right
<1>15. SavedOf(r, i, z, d, f)
  BY <1>8 DEF SavedOf
<1>16. FileInv(r, i, z, d, f)
  BY <1>1, <1>8, <1>11, <1>13, <1>14, <1>15 DEF FileInv
<1> QED BY <1>9, <1>10, <1>16 DEF r, i, N

-----------------------------------------------------------------------------
(* Calls that begin or end: the blocks stay, and no more bytes are known.   *)
LEMMA SameView ==
  ASSUME NEW s, Alive(s), NEW f, NEW j, NEW z, NEW d, FileInv(s, j, z, d, f),
         NEW i, NEW y, NEW e, i \in JobRecord, y \in 0..MaxBytes, JobOf(i, y), SavedOf(s, i, y, e, f),
         PresentOf(i, y) = PresentOf(j, z),
         KnownOf(s, i, y) \in Nat, KnownOf(s, j, z) \in Nat, KnownOf(s, i, y) <= KnownOf(s, j, z)
  PROVE  FileInv(s, i, y, e, f)
<1>1. Shape(s, f, PresentOf(i, y))
  BY DEF FileInv
<1>2. \A k \in 0..(KnownOf(s, i, y) - 1) : Right(s, f, k)
  <2>1. \A k \in 0..(KnownOf(s, i, y) - 1) : k \in 0..(KnownOf(s, j, z) - 1)
    OBVIOUS
  <2> QED BY <2>1 DEF FileInv
<1> QED BY <1>1, <1>2 DEF FileInv

LEMMA IdleJob == Idle \in JobRecord /\ Idle.op = "idle" /\ \A z : JobOf(Idle, z)
  BY DEF Idle, JobRecord, JobOps, JobOf

LEMMA ReadBegins ==
  ASSUME NEW s, Alive(s), NEW f, NEW j, NEW z, NEW d, FileInv(s, j, z, d, f), j.op = "idle",
         NEW offset \in Nat, offset <= z, NEW n \in Nat
  PROVE  FileInv(s, [op |-> "read", pos |-> offset, end |-> MinOf(offset + n, z), length |-> 0], z, d, f)
<1> DEFINE i == [op |-> "read", pos |-> offset, end |-> MinOf(offset + n, z), length |-> 0]
<1>1. z \in 0..MaxBytes /\ z \in Nat /\ j \in JobRecord /\ JobOf(j, z)
  BY CofsSizes DEF FileInv
<1>2. MinOf(offset + n, z) \in Nat /\ offset <= MinOf(offset + n, z) /\ MinOf(offset + n, z) <= z
  BY <1>1 DEF MinOf
<1>3. i \in JobRecord /\ i.op = "read" /\ i.pos = offset /\ i.end = MinOf(offset + n, z)
  BY <1>2 DEF JobRecord, JobOps
<1> HIDE DEF i
<1>4. JobOf(i, z)
  BY <1>2, <1>3 DEF JobOf
<1>5. UptoOf(i, z) = z /\ UptoOf(j, z) = z
  BY <1>3 DEF UptoOf
<1>6. KnownOf(s, i, z) = z /\ KnownOf(s, j, z) = z
  BY <1>3, <1>5 DEF KnownOf
<1>7. PresentOf(i, z) = PresentOf(j, z)
  BY <1>3, <1>5 DEF PresentOf
<1>8. SavedOf(s, i, z, d, f)
  BY DEF FileInv, SavedOf
<1>9. FileInv(s, i, z, d, f)
  BY <1>1, <1>3, <1>4, <1>6, <1>7, <1>8, SameView
<1> QED BY <1>9 DEF i

LEMMA WriteBegins ==
  ASSUME NEW s, Alive(s), NEW f, NEW j, NEW z, NEW d, FileInv(s, j, z, d, f), j.op = "idle",
         NEW offset \in Nat, offset <= z, NEW n \in Nat, offset + n <= MaxBytes
  PROVE  FileInv(s, [op |-> "write", pos |-> offset, end |-> offset + n, length |-> 0], z, d, f)
<1> DEFINE i == [op |-> "write", pos |-> offset, end |-> offset + n, length |-> 0]
<1>1. z \in 0..MaxBytes /\ z \in Nat /\ j \in JobRecord /\ JobOf(j, z)
  BY CofsSizes DEF FileInv
<1>2. i \in JobRecord /\ i.op = "write" /\ i.pos = offset /\ i.end = offset + n
  BY DEF JobRecord, JobOps
<1> HIDE DEF i
<1>3. JobOf(i, z)
  BY <1>2 DEF JobOf
<1>4. UptoOf(i, z) = z /\ UptoOf(j, z) = z
  BY <1>1, <1>2 DEF UptoOf
<1>5. KnownOf(s, i, z) = z /\ KnownOf(s, j, z) = z
  BY <1>2, <1>4 DEF KnownOf
<1>6. PresentOf(i, z) = PresentOf(j, z)
  BY <1>2, <1>4 DEF PresentOf
<1>7. SavedOf(s, i, z, d, f)
  BY DEF FileInv, SavedOf
<1>8. FileInv(s, i, z, d, f)
  BY <1>1, <1>2, <1>3, <1>5, <1>6, <1>7, SameView
<1> QED BY <1>8 DEF i

LEMMA CallEnds ==
  ASSUME NEW s, Alive(s), NEW f, NEW j, NEW z, NEW d, FileInv(s, j, z, d, f),
         j.op \in {"read", "write"}, j.op = "write" => j.pos <= z
  PROVE  FileInv(s, Idle, z, d, f)
<1>1. z \in 0..MaxBytes /\ z \in Nat /\ j \in JobRecord /\ JobOf(j, z) /\ j.pos \in Nat
  BY CofsSizes DEF FileInv, JobRecord
<1>2. Idle \in JobRecord /\ Idle.op = "idle" /\ JobOf(Idle, z)
  BY IdleJob
<1>3. UptoOf(Idle, z) = z /\ UptoOf(j, z) = z
  BY <1>1, <1>2 DEF UptoOf
<1>4. KnownOf(s, Idle, z) = z /\ KnownOf(s, j, z) = z
  BY <1>2, <1>3 DEF KnownOf
<1>5. PresentOf(Idle, z) = PresentOf(j, z)
  BY <1>2, <1>3 DEF PresentOf
<1>6. SavedOf(s, Idle, z, d, f)
  BY DEF FileInv, SavedOf
<1> QED BY <1>1, <1>2, <1>4, <1>5, <1>6, SameView

LEMMA WriteGrows ==
  ASSUME NEW s, Alive(s), NEW f, NEW j, NEW z, NEW d, FileInv(s, j, z, d, f),
         j.op = "write", j.pos > z
  PROVE  FileInv(s, Idle, j.pos, [size |-> j.pos, addrs |-> s.addrs[f]], f)
<1> DEFINE y == j.pos
<1>1. /\ z \in 0..MaxBytes /\ z \in Nat /\ j \in JobRecord /\ JobOf(j, z) /\ j.pos \in Nat
      /\ j.end \in Nat /\ MaxBytes \in Nat
  BY CofsSizes DEF FileInv, JobRecord
<1>2. Idle \in JobRecord /\ Idle.op = "idle" /\ JobOf(Idle, y)
  BY IdleJob
<1>3. y \in 0..MaxBytes
  BY <1>1 DEF JobOf
<1>4. UptoOf(Idle, y) = y /\ UptoOf(j, z) = y
  BY <1>1, <1>2 DEF UptoOf
<1>5. KnownOf(s, Idle, y) = y /\ KnownOf(s, j, z) = y
  BY <1>2, <1>4 DEF KnownOf
<1>6. PresentOf(Idle, y) = PresentOf(j, z)
  BY <1>2, <1>4 DEF PresentOf
<1>7. SavedOf(s, Idle, y, [size |-> y, addrs |-> s.addrs[f]], f)
  BY DEF SavedOf
<1> HIDE DEF y
<1>8. FileInv(s, Idle, y, [size |-> y, addrs |-> s.addrs[f]], f)
  BY <1>1, <1>2, <1>3, <1>5, <1>6, <1>7, SameView
<1> QED BY <1>8 DEF y

(* Lengths that cofs_truncate accepts are whole blocks.                     *)
LEMMA WholeBlocks ==
  ASSUME NEW L \in Nat, L % BLOCK_SIZE = 0, NEW n \in Nat
  PROVE  n < L \div BLOCK_SIZE <=> n * BLOCK_SIZE < L
<1> DEFINE q == L \div BLOCK_SIZE
           a == q * BLOCK_SIZE
           y == L % BLOCK_SIZE
<1>1. q \in Nat /\ a \in Nat /\ L = a + y /\ y = 0 /\ BLOCK_SIZE \in Nat \ {0}
  BY BlockOf, CofsSizes
<1> HIDE DEF q, y
<1>2. /\ n * BLOCK_SIZE \in Nat
      /\ n < q => n * BLOCK_SIZE + BLOCK_SIZE <= a
      /\ q <= n => a <= n * BLOCK_SIZE
  BY <1>1, BlocksGrow
<1> HIDE DEF a
<1>3. L = a
  BY <1>1
<1>4. n < q <=> n * BLOCK_SIZE < L
  BY <1>1, <1>2, <1>3
<1> QED BY <1>4 DEF q

LEMMA TruncateBegins ==
  ASSUME NEW s, Alive(s), NEW f, NEW j, NEW z, NEW d, FileInv(s, j, z, d, f), j.op = "idle",
         NEW L \in Nat, L <= z, L % BLOCK_SIZE = 0,
         ~(z % BLOCK_SIZE = 0 /\ z \div BLOCK_SIZE >= NUM_DIRECT)
  PROVE  FileInv(s, [op |-> "truncate", pos |-> L \div BLOCK_SIZE, end |-> z \div BLOCK_SIZE + 1,
                     length |-> L], z, d, f)
<1> DEFINE i == [op |-> "truncate", pos |-> L \div BLOCK_SIZE, end |-> z \div BLOCK_SIZE + 1, length |-> L]
           q == L \div BLOCK_SIZE
           m == z \div BLOCK_SIZE
<1>1. z \in 0..MaxBytes /\ z \in Nat /\ j \in JobRecord /\ JobOf(j, z) /\ NUM_DIRECT \in Nat
  BY CofsSizes DEF FileInv
<1>2. /\ q \in Nat /\ m \in Nat /\ q * BLOCK_SIZE <= L /\ q * BLOCK_SIZE \in Nat
  BY <1>1, BlockOf, BlockBelow
<1>3. q <= m
  <2>1. q * BLOCK_SIZE <= z
    BY <1>1, <1>2
  <2> HIDE DEF q
  <2> QED BY <1>1, <1>2, <2>1, BlockBelow
<1>4. \A n \in FileBlocks : n * BLOCK_SIZE < L \/ n >= q
  <2> SUFFICES ASSUME NEW n \in FileBlocks PROVE n * BLOCK_SIZE < L \/ n >= q
    OBVIOUS
  <2>1. n \in Nat
    BY CofsSizes DEF FileBlocks
  <2>2. n < q <=> n * BLOCK_SIZE < L
    BY <2>1, WholeBlocks
  <2> QED BY <1>2, <2>1, <2>2
<1>5. z % BLOCK_SIZE # 0 \/ m < NUM_DIRECT
  BY <1>1, <1>2
<1> HIDE DEF q, m
<1>6. i = [op |-> "truncate", pos |-> q, end |-> m + 1, length |-> L]
  BY DEF q, m
<1> HIDE DEF i
<1>7. i \in JobRecord /\ i.op = "truncate" /\ i.pos = q /\ i.end = m + 1 /\ i.length = L
  BY <1>2, <1>6 DEF JobRecord, JobOps
<1>8. JobOf(i, z)
  <2>1. q <= m + 1
    BY <1>2, <1>3
  <2> QED BY <1>2, <1>5, <1>7, <2>1 DEF JobOf, q, m
<1>9. UptoOf(i, z) = z /\ UptoOf(j, z) = z
  BY <1>7 DEF UptoOf
<1>10. KnownOf(s, i, z) = L /\ KnownOf(s, j, z) = z
  BY <1>7, <1>9 DEF KnownOf
<1>11. PresentOf(i, z) = PresentOf(j, z)
  BY <1>4, <1>7, <1>9 DEF PresentOf
<1>12. SavedOf(s, i, z, d, f)
  BY <1>7 DEF SavedOf
<1>13. FileInv(s, i, z, d, f)
  BY <1>1, <1>7, <1>8, <1>10, <1>11, <1>12, SameView
<1> QED BY <1>13 DEF i

LEMMA TruncateEnds ==
  ASSUME NEW s, Alive(s), NEW f, NEW j, NEW z, NEW d, FileInv(s, j, z, d, f),
         j.op = "truncate", j.pos >= j.end
  PROVE  FileInv(s, Idle, j.length, [size |-> j.length, addrs |-> s.addrs[f]], f)
<1> DEFINE L == j.length
           m == z \div BLOCK_SIZE
<1>1. /\ z \in 0..MaxBytes /\ z \in Nat /\ j \in JobRecord /\ JobOf(j, z) /\ j.pos \in Nat /\ j.end \in Nat
      /\ L \in Nat /\ MaxBytes \in Nat /\ BLOCK_SIZE \in Nat
  BY CofsSizes DEF FileInv, JobRecord
<1>2. L <= z /\ j.end = m + 1 /\ m \in Nat /\ j.pos <= j.end
  BY <1>1, BlockOf DEF JobOf
<1>3. Idle \in JobRecord /\ Idle.op = "idle" /\ JobOf(Idle, L)
  BY IdleJob
<1>4. UptoOf(Idle, L) = L /\ UptoOf(j, z) = z
  BY <1>3 DEF UptoOf
<1>5. KnownOf(s, Idle, L) = L /\ KnownOf(s, j, z) = L
  BY <1>3, <1>4 DEF KnownOf
<1>6. \A n \in FileBlocks : n * BLOCK_SIZE < L <=> n * BLOCK_SIZE < z /\ (n * BLOCK_SIZE < L \/ n >= j.pos)
  <2> SUFFICES ASSUME NEW n \in FileBlocks
               PROVE  n * BLOCK_SIZE < L <=> n * BLOCK_SIZE < z /\ (n * BLOCK_SIZE < L \/ n >= j.pos)
    OBVIOUS
  <2>1. n \in Nat /\ n * BLOCK_SIZE \in Nat
    <3>1. n \in Nat
      BY CofsSizes DEF FileBlocks
    <3> QED BY <3>1, BlocksGrow
  <2>2. n <= m <=> n * BLOCK_SIZE <= z
    BY <1>1, <2>1, BlockBelow
  <2> DEFINE a == n * BLOCK_SIZE
  <2>3. a \in Nat /\ (n <= m <=> a <= z)
    BY <2>1, <2>2
  <2> HIDE DEF a, m
  <2>4. a < L <=> a < z /\ (a < L \/ n >= j.pos)
    BY <1>1, <1>2, <2>1, <2>3
  <2> QED BY <2>4 DEF a
<1>7. PresentOf(Idle, L) = PresentOf(j, z)
  BY <1>3, <1>4, <1>6 DEF PresentOf
<1>8. SavedOf(s, Idle, L, [size |-> L, addrs |-> s.addrs[f]], f)
  BY DEF SavedOf
<1>9. L \in 0..MaxBytes
  BY <1>1, <1>2
<1> HIDE DEF L
<1>10. FileInv(s, Idle, L, [size |-> L, addrs |-> s.addrs[f]], f)
  BY <1>1, <1>3, <1>5, <1>7, <1>8, <1>9, SameView
<1> QED BY <1>10 DEF L

-----------------------------------------------------------------------------
(* The invariant: the file system is sound, and each file is as its call left it. *)
CofsInv ==
    /\ Sound(fs)
    /\ size \in [Files -> 0..MaxBytes] /\ job \in [Files -> JobRecord]
    /\ DOMAIN disk = Files /\ cuts \in 0..MaxCuts
    /\ \A f \in Files : FileInv(fs, job[f], size[f], disk[f], f)

LEMMA NothingYet ==
  ASSUME NEW s \in FsRecord, s.bitmap = Meta, \A t \in AllSlots : Get(s, t) = 0
  PROVE  Sound(s) /\ \A f \in Files : Shape(s, f, {})
<1>1. Holding(s) = {}
  BY DEF Holding
<1>2. {Get(s, t) : t \in Holding(s)} = {}
  BY <1>1
<1>3. \A b \in Blocks, k \in Words : Get(s, InBlock(b, k)) = 0
  BY SlotsThere
<1>4. Sound(s)
  BY <1>1, <1>2, <1>3 DEF Sound
<1>5. ASSUME NEW f \in Files PROVE Shape(s, f, {})
  <2>1. SingleOf(s, f) = 0 /\ DoubleOf(s, f) = 0
    BY CofsSizes, SlotsThere DEF SingleOf, DoubleOf
  <2>2. \A m \in Words : MidOf(s, f, m) = 0
    BY <1>3, <2>1, CofsSizes DEF MidOf
  <2>3. \A n \in FileBlocks : Address(s, f, n) = 0
    <3> TAKE n \in FileBlocks
    <3>1. \E v \in AllSlots : Address(s, f, n) = Get(s, v)
      BY AddressSlot
    <3> QED BY <3>1
  <2>4. /\ \A n \in SingleRange : n \in FileBlocks
        /\ \A n \in DoubleRange : n \in FileBlocks
    BY NumberCases
  <2> QED BY <2>1, <2>2, <2>3, <2>4 DEF Shape, Neat
<1> QED BY <1>4, <1>5

LEMMA CofsInit == Init => CofsInv
<1> SUFFICES ASSUME Init PROVE CofsInv
  OBVIOUS
<1>1. 0 \in Blocks /\ Meta \subseteq Blocks /\ MaxBytes \in Nat /\ MaxCuts \in Nat
  BY CofsSizes, CofsBlocksAssumption
<1>2. fs \in FsRecord /\ fs.bitmap = Meta
  <2>1. /\ [f \in Files |-> [k \in Addrs |-> 0]] \in [Files -> [Addrs -> Blocks]]
        /\ [b \in Blocks |-> [k \in Words |-> 0]] \in [Blocks -> [Words -> Blocks]]
        /\ [b \in Blocks |-> [k \in Bytes |-> Blank]] \in [Blocks -> [Bytes -> DataBytes]]
    BY <1>1 DEF DataBytes
  <2> QED BY <1>1, <2>1 DEF Init, FsRecord
<1>3. \A t \in AllSlots : Get(fs, t) = 0
  <2> TAKE t \in AllSlots
  <2>1. CASE \E f \in Files, k \in Addrs : t = InInode(f, k)
    <3>1. fs.addrs = [f \in Files |-> [k \in Addrs |-> 0]]
      BY DEF Init
    <3>2. \A f \in Files, k \in Addrs : fs.addrs[f][k] = 0
      BY <3>1
    <3> QED BY <2>1, <3>2, GetFields
  <2>2. CASE \E b \in Blocks, k \in Words : t = InBlock(b, k)
    <3>1. fs.words = [b \in Blocks |-> [k \in Words |-> 0]]
      BY DEF Init
    <3>2. \A b \in Blocks, k \in Words : fs.words[b][k] = 0
      BY <3>1
    <3> QED BY <2>2, <3>2, GetFields
  <2> QED BY <2>1, <2>2, SlotCases
<1>4. Sound(fs) /\ \A f \in Files : Shape(fs, f, {})
  BY <1>2, <1>3, NothingYet
<1>5. Idle \in JobRecord /\ Idle.op = "idle" /\ \A z : JobOf(Idle, z)
  BY IdleJob
<1>6. /\ size \in [Files -> 0..MaxBytes] /\ job \in [Files -> JobRecord]
      /\ DOMAIN disk = Files /\ cuts \in 0..MaxCuts
  <2>1. size \in [Files -> 0..MaxBytes]
    <3>1. 0 \in 0..MaxBytes
      BY <1>1
    <3> QED BY <3>1 DEF Init
  <2>2. job \in [Files -> JobRecord]
    BY <1>5 DEF Init
  <2>3. DOMAIN disk = Files
    BY DEF Init
  <2>4. cuts \in 0..MaxCuts
    <3>1. cuts = 0
      BY DEF Init
    <3> QED BY <1>1, <3>1
  <2> QED BY <2>1, <2>2, <2>3, <2>4
<1>7. ASSUME NEW f \in Files PROVE FileInv(fs, job[f], size[f], disk[f], f)
  <2>1. job[f] = Idle /\ size[f] = 0 /\ disk[f] = [size |-> 0, addrs |-> fs.addrs[f]]
    BY DEF Init
  <2>2. UptoOf(Idle, 0) = 0
    BY <1>5 DEF UptoOf
  <2>3. PresentOf(Idle, 0) = {}
    <3>1. \A n \in FileBlocks : ~(n * BLOCK_SIZE < 0)
      <4> TAKE n \in FileBlocks
      <4>1. n \in Nat
        BY CofsSizes DEF FileBlocks
      <4>2. n * BLOCK_SIZE \in Nat
        BY <4>1, BlocksGrow
      <4> QED BY <4>2
    <3> QED BY <2>2, <3>1 DEF PresentOf
  <2>4. KnownOf(fs, Idle, 0) = 0
    BY <1>5, <2>2 DEF KnownOf
  <2>5. \A k \in 0..(KnownOf(fs, Idle, 0) - 1) : Right(fs, f, k)
    BY <2>4
  <2>6. FileInv(fs, Idle, 0, disk[f], f)
    BY <1>1, <1>4, <1>5, <2>1, <2>3, <2>5 DEF FileInv, SavedOf
  <2> QED BY <2>1, <2>6
<1> QED BY <1>4, <1>6, <1>7 DEF CofsInv

(* A step of a call on f.                                                   *)
Others(f) ==
    /\ size' \in [Files -> 0..MaxBytes] /\ job' \in [Files -> JobRecord] /\ DOMAIN disk' = Files
    /\ \A g \in Files \ {f} : size'[g] = size[g] /\ job'[g] = job[g] /\ disk'[g] = disk[g]

LEMMA CallSteps ==
  ASSUME CofsInv, Alive(fs), NEW f \in Files, Apart(fs, fs', f), Others(f), cuts' \in 0..MaxCuts,
         FileInv(fs', job'[f], size'[f], disk'[f], f)
  PROVE  CofsInv'
<1>1. ASSUME NEW g \in Files, g # f PROVE FileInv(fs', job'[g], size'[g], disk'[g], g)
  <2>1. job'[g] = job[g] /\ size'[g] = size[g] /\ disk'[g] = disk[g]
    BY <1>1 DEF Others
  <2>2. FileInv(fs, job[g], size[g], disk[g], g) /\ Sound(fs)
    BY DEF CofsInv
  <2>3. Seen(fs, fs', g)
    BY <1>1 DEF Apart, Kept
  <2>4. \A k \in FileBlocks, i \in Bytes :
           fs'.data[Address(fs, g, k)][i] = fs.data[Address(fs, g, k)][i]
    BY <1>1 DEF Apart
  <2>5. FileInv(fs', job[g], size[g], disk[g], g)
    BY <2>2, <2>3, <2>4, FileKept
  <2> QED BY <2>1, <2>5
<1>2. Sound(fs')
  BY DEF Apart
<1>3. \A g \in Files : FileInv(fs', job'[g], size'[g], disk'[g], g)
  BY <1>1
<1> QED BY <1>2, <1>3 DEF CofsInv, Others

LEMMA ApartSame == \A s, f : Sound(s) => Apart(s, s, f)
  BY DEF Apart, Kept, Seen

LEMMA ReadKeeps ==
  ASSUME CofsInv, NEW f \in Files, NEW offset \in Nat, NEW n \in Nat, Read(f, offset, n)
  PROVE  CofsInv'
<1> DEFINE i == [op |-> "read", pos |-> offset, end |-> MinOf(offset + n, size[f]), length |-> 0]
<1>1. /\ Alive(fs) /\ job[f].op = "idle" /\ offset <= size[f] /\ fs' = fs /\ size' = size
      /\ disk' = disk /\ cuts' = cuts /\ job' = [job EXCEPT ![f] = i]
  BY DEF Read, Working, Start, Alive
<1>2. FileInv(fs, job[f], size[f], disk[f], f)
  BY DEF CofsInv
<1>3. FileInv(fs, i, size[f], disk[f], f)
  BY <1>1, <1>2, ReadBegins
<1> HIDE DEF i
<1>4. i \in JobRecord
  BY <1>3 DEF FileInv
<1>5. job'[f] = i /\ Others(f) /\ cuts' \in 0..MaxCuts
  BY <1>1, <1>4 DEF CofsInv, Others
<1>6. Apart(fs, fs', f)
  BY <1>1, ApartSame DEF CofsInv
<1>7. FileInv(fs', job'[f], size'[f], disk'[f], f)
  BY <1>1, <1>3, <1>5
<1> QED BY <1>1, <1>5, <1>6, <1>7, CallSteps

LEMMA WriteKeeps ==
  ASSUME CofsInv, NEW f \in Files, NEW offset \in Nat, NEW n \in Nat, Write(f, offset, n)
  PROVE  CofsInv'
<1> DEFINE i == [op |-> "write", pos |-> offset, end |-> offset + n, length |-> 0]
<1>1. /\ Alive(fs) /\ job[f].op = "idle" /\ offset <= size[f] /\ offset + n <= MaxBytes
      /\ fs' = fs /\ size' = size
      /\ disk' = disk /\ cuts' = cuts /\ job' = [job EXCEPT ![f] = i]
  BY DEF Write, Working, Start, Alive
<1>2. FileInv(fs, job[f], size[f], disk[f], f)
  BY DEF CofsInv
<1>3. FileInv(fs, i, size[f], disk[f], f)
  BY <1>1, <1>2, WriteBegins
<1> HIDE DEF i
<1>4. i \in JobRecord
  BY <1>3 DEF FileInv
<1>5. job'[f] = i /\ Others(f) /\ cuts' \in 0..MaxCuts
  BY <1>1, <1>4 DEF CofsInv, Others
<1>6. Apart(fs, fs', f)
  BY <1>1, ApartSame DEF CofsInv
<1>7. FileInv(fs', job'[f], size'[f], disk'[f], f)
  BY <1>1, <1>3, <1>5
<1> QED BY <1>1, <1>5, <1>6, <1>7, CallSteps

LEMMA TruncateKeeps ==
  ASSUME CofsInv, ~Aligned, NEW f \in Files, NEW L \in Nat, Truncate(f, L)
  PROVE  CofsInv'
<1> DEFINE z == size[f]
           i == [op |-> "truncate", pos |-> L \div BLOCK_SIZE, end |-> z \div BLOCK_SIZE + 1, length |-> L]
<1>1. /\ Alive(fs) /\ job[f].op = "idle" /\ L <= z /\ L % BLOCK_SIZE = 0
      /\ ~(z % BLOCK_SIZE = 0 /\ z \div BLOCK_SIZE >= NUM_DIRECT)
      /\ cuts < MaxCuts /\ cuts' = cuts + 1
      /\ fs' = fs /\ size' = size /\ disk' = disk /\ job' = [job EXCEPT ![f] = i]
  BY DEF Truncate, Working, Start, Alive, PastEnd, Fbe
<1>2. FileInv(fs, job[f], z, disk[f], f)
  BY DEF CofsInv
<1>3. FileInv(fs, i, z, disk[f], f)
  <2> HIDE DEF z
  <2> QED BY <1>1, <1>2, TruncateBegins
<1> HIDE DEF i
<1>4. i \in JobRecord
  BY <1>3 DEF FileInv
<1>5. job'[f] = i /\ Others(f)
  BY <1>1, <1>4 DEF CofsInv, Others
<1>6. cuts' \in 0..MaxCuts
  BY <1>1, CofsBlocksAssumption DEF CofsInv
<1>7. Apart(fs, fs', f)
  BY <1>1, ApartSame DEF CofsInv
<1>8. FileInv(fs', job'[f], size'[f], disk'[f], f)
  BY <1>1, <1>3, <1>5
<1> QED BY <1>1, <1>5, <1>6, <1>7, <1>8, CallSteps

LEMMA ReadBlockKeeps ==
  ASSUME CofsInv, NEW f \in Files, ReadBlock(f)
  PROVE  CofsInv'
<1> DEFINE i == [job[f] EXCEPT !.pos = Advance(job[f])]
<1>1. /\ Alive(fs) /\ job[f].op = "read" /\ job[f].pos < job[f].end
      /\ fs' = BlockMap(fs, f, job[f].pos \div BLOCK_SIZE)
      /\ size' = size /\ disk' = disk /\ cuts' = cuts
      /\ job' = [job EXCEPT ![f].pos = Advance(job[f])]
  BY DEF ReadBlock, Working, Alive
<1>2. FileInv(fs, job[f], size[f], disk[f], f) /\ Sound(fs)
  BY DEF CofsInv
<1>3. fs' = fs /\ FileInv(fs, i, size[f], disk[f], f)
  BY <1>1, <1>2, ReadTurn
<1>4. job' = [job EXCEPT ![f] = i]
  BY <1>1 DEF CofsInv, JobRecord
<1> HIDE DEF i
<1>5. i \in JobRecord
  BY <1>3 DEF FileInv
<1>6. job'[f] = i /\ Others(f) /\ cuts' \in 0..MaxCuts
  BY <1>1, <1>4, <1>5 DEF CofsInv, Others
<1>7. Apart(fs, fs', f)
  BY <1>2, <1>3, ApartSame
<1>8. FileInv(fs', job'[f], size'[f], disk'[f], f)
  BY <1>1, <1>3, <1>6
<1> QED BY <1>1, <1>6, <1>7, <1>8, CallSteps

LEMMA WriteBlockKeeps ==
  ASSUME CofsInv, NEW f \in Files, WriteBlock(f)
  PROVE  CofsInv'
<1> DEFINE i == [job[f] EXCEPT !.pos = Advance(job[f])]
<1>1. /\ Alive(fs) /\ job[f].op = "write" /\ job[f].pos < job[f].end
      /\ fs' = Copy(BlockMap(fs, f, job[f].pos \div BLOCK_SIZE), f, job[f])
      /\ size' = size /\ disk' = disk /\ cuts' = cuts
      /\ job' = [job EXCEPT ![f].pos = Advance(job[f])]
  BY DEF WriteBlock, Working, Alive
<1>2. FileInv(fs, job[f], size[f], disk[f], f) /\ Sound(fs)
  BY DEF CofsInv
<1>3. Apart(fs, fs', f) /\ FileInv(fs', i, size[f], disk[f], f)
  BY <1>1, <1>2, WriteTurn
<1>4. job' = [job EXCEPT ![f] = i]
  BY <1>1 DEF CofsInv, JobRecord
<1> HIDE DEF i
<1>5. i \in JobRecord
  BY <1>3 DEF FileInv
<1>6. job'[f] = i /\ Others(f) /\ cuts' \in 0..MaxCuts
  BY <1>1, <1>4, <1>5 DEF CofsInv, Others
<1>7. FileInv(fs', job'[f], size'[f], disk'[f], f)
  BY <1>1, <1>3, <1>6
<1> QED BY <1>1, <1>3, <1>6, <1>7, CallSteps

LEMMA TruncateBlockKeeps ==
  ASSUME CofsInv, NEW f \in Files, TruncateBlock(f)
  PROVE  CofsInv'
<1> DEFINE i == [job[f] EXCEPT !.pos = job[f].pos + 1]
<1>1. /\ Alive(fs) /\ job[f].op = "truncate" /\ job[f].pos < job[f].end
      /\ fs' = FreeFileBlock(fs, f, job[f].pos)
      /\ size' = size /\ disk' = disk /\ cuts' = cuts
      /\ job' = [job EXCEPT ![f].pos = @ + 1]
  BY DEF TruncateBlock, Working, Alive
<1>2. FileInv(fs, job[f], size[f], disk[f], f) /\ Sound(fs)
  BY DEF CofsInv
<1>3. Apart(fs, fs', f) /\ FileInv(fs', i, size[f], disk[f], f)
  BY <1>1, <1>2, TruncateTurn
<1>4. job' = [job EXCEPT ![f] = i]
  BY <1>1 DEF CofsInv, JobRecord
<1> HIDE DEF i
<1>5. i \in JobRecord
  BY <1>3 DEF FileInv
<1>6. job'[f] = i /\ Others(f) /\ cuts' \in 0..MaxCuts
  BY <1>1, <1>4, <1>5 DEF CofsInv, Others
<1>7. FileInv(fs', job'[f], size'[f], disk'[f], f)
  BY <1>1, <1>3, <1>6
<1> QED BY <1>1, <1>3, <1>6, <1>7, CallSteps

(* A call ends: its file gets size z and inode d.                           *)
LEMMA EndKeeps ==
  ASSUME CofsInv, NEW f \in Files, Alive(fs), fs' = fs, cuts' = cuts, job' = [job EXCEPT ![f] = Idle],
         Others(f), FileInv(fs, Idle, size'[f], disk'[f], f)
  PROVE  CofsInv'
<1>1. job'[f] = Idle
  BY DEF CofsInv
<1>2. FileInv(fs', job'[f], size'[f], disk'[f], f)
  BY <1>1
<1>3. Apart(fs, fs', f)
  BY ApartSame DEF CofsInv
<1>4. cuts' \in 0..MaxCuts
  BY DEF CofsInv
<1> QED BY <1>2, <1>3, <1>4, CallSteps

LEMMA EndsKeep ==
  ASSUME CofsInv, NEW f \in Files, ReadEnd(f) \/ WriteEnd(f) \/ TruncateEnd(f)
  PROVE  CofsInv'
<1> DEFINE j == job[f]
           z == size[f]
           d == disk[f]
<1>1. FileInv(fs, j, z, d, f) /\ Sound(fs) /\ Idle \in JobRecord
  BY IdleJob DEF CofsInv
<1>2. /\ Alive(fs) /\ fs' = fs /\ cuts' = cuts /\ job' = [job EXCEPT ![f] = Idle]
  BY DEF ReadEnd, WriteEnd, TruncateEnd, Working, Finish, Alive
<1>3. ASSUME size' = size, disk' = disk PROVE Others(f)
  BY <1>1, <1>2, <1>3 DEF Others, CofsInv
<1>4. ASSUME NEW y, FileInv(fs, Idle, y, [size |-> y, addrs |-> fs.addrs[f]], f),
             size' = [size EXCEPT ![f] = y], UpdateNode(f, y)
      PROVE  CofsInv'
  <2>1. y \in 0..MaxBytes
    BY <1>4 DEF FileInv
  <2>2. Others(f) /\ size'[f] = y /\ disk'[f] = [size |-> y, addrs |-> fs.addrs[f]]
    BY <1>1, <1>2, <1>4, <2>1 DEF Others, CofsInv, UpdateNode
  <2> QED BY <1>2, <1>4, <2>2, EndKeeps
<1>5. CASE ReadEnd(f)
  <2>1. j.op = "read" /\ size' = size /\ disk' = disk
    BY <1>5 DEF ReadEnd, Working
  <2>2. FileInv(fs, Idle, z, d, f)
    BY <1>1, <1>2, <2>1, CallEnds
  <2> QED BY <1>2, <1>3, <2>1, <2>2, EndKeeps
<1>6. CASE WriteEnd(f)
  <2>1. j.op = "write"
    BY <1>6 DEF WriteEnd, Working
  <2>2. CASE j.pos > z /\ size' = [size EXCEPT ![f] = j.pos] /\ UpdateNode(f, j.pos)
    <3>1. FileInv(fs, Idle, j.pos, [size |-> j.pos, addrs |-> fs.addrs[f]], f)
      BY <1>1, <1>2, <2>1, <2>2, WriteGrows
    <3> QED BY <1>4, <2>2, <3>1
  <2>3. CASE j.pos <= z /\ size' = size /\ disk' = disk
    <3>1. FileInv(fs, Idle, z, d, f)
      BY <1>1, <1>2, <2>1, <2>3, CallEnds
    <3> QED BY <1>2, <1>3, <2>3, <3>1, EndKeeps
  <2> QED BY <1>6, <2>2, <2>3 DEF WriteEnd
<1>7. CASE TruncateEnd(f)
  <2>1. /\ j.op = "truncate" /\ j.pos >= j.end
        /\ size' = [size EXCEPT ![f] = j.length] /\ UpdateNode(f, j.length)
    BY <1>7 DEF TruncateEnd, Working
  <2>2. FileInv(fs, Idle, j.length, [size |-> j.length, addrs |-> fs.addrs[f]], f)
    BY <1>1, <1>2, <2>1, TruncateEnds
  <2> QED BY <1>4, <2>1, <2>2
<1> QED BY <1>5, <1>6, <1>7

LEMMA CofsNext ==
  ASSUME CofsInv, ~Aligned, [Next]_vars
  PROVE  CofsInv'
<1>1. CASE Next
  <2>1. PICK f \in Files :
          \/ \E offset \in Offsets \cup {size[f]}, n \in Counts : Read(f, offset, n) \/ Write(f, offset, n)
          \/ \E length \in 0..size[f] : Truncate(f, length)
          \/ ReadBlock(f) \/ ReadEnd(f)
          \/ WriteBlock(f) \/ WriteEnd(f)
          \/ TruncateBlock(f) \/ TruncateEnd(f)
    BY <1>1 DEF Next
  <2>2. size[f] \in Nat /\ Offsets \subseteq Nat /\ Counts \subseteq Nat
    <3>1. MaxBytes \in Nat /\ size[f] \in 0..MaxBytes
      BY CofsSizes DEF CofsInv
    <3> QED BY <3>1, CofsBlocksAssumption
  <2>3. ASSUME NEW offset \in Offsets \cup {size[f]}, NEW n \in Counts, Read(f, offset, n) PROVE CofsInv'
    BY <2>2, <2>3, ReadKeeps
  <2>4. ASSUME NEW offset \in Offsets \cup {size[f]}, NEW n \in Counts, Write(f, offset, n) PROVE CofsInv'
    BY <2>2, <2>4, WriteKeeps
  <2>5. ASSUME NEW length \in 0..size[f], Truncate(f, length) PROVE CofsInv'
    <3>1. length \in Nat
      BY <2>2, <2>5
    <3> QED BY <2>5, <3>1, TruncateKeeps
  <2>6. ASSUME ReadBlock(f) PROVE CofsInv'
    BY <2>6, ReadBlockKeeps
  <2>7. ASSUME WriteBlock(f) PROVE CofsInv'
    BY <2>7, WriteBlockKeeps
  <2>8. ASSUME TruncateBlock(f) PROVE CofsInv'
    BY <2>8, TruncateBlockKeeps
  <2>9. ASSUME ReadEnd(f) \/ WriteEnd(f) \/ TruncateEnd(f) PROVE CofsInv'
    BY <2>9, EndsKeep
  <2> QED BY <2>1, <2>3, <2>4, <2>5, <2>6, <2>7, <2>8, <2>9
<1>2. CASE UNCHANGED vars
  BY <1>2 DEF vars, CofsInv
<1> QED BY <1>1, <1>2

-----------------------------------------------------------------------------
(* As many values as numbers.                                               *)
LEMMA CountNumbers ==
  ASSUME NEW n \in Nat, NEW h, DOMAIN h = 0..(n - 1), h = [x \in 0..(n - 1) |-> h[x]],
         \A x, y \in 0..(n - 1) : h[x] = h[y] => x = y
  PROVE  /\ IsFiniteSet({h[x] : x \in 0..(n - 1)})
         /\ Cardinality({h[x] : x \in 0..(n - 1)}) = n
<1> DEFINE T == {h[x] : x \in 0..(n - 1)}
           D == 0..(n - 1)
<1>1. IsFiniteSet(D) /\ Cardinality(D) = n
  <2>1. 0 \in Int /\ n - 1 \in Int
    OBVIOUS
  <2>2. /\ IsFiniteSet(0..(n - 1))
        /\ Cardinality(0..(n - 1)) = IF 0 > n - 1 THEN 0 ELSE (n - 1) - 0 + 1
    BY <2>1, FS_Interval
  <2>3. Cardinality(D) = n
    BY <2>2
  <2> QED BY <2>2, <2>3
<1> HIDE DEF D
<1>2. h \in [D -> T]
  BY DEF D
<1>3. h \in Surjection(D, T) /\ h \in Injection(D, T)
  BY <1>2 DEF Surjection, Injection, IsInjective, D
<1> HIDE DEF T
<1>4. IsFiniteSet(T) /\ Cardinality(T) = Cardinality(D)
  BY <1>1, <1>3, FS_Surjection
<1> QED BY <1>1, <1>4 DEF T

LEMMA DivBelow ==
  ASSUME NEW S \in Nat \ {0}, NEW x \in Nat, NEW k \in Nat
  PROVE  x \div S \in Nat /\ k * S \in Nat /\ (k <= x \div S <=> k * S <= x)
<1> DEFINE q == x \div S
           y == x % S
<1>1. q \in Int /\ y \in 0..(S - 1) /\ x = S * q + y
  BY Z3
<1> HIDE DEF q, y
<1>2. ~(q < 0)
  <2>1. ASSUME q < 0 PROVE FALSE
    <3>1. S * q <= S * (0 - 1)
      BY <1>1, <2>1
    <3> QED BY <1>1, <3>1
  <2> QED BY <2>1
<1>3. q \in Nat /\ k * S \in Nat /\ q * S \in Nat /\ x = q * S + y
  BY <1>1, <1>2
<1>4. k <= q => k * S <= q * S
  <2>1. ASSUME k <= q PROVE k * S <= q * S
    <3>1. q - k \in Nat /\ (q - k) * S \in Nat
      BY <1>3, <2>1
    <3>2. (q - k) * S = q * S - k * S
      BY <1>3
    <3> QED BY <1>3, <3>1, <3>2
  <2> QED BY <2>1
<1>5. q < k => q * S + S <= k * S
  <2>1. ASSUME q < k PROVE q * S + S <= k * S
    <3>1. k - q - 1 \in Nat /\ (k - q - 1) * S \in Nat
      BY <1>3, <2>1
    <3>2. (k - q - 1) * S = k * S - q * S - S
      BY <1>3
    <3> QED BY <1>3, <3>1, <3>2
  <2> QED BY <2>1
<1> DEFINE a == k * S
           b == q * S
<1>6. a \in Nat /\ b \in Nat /\ x = b + y /\ (k <= q => a <= b) /\ (q < k => b + S <= a)
  BY <1>3, <1>4, <1>5
<1> HIDE DEF a, b
<1>7. k <= q <=> a <= x
  BY <1>1, <1>3, <1>6
<1> QED BY <1>3, <1>7 DEF q, a

LEMMA CeilBelow ==
  ASSUME NEW S \in Nat \ {0}, NEW x \in Nat, NEW m \in Nat
  PROVE  Ceil(x, S) \in Nat /\ m * S \in Nat /\ (m < Ceil(x, S) <=> m * S < x)
<1>1. x + S - 1 \in Nat /\ m + 1 \in Nat
  OBVIOUS
<1>2. /\ Ceil(x, S) \in Nat
      /\ m + 1 <= Ceil(x, S) <=> (m + 1) * S <= x + S - 1
  BY <1>1, DivBelow DEF Ceil
<1>3. m * S \in Nat /\ (m + 1) * S = m * S + S
  OBVIOUS
<1> DEFINE a == m * S
           c == Ceil(x, S)
<1>4. a \in Nat /\ c \in Nat /\ (m + 1 <= c <=> a + S <= x + S - 1)
  BY <1>2, <1>3
<1> HIDE DEF a, c
<1>5. m < c <=> a < x
  BY <1>4
<1> QED BY <1>4, <1>5 DEF a, c

-----------------------------------------------------------------------------
(* The slots of a file with N blocks.                                       *)
LeafOf(s, f, n) ==
    IF n \in 0..(NUM_DIRECT - 1) THEN InInode(f, n)
    ELSE IF n \in SingleRange THEN InBlock(SingleOf(s, f), n - NUM_DIRECT)
    ELSE InBlock(MidOf(s, f, Midx(n)), Sidx(n))
Held(s, f) == {t \in OwnSlots(s, f) : Get(s, t) # 0}
TailOf(N) == IF N > NUM_DIRECT + NUM_SIND THEN N - NUM_DIRECT - NUM_SIND ELSE 0
Leaves(s, f, N) == {LeafOf(s, f, n) : n \in 0..(N - 1)}
Middles(s, f, N) == {InBlock(DoubleOf(s, f), m) : m \in 0..(Ceil(TailOf(N), NUM_SIND) - 1)}

LEMMA LeafFacts ==
  ASSUME NEW s, NEW f \in Files, NEW n \in FileBlocks
  PROVE  /\ Address(s, f, n) = Get(s, LeafOf(s, f, n))
         /\ n \in 0..(NUM_DIRECT - 1) => LeafOf(s, f, n) = InInode(f, n)
         /\ n \in SingleRange => LeafOf(s, f, n) = InBlock(SingleOf(s, f), n - NUM_DIRECT)
         /\ n \in DoubleRange => LeafOf(s, f, n) = InBlock(MidOf(s, f, Midx(n)), Sidx(n))
<1>1. /\ n \in 0..(NUM_DIRECT - 1) => LeafOf(s, f, n) = InInode(f, n)
      /\ n \in SingleRange => LeafOf(s, f, n) = InBlock(SingleOf(s, f), n - NUM_DIRECT)
      /\ n \in DoubleRange => LeafOf(s, f, n) = InBlock(MidOf(s, f, Midx(n)), Sidx(n))
  BY NumberCases DEF LeafOf
<1>2. Address(s, f, n) = Get(s, LeafOf(s, f, n))
  BY <1>1, AddressAt, NumberCases
<1> QED BY <1>1, <1>2

(* A block that is there is reached over blocks of block numbers that are.  *)
LEMMA LeafMaps ==
  ASSUME NEW s, Sound(s), NEW f \in Files, NEW n \in FileBlocks, Address(s, f, n) # 0
  PROVE  /\ LeafOf(s, f, n) \in Held(s, f)
         /\ n \in SingleRange => SingleOf(s, f) # 0
         /\ n \in DoubleRange => DoubleOf(s, f) # 0 /\ MidOf(s, f, Midx(n)) # 0
<1>1. /\ n \in SingleRange => SingleOf(s, f) # 0
      /\ n \in DoubleRange => DoubleOf(s, f) # 0 /\ MidOf(s, f, Midx(n)) # 0
  BY LeafSlots
<1>2. LeafOf(s, f, n) \in OwnSlots(s, f)
  <2>1. CASE n \in 0..(NUM_DIRECT - 1)
    BY <2>1, LeafFacts, LeafSlots DEF LeafSlot
  <2>2. CASE n \in SingleRange
    BY <2>2, LeafFacts, LeafSlots DEF LeafSlot
  <2>3. CASE n \in DoubleRange
    BY <2>3, LeafFacts, LeafSlots DEF LeafSlot
  <2> QED BY <2>1, <2>2, <2>3, NumberCases
<1> QED BY <1>1, <1>2, LeafFacts DEF Held

LEMMA RangeFacts ==
  ASSUME NEW N \in Nat, N <= NUM_DIRECT + NUM_SIND + NUM_DIND
  PROVE  /\ \A n \in 0..(N - 1) : n \in FileBlocks
         /\ \A n \in FileBlocks : n < N <=> n \in 0..(N - 1)
         /\ N > NUM_DIRECT <=> \E n \in SingleRange : n < N
         /\ N > NUM_DIRECT + NUM_SIND <=> \E n \in DoubleRange : n < N
         /\ TailOf(N) \in Nat /\ TailOf(N) <= NUM_SIND * NUM_SIND
         /\ TailOf(N) > 0 <=> N > NUM_DIRECT + NUM_SIND
<1>1. NUM_DIRECT \in Nat \ {0} /\ NUM_SIND \in Nat \ {0} /\ NUM_DIND \in Nat \ {0} /\ NUM_DIND = NUM_SIND * NUM_SIND
  BY CofsSizes
<1> DEFINE D == NUM_DIND
<1>2. D \in Nat \ {0} /\ N <= NUM_DIRECT + NUM_SIND + D
  BY <1>1
<1>3. /\ FileBlocks = 0..(NUM_DIRECT + NUM_SIND + D - 1)
      /\ DoubleRange = (NUM_DIRECT + NUM_SIND)..(NUM_DIRECT + NUM_SIND + D - 1)
  BY DEF FileBlocks, DoubleRange
<1> HIDE DEF D
<1>4. TailOf(N) \in Nat /\ TailOf(N) <= D
  BY <1>1, <1>2 DEF TailOf
<1>5. TailOf(N) > 0 <=> N > NUM_DIRECT + NUM_SIND
  BY <1>1, <1>2 DEF TailOf
<1>6. /\ \A n \in 0..(N - 1) : n \in FileBlocks
      /\ \A n \in FileBlocks : n < N <=> n \in 0..(N - 1)
  BY <1>1, <1>2, <1>3
<1>7. N > NUM_DIRECT <=> \E n \in SingleRange : n < N
  <2>1. N > NUM_DIRECT => NUM_DIRECT \in SingleRange /\ NUM_DIRECT < N
    BY <1>1 DEF SingleRange
  <2>2. \A n \in SingleRange : n < N => N > NUM_DIRECT
    BY <1>1 DEF SingleRange
  <2> QED BY <2>1, <2>2
<1>8. N > NUM_DIRECT + NUM_SIND <=> \E n \in DoubleRange : n < N
  <2>1. N > NUM_DIRECT + NUM_SIND => NUM_DIRECT + NUM_SIND \in DoubleRange /\ NUM_DIRECT + NUM_SIND < N
    BY <1>1, <1>2, <1>3
  <2>2. \A n \in DoubleRange : n < N => N > NUM_DIRECT + NUM_SIND
    BY <1>1, <1>2, <1>3
  <2> QED BY <2>1, <2>2
<1>9. TailOf(N) <= NUM_SIND * NUM_SIND
  BY <1>1, <1>4 DEF D
<1> QED BY <1>4, <1>5, <1>6, <1>7, <1>8, <1>9

(* Which indirect blocks the double indirect one names.                     *)
LEMMA MidsUsed ==
  ASSUME NEW N \in Nat, N <= NUM_DIRECT + NUM_SIND + NUM_DIND, NEW m \in Nat
  PROVE  m < Ceil(TailOf(N), NUM_SIND) <=> m \in Words /\ \E n \in DoubleRange : Midx(n) = m /\ n < N
<1>1. NUM_DIRECT \in Nat /\ NUM_SIND \in Nat \ {0} /\ Words = 0..(NUM_SIND - 1)
  BY CofsSizes
<1>2. TailOf(N) \in Nat /\ TailOf(N) <= NUM_SIND * NUM_SIND
  BY RangeFacts
<1>3. m < Ceil(TailOf(N), NUM_SIND) <=> m * NUM_SIND < TailOf(N)
  BY <1>1, <1>2, CeilBelow
<1>4. ASSUME m * NUM_SIND < TailOf(N) PROVE m \in Words /\ \E n \in DoubleRange : Midx(n) = m /\ n < N
  <2>1. m \in Words
    <3>1. m * NUM_SIND < NUM_SIND * NUM_SIND
      <4> DEFINE a == m * NUM_SIND
                 b == NUM_SIND * NUM_SIND
      <4>1. a \in Nat /\ b \in Nat /\ a < TailOf(N) /\ TailOf(N) <= b
        BY <1>1, <1>2, <1>4
      <4> HIDE DEF a, b
      <4>2. a < b
        BY <1>2, <4>1
      <4> QED BY <4>2 DEF a, b
    <3>2. ~(m >= NUM_SIND)
      <4>1. ASSUME m >= NUM_SIND PROVE FALSE
        <5>1. m - NUM_SIND \in Nat /\ (m - NUM_SIND) * NUM_SIND \in Nat
          BY <1>1, <4>1
        <5>2. (m - NUM_SIND) * NUM_SIND = m * NUM_SIND - NUM_SIND * NUM_SIND
          BY <1>1
        <5> QED BY <1>1, <3>1, <5>1, <5>2
      <4> QED BY <4>1
    <3> QED BY <1>1, <3>2
  <2>2. 0 \in Words
    BY <1>1
  <2>3. PICK n \in DoubleRange : Midx(n) = m /\ Sidx(n) = 0
    BY <2>1, <2>2, DoubleNumber
  <2>4. n = NUM_DIRECT + NUM_SIND + NUM_SIND * m + 0
    BY <2>3, NumberCases
  <2>5. n < N
    <3> DEFINE a == m * NUM_SIND
    <3>1. a \in Nat /\ n = NUM_DIRECT + NUM_SIND + a /\ a < TailOf(N)
      BY <1>1, <1>4, <2>4
    <3> HIDE DEF a
    <3> QED BY <1>1, <3>1 DEF TailOf
  <2> QED BY <2>1, <2>3, <2>5
<1>5. ASSUME NEW n \in DoubleRange, Midx(n) = m, n < N PROVE m * NUM_SIND < TailOf(N)
  <2>1. n = NUM_DIRECT + NUM_SIND + NUM_SIND * m + Sidx(n) /\ Sidx(n) \in Words
    BY <1>5, NumberCases
  <2> DEFINE a == m * NUM_SIND
             y == Sidx(n)
  <2>2. a \in Nat /\ n = NUM_DIRECT + NUM_SIND + a + y /\ y \in Words
    BY <1>1, <2>1
  <2> HIDE DEF a, y
  <2>3. a < TailOf(N)
    BY <1>1, <1>5, <2>2 DEF TailOf
  <2> QED BY <2>3 DEF a
<1> QED BY <1>3, <1>4, <1>5

(* The slots of f that hold a block, if it has blocks 0 to N - 1.           *)
Extra(s, f, N) ==
    {t \in {InInode(f, SIND_IDX)} : N > NUM_DIRECT}
        \cup {t \in {InInode(f, DIND_IDX)} : N > NUM_DIRECT + NUM_SIND}

LEMMA HeldSlots ==
  ASSUME NEW s, Sound(s), NEW f \in Files, NEW N \in Nat, N <= NUM_DIRECT + NUM_SIND + NUM_DIND,
         Shape(s, f, {n \in FileBlocks : n < N})
  PROVE  Held(s, f) = Leaves(s, f, N) \cup Extra(s, f, N) \cup Middles(s, f, N)
<1> DEFINE M == Ceil(TailOf(N), NUM_SIND)
<1>1. \A n \in FileBlocks : Address(s, f, n) # 0 <=> n < N
  BY DEF Shape
<1>2. /\ \A n \in 0..(N - 1) : n \in FileBlocks
      /\ \A n \in FileBlocks : n < N <=> n \in 0..(N - 1)
      /\ N > NUM_DIRECT <=> \E n \in SingleRange : n < N
      /\ N > NUM_DIRECT + NUM_SIND <=> \E n \in DoubleRange : n < N
  BY RangeFacts
<1>3. /\ SingleOf(s, f) # 0 <=> N > NUM_DIRECT
      /\ DoubleOf(s, f) # 0 <=> N > NUM_DIRECT + NUM_SIND
      /\ \A m \in Words : MidOf(s, f, m) # 0 <=> \E n \in DoubleRange : Midx(n) = m /\ n < N
  <2>1. /\ \A n \in SingleRange : n \in FileBlocks
        /\ \A n \in DoubleRange : n \in FileBlocks
    BY NumberCases
  <2> QED BY <1>1, <1>2, <2>1 DEF Shape, Neat
<1>4. M \in Nat /\ \A m \in Nat : m < M <=> m \in Words /\ MidOf(s, f, m) # 0
  <2>1. NUM_SIND \in Nat \ {0} /\ TailOf(N) \in Nat /\ 0 \in Nat
    BY CofsSizes, RangeFacts
  <2>2. M \in Nat
    BY <2>1, CeilBelow
  <2>3. \A m \in Nat : m < M <=> m \in Words /\ \E n \in DoubleRange : Midx(n) = m /\ n < N
    BY MidsUsed
  <2> QED BY <1>3, <2>2, <2>3
<1>5. Words \subseteq Nat
  BY CofsSizes
<1> HIDE DEF M
<1>6. ASSUME NEW m PROVE m \in 0..(M - 1) <=> m \in Words /\ MidOf(s, f, m) # 0
  <2>1. m \in 0..(M - 1) <=> m \in Nat /\ m < M
    BY <1>4
  <2>2. m \in Words => m \in Nat
    BY <1>5
  <2> QED BY <1>4, <2>1, <2>2, Zenon
<1>7. Middles(s, f, N) = {InBlock(DoubleOf(s, f), m) : m \in 0..(M - 1)}
  BY DEF Middles, M
<1>8. ASSUME NEW t \in Held(s, f) PROVE t \in Leaves(s, f, N) \cup Extra(s, f, N) \cup Middles(s, f, N)
  <2>1. t \in OwnSlots(s, f) /\ Get(s, t) # 0
    BY DEF Held
  <2>2. ASSUME NEW n \in FileBlocks, t = LeafOf(s, f, n) PROVE t \in Leaves(s, f, N)
    <3>1. Address(s, f, n) # 0
      BY <2>1, <2>2, LeafFacts
    <3>2. n \in 0..(N - 1)
      BY <1>1, <1>2, <3>1
    <3> QED BY <2>2, <3>2 DEF Leaves
  <2>3. ASSUME NEW k \in Addrs, t = InInode(f, k) PROVE t \in Leaves(s, f, N) \cup Extra(s, f, N)
    <3>1. k \in 0..(NUM_DIRECT - 1) \/ k = SIND_IDX \/ k = DIND_IDX
      BY CofsSizes DEF Addrs, SIND_IDX, DIND_IDX
    <3>2. CASE k \in 0..(NUM_DIRECT - 1)
      <4>1. k \in FileBlocks /\ t = LeafOf(s, f, k)
        BY <2>3, <3>2, NumberCases, LeafFacts
      <4> QED BY <2>2, <4>1
    <3>3. CASE k = SIND_IDX
      <4>1. N > NUM_DIRECT
        BY <1>3, <2>1, <2>3, <3>3 DEF SingleOf
      <4> QED BY <2>3, <3>3, <4>1 DEF Extra
    <3>4. CASE k = DIND_IDX
      <4>1. N > NUM_DIRECT + NUM_SIND
        BY <1>3, <2>1, <2>3, <3>4 DEF DoubleOf
      <4> QED BY <2>3, <3>4, <4>1 DEF Extra
    <3> QED BY <3>1, <3>2, <3>3, <3>4
  <2>4. ASSUME NEW c \in MapsOf(s, f), NEW k \in Words, t = InBlock(c, k)
        PROVE  t \in Leaves(s, f, N) \cup Middles(s, f, N)
    <3>1. CASE c = SingleOf(s, f)
      <4>1. NUM_DIRECT + k \in SingleRange /\ (NUM_DIRECT + k) - NUM_DIRECT = k
        BY CofsSizes DEF SingleRange
      <4>2. NUM_DIRECT + k \in FileBlocks /\ t = LeafOf(s, f, NUM_DIRECT + k)
        BY <2>4, <3>1, <4>1, NumberCases, LeafFacts
      <4> QED BY <2>2, <4>2
    <3>2. CASE c = DoubleOf(s, f)
      <4>1. MidOf(s, f, k) # 0
        BY <2>1, <2>4, <3>2 DEF MidOf
      <4> QED BY <1>6, <1>7, <2>4, <3>2, <4>1
    <3>3. CASE \E m \in Words : c = MidOf(s, f, m)
      <4>1. PICK m \in Words : c = MidOf(s, f, m)
        BY <3>3
      <4>2. PICK n \in DoubleRange : Midx(n) = m /\ Sidx(n) = k
        BY DoubleNumber
      <4>3. n \in FileBlocks /\ t = LeafOf(s, f, n)
        BY <2>4, <4>1, <4>2, NumberCases, LeafFacts
      <4> QED BY <2>2, <4>3
    <3> QED BY <3>1, <3>2, <3>3 DEF MapsOf
  <2> QED BY <2>1, <2>3, <2>4 DEF OwnSlots
<1>9. ASSUME NEW t \in Leaves(s, f, N) PROVE t \in Held(s, f)
  <2>1. PICK n \in 0..(N - 1) : t = LeafOf(s, f, n)
    BY DEF Leaves
  <2>2. n \in FileBlocks /\ Address(s, f, n) # 0
    BY <1>1, <1>2
  <2> QED BY <2>1, <2>2, LeafMaps
<1>10. ASSUME NEW t \in Extra(s, f, N) PROVE t \in Held(s, f)
  <2>1. SIND_IDX \in Addrs /\ DIND_IDX \in Addrs
    BY CofsSizes
  <2>2. CASE t = InInode(f, SIND_IDX) /\ N > NUM_DIRECT
    BY <1>3, <2>1, <2>2, OwnThere DEF Held, SingleOf
  <2>3. CASE t = InInode(f, DIND_IDX) /\ N > NUM_DIRECT + NUM_SIND
    BY <1>3, <2>1, <2>3, OwnThere DEF Held, DoubleOf
  <2> QED BY <2>2, <2>3 DEF Extra
<1>11. ASSUME NEW t \in Middles(s, f, N) PROVE t \in Held(s, f)
  <2>1. PICK m \in 0..(M - 1) : t = InBlock(DoubleOf(s, f), m)
    BY <1>7
  <2>2. m \in Words /\ MidOf(s, f, m) # 0
    BY <1>6, <2>1
  <2>3. DoubleOf(s, f) # 0
    BY <2>2, SoundFacts
  <2>4. DoubleOf(s, f) \in MapsOf(s, f)
    BY <2>3 DEF MapsOf
  <2> QED BY <2>1, <2>2, <2>4, OwnThere DEF Held, MidOf
<1> QED BY <1>8, <1>9, <1>10, <1>11

LEMMA HeldCount ==
  ASSUME NEW s, Sound(s), NEW f \in Files, NEW N \in Nat, N <= NUM_DIRECT + NUM_SIND + NUM_DIND,
         Shape(s, f, {n \in FileBlocks : n < N})
  PROVE  Cardinality(Held(s, f))
           = N + (IF N > NUM_DIRECT THEN 1 ELSE 0)
               + (IF TailOf(N) > 0 THEN 1 + Ceil(TailOf(N), NUM_SIND) ELSE 0)
<1> DEFINE M == Ceil(TailOf(N), NUM_SIND)
           L == Leaves(s, f, N)
           Q == Middles(s, f, N)
           single == InInode(f, SIND_IDX)
           double == InInode(f, DIND_IDX)
<1>1. \A n \in FileBlocks : Address(s, f, n) # 0 <=> n < N
  BY DEF Shape
<1>2. /\ \A n \in 0..(N - 1) : n \in FileBlocks
      /\ \A n \in FileBlocks : n < N <=> n \in 0..(N - 1)
      /\ TailOf(N) \in Nat /\ (TailOf(N) > 0 <=> N > NUM_DIRECT + NUM_SIND)
  BY RangeFacts
<1>3. /\ NUM_DIRECT \in Nat /\ NUM_SIND \in Nat \ {0} /\ SIND_IDX # DIND_IDX
      /\ \A n \in 0..(NUM_DIRECT - 1) : n # SIND_IDX /\ n # DIND_IDX
  BY CofsSizes
<1>4. M \in Nat /\ (TailOf(N) = 0 => M = 0)
  <2>1. 0 \in Nat
    OBVIOUS
  <2>2. M \in Nat /\ (0 < M <=> 0 * NUM_SIND < TailOf(N))
    BY <1>2, <1>3, <2>1, CeilBelow
  <2> HIDE DEF M
  <2>3. 0 * NUM_SIND = 0
    BY <1>3
  <2> QED BY <2>2, <2>3
<1>5. \A n \in 0..(N - 1) : n \in FileBlocks /\ Address(s, f, n) # 0
  BY <1>1, <1>2
<1>6. IsFiniteSet(L) /\ Cardinality(L) = N
  <2> DEFINE h == [n \in 0..(N - 1) |-> LeafOf(s, f, n)]
  <2>1. ASSUME NEW n \in 0..(N - 1), NEW k \in 0..(N - 1), h[n] = h[k] PROVE n = k
    <3>1. LeafOf(s, f, n) = LeafOf(s, f, k)
      BY <2>1
    <3>2. Address(s, f, n) = Address(s, f, k)
      BY <1>5, <3>1, LeafFacts
    <3> QED BY <1>5, <3>2, AddressApart
  <2>2. DOMAIN h = 0..(N - 1) /\ h = [n \in 0..(N - 1) |-> h[n]]
        /\ {h[n] : n \in 0..(N - 1)} = L
    BY DEF Leaves
  <2> HIDE DEF h
  <2>3. \A n, k \in 0..(N - 1) : h[n] = h[k] => n = k
    BY <2>1
  <2>4. /\ IsFiniteSet({h[n] : n \in 0..(N - 1)})
        /\ Cardinality({h[n] : n \in 0..(N - 1)}) = N
    BY <2>2, <2>3, CountNumbers
  <2> QED BY <2>2, <2>4
<1>7. IsFiniteSet(Q) /\ Cardinality(Q) = M
  <2> DEFINE h == [m \in 0..(M - 1) |-> InBlock(DoubleOf(s, f), m)]
  <2>1. ASSUME NEW n \in 0..(M - 1), NEW k \in 0..(M - 1), h[n] = h[k] PROVE n = k
    <3>1. InBlock(DoubleOf(s, f), n) = InBlock(DoubleOf(s, f), k)
      BY <2>1
    <3> QED BY <3>1, SlotsDiffer
  <2>2. DOMAIN h = 0..(M - 1) /\ h = [n \in 0..(M - 1) |-> h[n]]
        /\ {h[n] : n \in 0..(M - 1)} = Q
    BY DEF Middles
  <2> HIDE DEF h, M
  <2>3. \A n, k \in 0..(M - 1) : h[n] = h[k] => n = k
    BY <2>1
  <2>4. /\ IsFiniteSet({h[n] : n \in 0..(M - 1)})
        /\ Cardinality({h[n] : n \in 0..(M - 1)}) = M
    BY <1>4, <2>2, <2>3, CountNumbers
  <2> QED BY <2>2, <2>4
<1> HIDE DEF M
<1>8. ASSUME NEW t \in L
      PROVE  t # single /\ t # double /\ t \notin Q
  <2>1. PICK n \in 0..(N - 1) : t = LeafOf(s, f, n)
    BY DEF Leaves
  <2>2. n \in FileBlocks /\ Address(s, f, n) # 0
    BY <1>5
  <2>3. CASE n \in 0..(NUM_DIRECT - 1)
    <3>1. t = InInode(f, n)
      BY <2>1, <2>2, <2>3, LeafFacts
    <3> QED BY <1>3, <2>3, <3>1, SlotsDiffer DEF Middles
  <2>4. CASE n \in SingleRange
    <3>1. t = InBlock(SingleOf(s, f), n - NUM_DIRECT) /\ SingleOf(s, f) # 0
      BY <2>1, <2>2, <2>4, LeafFacts, LeafMaps
    <3>2. SingleOf(s, f) # DoubleOf(s, f)
      BY <3>1, MapsApart
    <3> QED BY <3>1, <3>2, SlotsDiffer DEF Middles
  <2>5. CASE n \in DoubleRange
    <3>1. t = InBlock(MidOf(s, f, Midx(n)), Sidx(n)) /\ MidOf(s, f, Midx(n)) # 0 /\ Midx(n) \in Words
      BY <2>1, <2>2, <2>5, LeafFacts, LeafMaps, NumberCases
    <3>2. MidOf(s, f, Midx(n)) # DoubleOf(s, f)
      BY <3>1, MapsApart
    <3> QED BY <3>1, <3>2, SlotsDiffer DEF Middles
  <2> QED BY <2>2, <2>3, <2>4, <2>5, NumberCases
<1>9. single # double /\ single \notin Q /\ double \notin Q
  BY <1>3, SlotsDiffer DEF Middles
<1>10. Held(s, f) = (L \cup Q) \cup Extra(s, f, N)
  BY HeldSlots
<1>11. IsFiniteSet(L \cup Q) /\ Cardinality(L \cup Q) = N + M
  <2>1. L \cap Q = {}
    BY <1>8
  <2> HIDE DEF L, Q
  <2>2. /\ IsFiniteSet(L \cup Q)
        /\ Cardinality(L \cup Q) = Cardinality(L) + Cardinality(Q) - Cardinality(L \cap Q)
    BY <1>6, <1>7, FS_Union
  <2>3. Cardinality(L \cap Q) = 0
    BY <2>1, FS_EmptySet
  <2> QED BY <1>4, <1>6, <1>7, <2>2, <2>3
<1> DEFINE U == L \cup Q
<1>12. single \notin U /\ double \notin U /\ IsFiniteSet(U) /\ Cardinality(U) = N + M
  BY <1>8, <1>9, <1>11
<1>13. Held(s, f) = U \cup Extra(s, f, N)
  BY <1>10
<1> HIDE DEF U, L, Q, single, double
<1>14. /\ IsFiniteSet(U \cup {single}) /\ Cardinality(U \cup {single}) = N + M + 1
  BY <1>4, <1>12, FS_AddElement
<1>15. Cardinality((U \cup {single}) \cup {double}) = N + M + 1 + 1
  <2>1. double \notin U \cup {single}
    BY <1>9, <1>12
  <2> QED BY <1>4, <1>14, <2>1, FS_AddElement
<1>16. CASE N > NUM_DIRECT + NUM_SIND
  <2>1. N > NUM_DIRECT /\ TailOf(N) > 0
    BY <1>2, <1>3, <1>16
  <2>2. Extra(s, f, N) = {single} \cup {double}
    BY <1>16, <2>1 DEF Extra, single, double
  <2>3. Held(s, f) = (U \cup {single}) \cup {double}
    BY <1>13, <2>2
  <2>4. Cardinality(Held(s, f)) = N + 1 + (1 + M)
    BY <1>4, <1>15, <2>3
  <2> QED BY <2>1, <2>4 DEF M
<1>17. CASE N > NUM_DIRECT /\ ~(N > NUM_DIRECT + NUM_SIND)
  <2>1. ~(TailOf(N) > 0) /\ M = 0
    BY <1>2, <1>4, <1>17
  <2>2. Extra(s, f, N) = {single}
    BY <1>17 DEF Extra, single
  <2>3. Held(s, f) = U \cup {single}
    BY <1>13, <2>2
  <2>4. Cardinality(Held(s, f)) = N + 1 + 0
    BY <1>4, <1>14, <2>1, <2>3
  <2> QED BY <1>17, <2>1, <2>4
<1>18. CASE ~(N > NUM_DIRECT)
  <2>1. ~(N > NUM_DIRECT + NUM_SIND)
    BY <1>3, <1>18
  <2>2. ~(TailOf(N) > 0) /\ M = 0
    BY <1>2, <1>4, <2>1
  <2>3. Extra(s, f, N) = {}
    BY <1>18, <2>1 DEF Extra
  <2>4. Held(s, f) = U
    BY <1>13, <2>3
  <2>5. Cardinality(Held(s, f)) = N + 0 + 0
    BY <1>4, <1>12, <2>2, <2>4
  <2> QED BY <1>18, <2>2, <2>5
<1> QED BY <1>16, <1>17, <1>18

LEMMA InvBlocksHold == CofsInv => BlocksHold
<1> SUFFICES ASSUME CofsInv PROVE BlocksHold
  OBVIOUS
<1>1. ASSUME NEW f \in Files, job[f].op # "truncate", NEW k \in 0..(size[f] - 1) PROVE Right(fs, f, k)
  <2>1. FileInv(fs, job[f], size[f], disk[f], f)
    BY DEF CofsInv
  <2>2. /\ size[f] \in 0..MaxBytes /\ job[f] \in JobRecord /\ JobOf(job[f], size[f])
        /\ \A i \in 0..(KnownOf(fs, job[f], size[f]) - 1) : Right(fs, f, i)
    BY <2>1 DEF FileInv
  <2>3. /\ UptoOf(job[f], size[f]) \in Nat /\ size[f] <= UptoOf(job[f], size[f])
        /\ KnownOf(fs, job[f], size[f]) \in Nat
    BY <2>2, KnownSize
  <2>4. \/ KnownOf(fs, job[f], size[f]) = UptoOf(job[f], size[f])
        \/ KnownOf(fs, job[f], size[f]) = size[f]
    BY <1>1 DEF KnownOf
  <2>5. MaxBytes \in Nat
    BY CofsSizes
  <2>6. k \in 0..(KnownOf(fs, job[f], size[f]) - 1)
    BY <2>2, <2>3, <2>4, <2>5
  <2> QED BY <2>2, <2>6
<1>2. ContentsRight
  BY <1>1 DEF ContentsRight, Right
<1>3. DiskAgrees
  BY DEF DiskAgrees, CofsInv, FileInv, SavedOf
<1> QED BY <1>2, <1>3 DEF BlocksHold

(* The slots of a file are those of its inode and of its blocks of block numbers. *)
LEMMA UsedHeld ==
  ASSUME Sound(fs), NEW f \in Files
  PROVE  Used(f) = Held(fs, f)
<1>1. /\ fs.addrs[f][SIND_IDX] = SingleOf(fs, f) /\ fs.addrs[f][DIND_IDX] = DoubleOf(fs, f)
  BY GetFields DEF SingleOf, DoubleOf
<1>2. ASSUME NEW t \in Slots(f), Get(fs, t) # 0 PROVE t \in OwnSlots(fs, f)
  <2>1. CASE \E k \in Addrs : t = InInode(f, k)
    BY <2>1, OwnThere
  <2>2. ASSUME NEW b, b \in MapsOf(fs, f) \/ b = 0, t \in SlotsIn(b) PROVE t \in OwnSlots(fs, f)
    <3>1. b # 0 /\ \E k \in Words : t = InBlock(b, k)
      BY <2>2 DEF SlotsIn
    <3> QED BY <2>2, <3>1, OwnThere
  <2>3. CASE t \in SlotsIn(SingleOf(fs, f))
    BY <2>2, <2>3 DEF MapsOf
  <2>4. CASE t \in SlotsIn(DoubleOf(fs, f))
    BY <2>2, <2>4 DEF MapsOf
  <2>5. CASE \E m \in SlotsIn(DoubleOf(fs, f)) : t \in SlotsIn(Get(fs, m))
    <3>1. PICK m \in SlotsIn(DoubleOf(fs, f)) : t \in SlotsIn(Get(fs, m))
      BY <2>5
    <3>2. PICK k \in Words : m = InBlock(DoubleOf(fs, f), k)
      BY <3>1 DEF SlotsIn
    <3>3. Get(fs, m) = MidOf(fs, f, k)
      BY <3>2 DEF MidOf
    <3>4. Get(fs, m) \in MapsOf(fs, f) \/ Get(fs, m) = 0
      BY <3>3 DEF MapsOf
    <3> QED BY <2>2, <3>1, <3>4
  <2> QED BY <1>1, <2>1, <2>3, <2>4, <2>5 DEF Slots
<1>3. ASSUME NEW t \in OwnSlots(fs, f) PROVE t \in Slots(f)
  <2>1. CASE \E k \in Addrs : t = InInode(f, k)
    BY <2>1 DEF Slots
  <2>2. CASE \E c \in MapsOf(fs, f), k \in Words : t = InBlock(c, k)
    <3>1. PICK c \in MapsOf(fs, f), k \in Words : t = InBlock(c, k)
      BY <2>2
    <3>2. c # 0 /\ t \in SlotsIn(c)
      BY <3>1 DEF MapsOf, SlotsIn
    <3>3. CASE c = SingleOf(fs, f)
      BY <1>1, <3>2, <3>3 DEF Slots
    <3>4. CASE c = DoubleOf(fs, f)
      BY <1>1, <3>2, <3>4 DEF Slots
    <3>5. CASE \E m \in Words : c = MidOf(fs, f, m)
      <4>1. PICK m \in Words : c = MidOf(fs, f, m)
        BY <3>5
      <4>2. DoubleOf(fs, f) # 0
        BY <3>2, <4>1, SoundFacts
      <4>3. InBlock(DoubleOf(fs, f), m) \in SlotsIn(DoubleOf(fs, f))
        BY <4>2 DEF SlotsIn
      <4>4. t \in SlotsIn(Get(fs, InBlock(DoubleOf(fs, f), m)))
        BY <3>2, <4>1 DEF MidOf
      <4> QED BY <1>1, <4>3, <4>4 DEF Slots
    <3> QED BY <3>1, <3>3, <3>4, <3>5 DEF MapsOf
  <2> QED BY <2>1, <2>2 DEF OwnSlots
<1> QED BY <1>2, <1>3 DEF Used, Held

LEMMA UsedHolding ==
  ASSUME Sound(fs)
  PROVE  UsedSlots = Holding(fs)
<1>1. ASSUME NEW t \in UsedSlots PROVE t \in Holding(fs)
  <2>1. PICK f \in Files : t \in Held(fs, f)
    BY UsedHeld DEF UsedSlots
  <2>2. t \in AllSlots
    BY <2>1, OwnProper DEF Held
  <2> QED BY <2>1, <2>2 DEF Held, Holding
<1>2. ASSUME NEW t \in Holding(fs) PROVE t \in UsedSlots
  <2>1. t \in AllSlots /\ Get(fs, t) # 0
    BY DEF Holding
  <2>2. \E f \in Files : t \in OwnSlots(fs, f)
    <3>1. CASE \E f \in Files, k \in Addrs : t = InInode(f, k)
      BY <3>1, OwnThere
    <3>2. CASE \E b \in Blocks, k \in Words : t = InBlock(b, k)
      BY <2>1, <3>2, OwnThere DEF Sound
    <3> QED BY <2>1, <3>1, <3>2, SlotCases
  <2>3. PICK f \in Files : t \in Held(fs, f)
    BY <2>1, <2>2 DEF Held
  <2> QED BY <2>3, UsedHeld DEF UsedSlots
<1> QED BY <1>1, <1>2

LEMMA IdleCount ==
  ASSUME CofsInv, NEW f \in Files, job[f].op = "idle"
  PROVE  Cardinality(Used(f)) = BlocksNeeded(size[f])
<1> DEFINE z == size[f]
           N == Ceil(z, BLOCK_SIZE)
<1>1. Sound(fs) /\ z \in 0..MaxBytes /\ Shape(fs, f, PresentOf(job[f], z))
  BY DEF CofsInv, FileInv
<1>2. /\ BLOCK_SIZE \in Nat \ {0} /\ NUM_DIRECT \in Nat /\ NUM_SIND \in Nat /\ NUM_DIND \in Nat
      /\ MaxBytes \in Nat /\ z \in Nat /\ z <= MaxBytes
  BY <1>1, CofsSizes
<1>3. N \in Nat /\ \A n \in Nat : n < N <=> n * BLOCK_SIZE < z
  <2>1. \A n \in Nat : N \in Nat /\ (n < N <=> n * BLOCK_SIZE < z)
    <3> HIDE DEF z
    <3> QED BY <1>2, CeilBelow
  <2>2. 0 \in Nat
    OBVIOUS
  <2> QED BY <2>1, <2>2
<1> HIDE DEF N, z
<1>4. N <= NUM_DIRECT + NUM_SIND + NUM_DIND
  <2>1. CASE N = 0
    BY <1>2, <2>1
  <2>2. CASE N # 0
    <3> DEFINE n == N - 1
               D == NUM_DIND
    <3>1. n \in Nat /\ n < N /\ N = n + 1
      BY <1>3, <2>2
    <3> HIDE DEF n
    <3>2. n * BLOCK_SIZE < MaxBytes
      <4> DEFINE a == n * BLOCK_SIZE
      <4>1. a \in Nat /\ a < z
        BY <1>2, <1>3, <3>1
      <4> HIDE DEF a
      <4>2. a < MaxBytes
        BY <1>2, <4>1
      <4> QED BY <4>2 DEF a
    <3>3. n \in 0..(NUM_DIRECT + NUM_SIND + D - 1) /\ D \in Nat
      BY <1>2, <3>1, <3>2, InRange DEF FileBlocks
    <3> HIDE DEF D
    <3>4. N <= NUM_DIRECT + NUM_SIND + D
      BY <1>2, <3>1, <3>3
    <3> QED BY <3>4 DEF D
  <2> QED BY <2>1, <2>2
<1>5. PresentOf(job[f], z) = {n \in FileBlocks : n < N}
  <2>1. UptoOf(job[f], z) = z
    BY DEF UptoOf
  <2>2. FileBlocks \subseteq Nat
    BY CofsSizes DEF FileBlocks
  <2> QED BY <1>3, <2>1, <2>2 DEF PresentOf
<1>6. Cardinality(Held(fs, f))
        = N + (IF N > NUM_DIRECT THEN 1 ELSE 0)
            + (IF TailOf(N) > 0 THEN 1 + Ceil(TailOf(N), NUM_SIND) ELSE 0)
  BY <1>1, <1>3, <1>4, <1>5, HeldCount
<1>7. Used(f) = Held(fs, f)
  BY <1>1, UsedHeld
<1> QED BY <1>6, <1>7 DEF BlocksNeeded, TailOf, N, z

LEMMA InvBlocksOwned == CofsInv => BlocksOwned
<1> SUFFICES ASSUME CofsInv PROVE BlocksOwned
  OBVIOUS
<1>1. Sound(fs) /\ fs \in FsRecord /\ UsedSlots = Holding(fs)
  BY UsedHolding DEF CofsInv, Sound
<1>2. TypeOK
  <2>1. \A f \in Files : job[f].op \in {"idle", "read", "write", "truncate"}
    BY DEF CofsInv, JobRecord, JobOps
  <2>2. \A b \in Blocks, k \in Bytes : fs.data[b][k] = Blank \/ fs.data[b][k] \in Files \X (0..MaxBytes)
    <3>1. fs.data \in [Blocks -> [Bytes -> DataBytes]]
      BY <1>1 DEF FsRecord
    <3>2. \A b \in Blocks, k \in Bytes : fs.data[b][k] \in DataBytes
      BY <3>1
    <3> QED BY <3>2 DEF DataBytes
  <2>3. /\ fs.bitmap \subseteq Blocks /\ fs.panic \in Panics
        /\ fs.addrs \in [Files -> [Addrs -> Blocks]]
        /\ fs.words \in [Blocks -> [Words -> Blocks]]
    BY <1>1 DEF FsRecord, Panics
  <2> QED BY <2>1, <2>2, <2>3 DEF TypeOK, CofsInv
<1>3. BitmapExact /\ NoSharing
  BY <1>1 DEF BitmapExact, NoSharing, Sound
<1>4. NoSpare
  BY IdleCount DEF NoSpare
<1>5. FreesAllocated
  <2>1. fs.panic \in {"", "no free block"}
    BY <1>1 DEF FsRecord
  <2> QED BY <2>1 DEF FreesAllocated
<1> QED BY <1>2, <1>3, <1>4, <1>5 DEF BlocksOwned

(* Whatever is written and truncated, to any number of files at once: block_alloc
   and block_free keep the bitmap exact, no block has two places, a file between
   calls has the blocks its size needs, and no block is freed twice.        *)
THEOREM BlocksStayOwned ==
  ASSUME ~Aligned
  PROVE  Spec => []BlocksOwned
<1>1. CofsInv /\ [Next]_vars => CofsInv'
  BY CofsNext
<1> QED BY <1>1, CofsInit, InvBlocksOwned, PTL DEF Spec

(* block_map leads to the block where cofs_write has put a byte, and between calls
   the inode on disk leads there too.                                       *)
THEOREM ContentsStay ==
  ASSUME ~Aligned
  PROVE  Spec => []BlocksHold
<1>1. CofsInv /\ [Next]_vars => CofsInv'
  BY CofsNext
<1> QED BY <1>1, CofsInit, InvBlocksHold, PTL DEF Spec
=============================================================================
