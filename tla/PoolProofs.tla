------------------------------ MODULE PoolProofs ------------------------------
(* Proofs about what is handed out and taken back: the blocks of the heap
   (Malloc), for every page size and all sizes that are asked for; the nodes of
   lists and the bits of bitmaps (Lists), for all nodes and sizes; and the
   buffers of the disk (HdQueue), for every number of tasks, blocks and
   buffers, as long as there is a buffer for every task that uses the file
   system.                                                                  *)
EXTENDS HdQueue, Malloc, Lists, NatLemmas, SequenceTheorems

(* The three ways in which the list of blocks changes: a block is cut in two, two
   are joined, one is overwritten.                                          *)
IsSplit(b, c, k, x, y) ==
    /\ Len(c) = Len(b) + 1
    /\ \A i \in 1..Len(c) : c[i] = IF i < k THEN b[i] ELSE IF i = k THEN x
                                   ELSE IF i = k + 1 THEN y ELSE b[i - 1]

IsPut(b, c, k, x) ==
    /\ Len(c) = Len(b)
    /\ \A i \in 1..Len(c) : c[i] = IF i = k THEN x ELSE b[i]

IsMerge(b, c, k, x) ==
    /\ Len(c) = Len(b) - 1
    /\ \A i \in 1..Len(c) : c[i] = IF i < k THEN b[i] ELSE IF i = k THEN x ELSE b[i + 1]

(* The cuts and joins of malloc and free() do what their indices say.         *)
IsConcat(c, l, r) ==
    /\ c = l \o r /\ Len(c) = Len(l) + Len(r)
    /\ \A i \in 1..(Len(l) + Len(r)) : c[i] = IF i <= Len(l) THEN l[i] ELSE r[i - Len(l)]

LEMMA SeqsJoined ==
  ASSUME NEW S, NEW l \in Seq(S), NEW r \in Seq(S)
  PROVE  \E c \in Seq(S) : IsConcat(c, l, r)
<1>1. /\ l \o r \in Seq(S) /\ Len(l \o r) = Len(l) + Len(r)
      /\ \A i \in 1..(Len(l) + Len(r)) : (l \o r)[i] = IF i <= Len(l) THEN l[i] ELSE r[i - Len(l)]
  BY ConcatProperties
<1> QED BY <1>1 DEF IsConcat

LEMMA SplitAt ==
  ASSUME NEW S, NEW b \in Seq(S), NEW k \in 1..Len(b), NEW x \in S, NEW y \in S
  PROVE  LET c == SubSeq(b, 1, k - 1) \o <<x, y>> \o SubSeq(b, k + 1, Len(b))
         IN c \in Seq(S) /\ IsSplit(b, c, k, x, y)
<1> DEFINE l == SubSeq(b, 1, k - 1)
           m == <<x, y>>
           r == SubSeq(b, k + 1, Len(b))
<1>1. /\ l \in Seq(S) /\ Len(l) = k - 1 /\ \A i \in 1..(k - 1) : l[i] = b[i]
  OBVIOUS
<1>2. /\ r \in Seq(S) /\ Len(r) = Len(b) - k /\ \A i \in 1..(Len(b) - k) : r[i] = b[k + i]
  OBVIOUS
<1>3. m \in Seq(S) /\ Len(m) = 2 /\ m[1] = x /\ m[2] = y
  OBVIOUS
<1> HIDE DEF l, m, r
<1>4. PICK lm \in Seq(S) : IsConcat(lm, l, m)
  BY <1>1, <1>3, SeqsJoined, Zenon
<1>5. Len(lm) = k + 1 /\ \A i \in 1..(k + 1) : lm[i] = IF i < k THEN b[i] ELSE IF i = k THEN x ELSE y
  BY <1>1, <1>3, <1>4 DEF IsConcat
<1>6. PICK c \in Seq(S) : IsConcat(c, lm, r)
  BY <1>2, <1>4, SeqsJoined, Zenon
<1>7. IsSplit(b, c, k, x, y)
  <2>1. Len(c) = Len(b) + 1
    BY <1>2, <1>5, <1>6 DEF IsConcat
  <2>2. ASSUME NEW i \in 1..Len(c), i <= Len(lm) PROVE c[i] = lm[i]
    BY <1>6, <2>2 DEF IsConcat
  <2>3. ASSUME NEW i \in 1..Len(c), i > Len(lm) PROVE c[i] = b[i - 1]
    <3>1. c[i] = r[i - Len(lm)] /\ i - Len(lm) \in 1..Len(r)
      BY <1>6, <2>3, <1>2, <1>5 DEF IsConcat
    <3> QED BY <3>1, <1>2, <1>5, <2>3, SMTT(30)
  <2> QED BY <1>5, <2>1, <2>2, <2>3 DEF IsSplit
<1> QED BY <1>4, <1>6, <1>7 DEF l, m, r, IsConcat

LEMMA MergeAt ==
  ASSUME NEW S, NEW b \in Seq(S), NEW k \in 1..(Len(b) - 1), NEW x \in S
  PROVE  LET c == SubSeq(b, 1, k - 1) \o <<x>> \o SubSeq(b, k + 2, Len(b))
         IN c \in Seq(S) /\ IsMerge(b, c, k, x)
<1> DEFINE l == SubSeq(b, 1, k - 1)
           m == <<x>>
           r == SubSeq(b, k + 2, Len(b))
<1>1. /\ l \in Seq(S) /\ Len(l) = k - 1 /\ \A i \in 1..(k - 1) : l[i] = b[i]
  OBVIOUS
<1>2. /\ r \in Seq(S) /\ Len(r) = Len(b) - k - 1 /\ \A i \in 1..(Len(b) - k - 1) : r[i] = b[k + 1 + i]
  OBVIOUS
<1>3. m \in Seq(S) /\ Len(m) = 1 /\ m[1] = x
  OBVIOUS
<1> HIDE DEF l, m, r
<1>4. PICK lm \in Seq(S) : IsConcat(lm, l, m)
  BY <1>1, <1>3, SeqsJoined, Zenon
<1>5. Len(lm) = k /\ \A i \in 1..k : lm[i] = IF i < k THEN b[i] ELSE x
  BY <1>1, <1>3, <1>4 DEF IsConcat
<1>6. PICK c \in Seq(S) : IsConcat(c, lm, r)
  BY <1>2, <1>4, SeqsJoined, Zenon
<1>7. IsMerge(b, c, k, x)
  <2>1. Len(c) = Len(b) - 1
    BY <1>2, <1>5, <1>6 DEF IsConcat
  <2>2. ASSUME NEW i \in 1..Len(c), i <= Len(lm) PROVE c[i] = lm[i]
    BY <1>6, <2>2 DEF IsConcat
  <2>3. ASSUME NEW i \in 1..Len(c), i > Len(lm) PROVE c[i] = b[i + 1]
    <3>1. c[i] = r[i - Len(lm)] /\ i - Len(lm) \in 1..Len(r)
      BY <1>6, <2>3, <1>2, <1>5 DEF IsConcat
    <3> QED BY <3>1, <1>2, <1>5, <2>3
  <2> QED BY <1>5, <2>1, <2>2, <2>3 DEF IsMerge
<1> QED BY <1>4, <1>6, <1>7 DEF l, m, r, IsConcat

-----------------------------------------------------------------------------
(* The blocks from the first to the last cover the heap; in particular each one
   ends where the next begins, and so no two overlap.                       *)
BlockType == [addr : Nat, size : Nat, free : BOOLEAN]

EndOf(x) == x.addr + MetaWords + x.size

IsFree(r) == r.free

HeapTiles(b, brk) ==
    /\ b \in Seq(BlockType) /\ Len(b) > 0
    /\ b[1].addr = 0 /\ IsFree(b[Len(b)])
    /\ \A k \in 1..Len(b) : EndOf(b[k]) = IF k = Len(b) THEN brk ELSE b[k + 1].addr
    /\ \A i, j \in 1..Len(b) : i < j => EndOf(b[i]) <= b[j].addr
    /\ brk \in Nat

(* No two free neighbours, except perhaps at the places in E: free() joins one
   side after the other.                                                     *)
ApartBut(b, E) == \A k \in 1..(Len(b) - 1) : k \in E \/ ~IsFree(b[k]) \/ ~IsFree(b[k + 1])

(* What is in use: where it begins and how large it is.                      *)
TakenOf(r) == [addr |-> r.addr, size |-> r.size]

Taken(b) == {TakenOf(b[k]) : k \in {m \in 1..Len(b) : ~IsFree(b[m])}}

Owned(b, ptrs) ==
    /\ ptrs \subseteq [ptr : Nat, size : Nat]
    /\ \A t \in Taken(b) : \E p \in ptrs : p.ptr = t.addr + MetaWords
    /\ \A p \in ptrs : \E t \in Taken(b) : p.ptr = t.addr + MetaWords /\ t.size >= p.size
    /\ \A p, q \in ptrs : p.ptr = q.ptr => p = q

LEMMA BlockFacts ==
  ASSUME NEW r \in BlockType
  PROVE  /\ r.addr \in Nat /\ r.size \in Nat /\ r.free \in BOOLEAN /\ MetaWords \in Nat /\ MetaWords > 0
         /\ EndOf(r) = r.addr + MetaWords + r.size /\ EndOf(r) \in Nat /\ r.addr < EndOf(r)
<1>1. r.addr \in Nat /\ r.size \in Nat /\ r.free \in BOOLEAN
  BY DEF BlockType
<1>2. MetaWords \in Nat /\ MetaWords > 0
  BY MallocAssumption
<1> QED BY <1>1, <1>2 DEF EndOf

LEMMA TileFacts ==
  ASSUME NEW b, NEW brk, HeapTiles(b, brk)
  PROVE  /\ MetaWords \in Nat /\ MetaWords > 0 /\ b \in Seq(BlockType) /\ Len(b) \in Nat /\ Len(b) > 0 /\ brk \in Nat
         /\ b[1].addr = 0 /\ IsFree(b[Len(b)])
         /\ \A i \in 1..Len(b) : /\ b[i] \in BlockType /\ b[i].addr \in Nat /\ b[i].size \in Nat
                                  /\ EndOf(b[i]) = b[i].addr + MetaWords + b[i].size
                                  /\ EndOf(b[i]) \in Nat /\ b[i].addr < EndOf(b[i])
                                  /\ EndOf(b[i]) = IF i = Len(b) THEN brk ELSE b[i + 1].addr
         /\ \A i, j \in 1..Len(b) : i < j => EndOf(b[i]) <= b[j].addr
<1>1. b \in Seq(BlockType) /\ Len(b) \in Nat /\ \A i \in 1..Len(b) : b[i] \in BlockType
  BY DEF HeapTiles
<1>2. MetaWords \in Nat /\ MetaWords > 0
  BY MallocAssumption
<1>3. ASSUME NEW i \in 1..Len(b)
      PROVE  /\ b[i].addr \in Nat /\ b[i].size \in Nat
             /\ EndOf(b[i]) = b[i].addr + MetaWords + b[i].size
             /\ EndOf(b[i]) \in Nat /\ b[i].addr < EndOf(b[i])
  BY <1>1, BlockFacts, Zenon
<1> QED BY <1>1, <1>2, <1>3 DEF HeapTiles

LEMMA SplitTiles ==
  ASSUME NEW b, NEW brk, HeapTiles(b, brk), NEW k \in 1..Len(b), NEW x \in BlockType, NEW y \in BlockType,
         NEW n \in Nat, n = 0 \/ k = Len(b),
         IsFree(y), x.addr = b[k].addr, EndOf(x) = y.addr, EndOf(y) = EndOf(b[k]) + n,
         NEW c \in Seq(BlockType), IsSplit(b, c, k, x, y)
  PROVE  HeapTiles(c, brk + n)
<1>0. /\ MetaWords \in Nat /\ MetaWords > 0 /\ b \in Seq(BlockType) /\ Len(b) \in Nat /\ Len(b) > 0 /\ brk \in Nat
      /\ b[1].addr = 0
  BY TileFacts, Zenon
<1>3. \A i \in 1..Len(b) : /\ b[i].addr \in Nat /\ b[i].size \in Nat
                           /\ EndOf(b[i]) = b[i].addr + MetaWords + b[i].size
                           /\ EndOf(b[i]) \in Nat /\ b[i].addr < EndOf(b[i])
                           /\ EndOf(b[i]) = IF i = Len(b) THEN brk ELSE b[i + 1].addr
  BY TileFacts, Zenon
<1>9. \A i, j \in 1..Len(b) : i < j => EndOf(b[i]) <= b[j].addr
  BY TileFacts, Zenon
<1>1. /\ x.addr \in Nat /\ EndOf(x) \in Nat /\ x.addr < EndOf(x)
      /\ y.addr \in Nat /\ EndOf(y) \in Nat /\ y.addr < EndOf(y)
  BY BlockFacts, Zenon
<1>6a. IsFree(b[Len(b)])
  BY TileFacts, Zenon
<1>7. Len(c) = Len(b) + 1 /\ Len(c) \in Nat
  BY <1>0 DEF IsSplit
<1>2. /\ \A i \in 1..Len(c) : i < k => i \in 1..Len(b) /\ c[i] = b[i]
      /\ k \in 1..Len(c) /\ k + 1 \in 1..Len(c) /\ c[k] = x /\ c[k + 1] = y
      /\ \A i \in 1..Len(c) : i > k + 1 => i - 1 \in 1..Len(b) /\ c[i] = b[i - 1]
  BY <1>0, <1>7 DEF IsSplit
<1>4. c[1].addr = 0 /\ IsFree(c[Len(c)])
  <2>1. c[1].addr = 0
    <3>1. CASE k = 1
      BY <3>1, <1>2, <1>0
    <3>2. CASE k > 1
      <4>1. 1 \in 1..Len(c) /\ 1 < k
        BY <3>2, <1>7, <1>0
      <4> QED BY <4>1, <1>2, <1>0
    <3> QED BY <3>1, <3>2
  <2>2. IsFree(c[Len(c)])
    <3>1. CASE k = Len(b)
      BY <3>1, <1>2, <1>7
    <3>2. CASE k < Len(b)
      <4>1. Len(c) \in 1..Len(c) /\ Len(c) > k + 1 /\ Len(c) - 1 = Len(b)
        BY <3>2, <1>7, <1>0
      <4>2. c[Len(c)] = b[Len(c) - 1]
        BY <4>1, <1>2
      <4> QED BY <4>1, <4>2, <1>6a
    <3> QED BY <3>1, <3>2, <1>0
  <2> QED BY <2>1, <2>2
<1>5. ASSUME NEW i \in 1..Len(c)
      PROVE  EndOf(c[i]) = IF i = Len(c) THEN brk + n ELSE c[i + 1].addr
  <2>1. CASE i < k
    <3>1. c[i] = b[i] /\ i # Len(b) /\ i # Len(c) /\ i \in 1..Len(b) /\ i + 1 \in 1..Len(c)
      BY <2>1, <1>0, <1>2, <1>7
    <3>2. EndOf(c[i]) = b[i + 1].addr
      BY <3>1, <1>3
    <3>3. b[i + 1].addr = c[i + 1].addr
      <4>1. CASE i + 1 < k
        BY <4>1, <3>1, <1>2
      <4>2. CASE i + 1 = k
        BY <4>2, <1>2
      <4> QED BY <4>1, <4>2, <2>1, <3>1
    <3> QED BY <3>1, <3>2, <3>3
  <2>3. CASE i = k
    BY <2>3, <1>0, <1>1, <1>2, <1>7
  <2>4. CASE i = k + 1
    <3>1. EndOf(c[i]) = EndOf(b[k]) + n
      BY <2>4, <1>2
    <3>2. CASE k = Len(b)
      BY <3>1, <3>2, <2>4, <1>3, <1>7
    <3>3. CASE k < Len(b)
      <4>1. n = 0 /\ i + 1 \in 1..Len(c) /\ i + 1 > k + 1 /\ i # Len(c)
        BY <3>3, <2>4, <1>7, <1>0
      <4>2. c[i + 1] = b[i + 1 - 1] /\ i + 1 - 1 = k + 1
        BY <4>1, <2>4, <1>2
      <4>3. EndOf(b[k]) = b[k + 1].addr /\ EndOf(b[k]) \in Nat
        BY <3>3, <1>3
      <4> QED BY <3>1, <4>1, <4>2, <4>3
    <3> QED BY <3>2, <3>3, <1>0
  <2>5. CASE i > k + 1
    <3>1. c[i] = b[i - 1] /\ i - 1 \in 1..Len(b) /\ n = 0 /\ (i = Len(c) <=> i - 1 = Len(b))
      BY <2>5, <1>0, <1>2, <1>7
    <3>2. EndOf(b[i - 1]) = IF i - 1 = Len(b) THEN brk ELSE b[i - 1 + 1].addr
      BY <3>1, <1>3
    <3>3. i # Len(c) => c[i + 1] = b[i - 1 + 1]
      <4>1. SUFFICES ASSUME i # Len(c) PROVE c[i + 1] = b[i - 1 + 1]
        OBVIOUS
      <4>2. i + 1 \in 1..Len(c) /\ i + 1 > k + 1 /\ i + 1 - 1 = i - 1 + 1
        BY <4>1, <2>5, <1>7, <1>0
      <4> QED BY <4>2, <1>2
    <3> QED BY <3>1, <3>2, <3>3, <1>0
  <2> QED BY <2>1, <2>3, <2>4, <2>5, <1>7
<1>6. ASSUME NEW i \in 1..Len(c), NEW j \in 1..Len(c), i < j
      PROVE  EndOf(c[i]) <= c[j].addr
  <2>1. EndOf(x) <= EndOf(b[k]) + n
    BY <1>1
  <2>2. CASE j < k
    BY <1>9, <2>2, <1>6, <1>2
  <2>3. CASE j = k
    BY <1>9, <2>3, <1>6, <1>2
  <2>4. CASE j = k + 1 /\ i < k
    <3>1. EndOf(c[i]) <= x.addr /\ EndOf(c[i]) \in Nat
      BY <2>4, <1>9, <1>2, <1>3
    <3> QED BY <3>1, <2>4, <1>1, <1>2
  <2>5. CASE j = k + 1 /\ i = k
    BY <2>5, <1>1, <1>2
  <2>6. CASE j > k + 1
    <3>1. c[j] = b[j - 1] /\ j - 1 \in 1..Len(b) /\ n = 0 /\ k < j - 1
      BY <2>6, <1>0, <1>2
    <3>2. EndOf(b[k]) <= b[j - 1].addr /\ EndOf(b[k]) \in Nat /\ b[j - 1].addr \in Nat
      BY <1>9, <1>3, <3>1
    <3>3. CASE i < k
      <4>1. c[i] = b[i] /\ i \in 1..Len(b) /\ i < j - 1
        BY <3>3, <3>1, <1>2
      <4> QED BY <4>1, <3>1, <1>9
    <3>4. CASE i = k
      BY <3>1, <3>2, <3>4, <2>1, <1>1, <1>2
    <3>5. CASE i = k + 1
      BY <3>1, <3>2, <3>5, <1>1, <1>2
    <3>6. CASE i > k + 1
      <4>1. c[i] = b[i - 1] /\ i - 1 \in 1..Len(b) /\ i - 1 < j - 1
        BY <3>6, <1>0, <1>2, <1>6
      <4> QED BY <4>1, <3>1, <1>9
    <3> QED BY <3>3, <3>4, <3>5, <3>6
  <2> QED BY <2>2, <2>3, <2>4, <2>5, <2>6, <1>6
<1>l. brk + n \in Nat /\ Len(c) > 0
  BY <1>0, <1>7
<1> QED BY <1>4, <1>5, <1>6, <1>l DEF HeapTiles

LEMMA SplitApart ==
  ASSUME NEW b, NEW brk, HeapTiles(b, brk), ApartBut(b, {}), NEW k \in 1..Len(b), IsFree(b[k]),
         NEW x, ~IsFree(x), NEW y, NEW c \in Seq(BlockType), IsSplit(b, c, k, x, y)
  PROVE  ApartBut(c, {})
<1>0. b \in Seq(BlockType) /\ Len(b) \in Nat /\ Len(c) = Len(b) + 1
  BY DEF HeapTiles, IsSplit
<1>1. SUFFICES ASSUME NEW i \in 1..(Len(c) - 1) PROVE ~IsFree(c[i]) \/ ~IsFree(c[i + 1])
  BY DEF ApartBut
<1>2. CASE i < k - 1
  BY <1>2, <1>0 DEF IsSplit, ApartBut
<1>3. CASE i = k - 1
  BY <1>3, <1>0 DEF IsSplit
<1>4. CASE i = k
  BY <1>4, <1>0 DEF IsSplit
<1>5. CASE i > k
  <2>1. c[i + 1] = b[i] /\ i \in 1..Len(b) /\ i > k
    BY <1>5, <1>0 DEF IsSplit
  <2>2. CASE i = k + 1
    <3>1. k \in 1..(Len(b) - 1)
      BY <2>1, <2>2, <1>0
    <3>2. ~IsFree(b[k]) \/ ~IsFree(b[k + 1])
      BY <3>1 DEF ApartBut
    <3> QED BY <3>2, <2>1, <2>2
  <2>3. CASE i > k + 1
    <3>1. c[i] = b[i - 1] /\ i - 1 \in 1..(Len(b) - 1)
      BY <2>1, <2>3, <1>0 DEF IsSplit
    <3>2. ~IsFree(b[i - 1]) \/ ~IsFree(b[i - 1 + 1])
      BY <3>1, <1>0, <2>3 DEF ApartBut
    <3> QED BY <3>1, <3>2, <2>1
  <2> QED BY <2>2, <2>3, <1>5
<1> QED BY <1>2, <1>3, <1>4, <1>5

LEMMA SplitTaken ==
  ASSUME NEW b \in Seq(BlockType), NEW k \in 1..Len(b), IsFree(b[k]),
         NEW x, ~IsFree(x), NEW y, IsFree(y), NEW c \in Seq(BlockType), IsSplit(b, c, k, x, y)
  PROVE  Taken(c) = Taken(b) \cup {TakenOf(x)}
<1>1. Len(b) \in Nat /\ Len(c) = Len(b) + 1
  BY DEF IsSplit
<1>2. /\ \A i \in 1..Len(c) : i < k => i \in 1..Len(b) /\ c[i] = b[i]
      /\ k \in 1..Len(c) /\ k + 1 \in 1..Len(c) /\ c[k] = x /\ c[k + 1] = y
      /\ \A i \in 1..Len(c) : i > k + 1 => i - 1 \in 1..Len(b) /\ c[i] = b[i - 1]
  BY <1>1 DEF IsSplit
<1>3. ASSUME NEW t \in Taken(c) PROVE t \in Taken(b) \cup {TakenOf(x)}
  <2>1. PICK i \in 1..Len(c) : ~IsFree(c[i]) /\ t = TakenOf(c[i])
    BY <1>3 DEF Taken
  <2>2. CASE i = k
    BY <2>1, <2>2, <1>2
  <2>3. CASE i < k
    BY <2>1, <2>3, <1>2 DEF Taken
  <2>4. CASE i > k + 1
    BY <2>1, <2>4, <1>2 DEF Taken
  <2> QED BY <2>1, <2>2, <2>3, <2>4, <1>2
<1>4. ASSUME NEW t \in Taken(b) PROVE t \in Taken(c)
  <2>1. PICK i \in 1..Len(b) : ~IsFree(b[i]) /\ t = TakenOf(b[i])
    BY <1>4 DEF Taken
  <2>2. CASE i < k
    <3>1. i \in 1..Len(c) /\ c[i] = b[i]
      BY <2>2, <1>1, <1>2
    <3> QED BY <3>1, <2>1 DEF Taken
  <2>3. CASE i > k
    <3>1. i + 1 \in 1..Len(c) /\ i + 1 > k + 1 /\ i + 1 - 1 = i
      BY <2>3, <1>1
    <3>2. c[i + 1] = b[i]
      BY <3>1, <1>2
    <3> QED BY <3>1, <3>2, <2>1 DEF Taken
  <2> QED BY <2>1, <2>2, <2>3
<1>5. TakenOf(x) \in Taken(c)
  BY <1>2 DEF Taken
<1> QED BY <1>3, <1>4, <1>5

LEMMA MergeTiles ==
  ASSUME NEW b, NEW brk, HeapTiles(b, brk), NEW k \in 1..(Len(b) - 1), NEW x \in BlockType,
         IsFree(x), x.addr = b[k].addr, EndOf(x) = EndOf(b[k + 1]),
         NEW c \in Seq(BlockType), IsMerge(b, c, k, x)
  PROVE  HeapTiles(c, brk)
<1>0. /\ b \in Seq(BlockType) /\ Len(b) \in Nat /\ Len(b) > 0 /\ brk \in Nat
      /\ b[1].addr = 0 /\ IsFree(b[Len(b)])
  BY TileFacts, Zenon
<1>3. \A i \in 1..Len(b) : /\ b[i].addr \in Nat
                           /\ EndOf(b[i]) \in Nat /\ b[i].addr < EndOf(b[i])
                           /\ EndOf(b[i]) = IF i = Len(b) THEN brk ELSE b[i + 1].addr
  BY TileFacts, Zenon
<1>9. \A i, j \in 1..Len(b) : i < j => EndOf(b[i]) <= b[j].addr
  BY TileFacts, Zenon
<1>1. x.addr \in Nat /\ EndOf(x) \in Nat /\ x.addr < EndOf(x)
  BY BlockFacts, Zenon
<1>7. Len(c) = Len(b) - 1 /\ Len(c) \in Nat /\ Len(c) > 0
  BY <1>0 DEF IsMerge
<1>2. /\ \A i \in 1..Len(c) : i < k => i \in 1..Len(b) /\ c[i] = b[i]
      /\ k \in 1..Len(c) /\ c[k] = x /\ k + 1 \in 1..Len(b) /\ k \in 1..Len(b)
      /\ \A i \in 1..Len(c) : i > k => i + 1 \in 1..Len(b) /\ c[i] = b[i + 1]
  BY <1>0, <1>7 DEF IsMerge
<1>4. c[1].addr = 0 /\ IsFree(c[Len(c)])
  <2>1. 1 \in 1..Len(c) /\ Len(c) \in 1..Len(c) /\ Len(c) + 1 = Len(b)
    BY <1>7, <1>0
  <2>2. c[1].addr = 0
    <3>1. CASE k = 1
      BY <3>1, <1>0, <1>2
    <3>2. CASE k > 1
      BY <3>2, <2>1, <1>0, <1>2
    <3> QED BY <3>1, <3>2
  <2>3. IsFree(c[Len(c)])
    <3>1. CASE k = Len(c)
      BY <3>1, <1>2
    <3>2. CASE k < Len(c)
      <4>1. c[Len(c)] = b[Len(c) + 1]
        BY <3>2, <2>1, <1>2
      <4> QED BY <4>1, <2>1, <1>0
    <3> QED BY <3>1, <3>2, <1>2
  <2> QED BY <2>2, <2>3
<1>5. ASSUME NEW i \in 1..Len(c)
      PROVE  EndOf(c[i]) = IF i = Len(c) THEN brk ELSE c[i + 1].addr
  <2>1. CASE i < k
    <3>1. c[i] = b[i] /\ i # Len(b) /\ i # Len(c) /\ i \in 1..Len(b) /\ i + 1 \in 1..Len(c)
      BY <2>1, <1>0, <1>2, <1>7
    <3>2. EndOf(c[i]) = b[i + 1].addr
      BY <3>1, <1>3
    <3>3. b[i + 1].addr = c[i + 1].addr
      <4>1. CASE i + 1 < k
        BY <4>1, <3>1, <1>2
      <4>2. CASE i + 1 = k
        BY <4>2, <1>2
      <4> QED BY <4>1, <4>2, <2>1, <3>1
    <3> QED BY <3>1, <3>2, <3>3
  <2>2. CASE i >= k
    <3>1. EndOf(c[i]) = EndOf(b[i + 1]) /\ i + 1 \in 1..Len(b) /\ (i = Len(c) <=> i + 1 = Len(b))
      BY <2>2, <1>2, <1>7
    <3>2. EndOf(b[i + 1]) = IF i + 1 = Len(b) THEN brk ELSE b[i + 1 + 1].addr
      BY <3>1, <1>3
    <3>3. i # Len(c) => c[i + 1] = b[i + 1 + 1]
      <4>1. SUFFICES ASSUME i # Len(c) PROVE c[i + 1] = b[i + 1 + 1]
        OBVIOUS
      <4>2. i + 1 \in 1..Len(c) /\ i + 1 > k
        BY <4>1, <2>2, <1>7, <1>0
      <4> QED BY <4>2, <1>2
    <3> QED BY <3>1, <3>2, <3>3
  <2> QED BY <2>1, <2>2
<1>6. ASSUME NEW i \in 1..Len(c), NEW j \in 1..Len(c), i < j
      PROVE  EndOf(c[i]) <= c[j].addr
  <2>1. CASE j < k
    BY <1>9, <2>1, <1>6, <1>2
  <2>2. CASE j = k
    BY <1>9, <2>2, <1>6, <1>2
  <2>3. CASE j > k
    <3>1. c[j] = b[j + 1] /\ j + 1 \in 1..Len(b) /\ k + 1 < j + 1 /\ i < j + 1 /\ i + 1 < j + 1
      BY <2>3, <1>0, <1>2, <1>6
    <3>2. CASE i < k
      BY <3>1, <3>2, <1>2, <1>9
    <3>3. CASE i = k
      BY <3>1, <3>3, <1>2, <1>9
    <3>4. CASE i > k
      BY <3>1, <3>4, <1>2, <1>9
    <3> QED BY <3>2, <3>3, <3>4
  <2> QED BY <2>1, <2>2, <2>3
<1> QED BY <1>0, <1>4, <1>5, <1>6, <1>7 DEF HeapTiles

LEMMA MergeApart ==
  ASSUME NEW b \in Seq(BlockType), NEW k \in 1..(Len(b) - 1), IsFree(b[k]), IsFree(b[k + 1]),
         NEW E, E \subseteq {k - 1, k}, ApartBut(b, E), NEW x, IsFree(x),
         NEW c \in Seq(BlockType), IsMerge(b, c, k, x)
  PROVE  ApartBut(c, E \ {k}) /\ Taken(c) = Taken(b)
<1>1. Len(b) \in Nat /\ Len(c) = Len(b) - 1
  BY DEF IsMerge
<1>2. /\ \A i \in 1..Len(c) : i < k => i \in 1..Len(b) /\ c[i] = b[i]
      /\ k \in 1..Len(c) /\ c[k] = x /\ k + 1 \in 1..Len(b) /\ k \in 1..Len(b)
      /\ \A i \in 1..Len(c) : i > k => i + 1 \in 1..Len(b) /\ c[i] = b[i + 1]
  BY <1>1 DEF IsMerge
<1>3. ASSUME NEW i \in 1..(Len(c) - 1) PROVE i \in E \ {k} \/ ~IsFree(c[i]) \/ ~IsFree(c[i + 1])
  <2>0. i \in 1..Len(c) /\ i + 1 \in 1..Len(c) /\ i \in 1..(Len(b) - 1)
    BY <1>1
  <2>1. CASE i < k - 1
    <3>1. i \notin E /\ c[i] = b[i] /\ c[i + 1] = b[i + 1]
      BY <2>0, <2>1, <1>2
    <3> QED BY <2>0, <3>1 DEF ApartBut
  <2>2. CASE i = k - 1
    <3>1. c[i] = b[i] /\ b[i + 1] = b[k] /\ i # k
      BY <2>0, <2>2, <1>2
    <3> QED BY <2>0, <3>1 DEF ApartBut
  <2>3. CASE i >= k
    <3>1. c[i + 1] = b[i + 1 + 1] /\ i + 1 \in 1..(Len(b) - 1) /\ i + 1 \notin E
      BY <2>0, <2>3, <1>1, <1>2
    <3>2. ~IsFree(b[i + 1]) \/ ~IsFree(b[i + 1 + 1])
      BY <3>1 DEF ApartBut
    <3>3. i > k => c[i] = b[i + 1]
      BY <2>0, <1>2
    <3> QED BY <3>1, <3>2, <3>3, <2>3, <2>0
  <2> QED BY <2>1, <2>2, <2>3
<1>4. ASSUME NEW t \in Taken(c) PROVE t \in Taken(b)
  <2>1. PICK i \in 1..Len(c) : ~IsFree(c[i]) /\ t = TakenOf(c[i])
    BY <1>4 DEF Taken
  <2>2. CASE i < k
    BY <2>1, <2>2, <1>2 DEF Taken
  <2>3. CASE i > k
    BY <2>1, <2>3, <1>2 DEF Taken
  <2> QED BY <2>1, <2>2, <2>3, <1>2
<1>5. ASSUME NEW t \in Taken(b) PROVE t \in Taken(c)
  <2>1. PICK i \in 1..Len(b) : ~IsFree(b[i]) /\ t = TakenOf(b[i])
    BY <1>5 DEF Taken
  <2>2. CASE i < k
    <3>1. i \in 1..Len(c) /\ c[i] = b[i]
      BY <2>2, <1>1, <1>2
    <3> QED BY <3>1, <2>1 DEF Taken
  <2>3. CASE i > k + 1
    <3>1. i - 1 \in 1..Len(c) /\ i - 1 > k /\ i - 1 + 1 = i
      BY <2>3, <1>1
    <3>2. c[i - 1] = b[i]
      BY <3>1, <1>2
    <3> QED BY <3>1, <3>2, <2>1 DEF Taken
  <2> QED BY <2>1, <2>2, <2>3
<1> QED BY <1>3, <1>4, <1>5 DEF ApartBut

LEMMA PutTiles ==
  ASSUME NEW b, NEW brk, HeapTiles(b, brk), NEW k \in 1..Len(b), NEW x \in BlockType,
         x.addr = b[k].addr, k # Len(b) => EndOf(x) = EndOf(b[k]), k = Len(b) => IsFree(x),
         NEW c \in Seq(BlockType), IsPut(b, c, k, x)
  PROVE  HeapTiles(c, IF k = Len(b) THEN EndOf(x) ELSE brk)
<1>0. /\ b \in Seq(BlockType) /\ Len(b) \in Nat /\ Len(b) > 0 /\ brk \in Nat
      /\ b[1].addr = 0 /\ IsFree(b[Len(b)])
  BY TileFacts, Zenon
<1>3. \A i \in 1..Len(b) : /\ b[i].addr \in Nat
                           /\ EndOf(b[i]) \in Nat /\ b[i].addr < EndOf(b[i])
                           /\ EndOf(b[i]) = IF i = Len(b) THEN brk ELSE b[i + 1].addr
  BY TileFacts, Zenon
<1>9. \A i, j \in 1..Len(b) : i < j => EndOf(b[i]) <= b[j].addr
  BY TileFacts, Zenon
<1>1. x.addr \in Nat /\ EndOf(x) \in Nat /\ x.addr < EndOf(x)
  BY BlockFacts, Zenon
<1>2. Len(c) = Len(b) /\ c[k] = x /\ \A i \in 1..Len(b) : i # k => c[i] = b[i]
  BY DEF IsPut
<1>4. \A i \in 1..Len(b) : c[i].addr = b[i].addr
  BY <1>2
<1>5. \A i \in 1..Len(b) : i # Len(b) => EndOf(c[i]) = EndOf(b[i])
  BY <1>2
<1>6. EndOf(c[Len(b)]) = IF k = Len(b) THEN EndOf(x) ELSE brk
  BY <1>2, <1>3, <1>0
<1>7. IsFree(c[Len(b)]) /\ c[1].addr = 0
  BY <1>2, <1>0, <1>4
<1>8. ASSUME NEW i \in 1..Len(c)
      PROVE  EndOf(c[i]) = IF i = Len(c) THEN (IF k = Len(b) THEN EndOf(x) ELSE brk) ELSE c[i + 1].addr
  <2>1. CASE i = Len(b)
    BY <2>1, <1>2, <1>6
  <2>2. CASE i # Len(b)
    <3>1. i \in 1..Len(b) /\ i + 1 \in 1..Len(b) /\ i # Len(c)
      BY <2>2, <1>2, <1>0
    <3>2. EndOf(c[i]) = b[i + 1].addr /\ c[i + 1].addr = b[i + 1].addr
      BY <3>1, <2>2, <1>3, <1>4, <1>5
    <3> QED BY <3>1, <3>2
  <2> QED BY <2>1, <2>2
<1>10. \A i, j \in 1..Len(c) : i < j => EndOf(c[i]) <= c[j].addr
  BY <1>2, <1>4, <1>5, <1>9, <1>0
<1> QED BY <1>0, <1>1, <1>2, <1>7, <1>8, <1>10 DEF HeapTiles

LEMMA AddrsDiffer ==
  ASSUME NEW b, NEW brk, HeapTiles(b, brk)
  PROVE  /\ \A i, j \in 1..Len(b) : b[i].addr = b[j].addr => i = j
         /\ \A t \in Taken(b) : t \in [addr : Nat, size : Nat]
         /\ \A t, u \in Taken(b) : t.addr = u.addr => t = u
<1>0. Len(b) \in Nat
  BY TileFacts, Zenon
<1>1. \A i \in 1..Len(b) : b[i].addr \in Nat /\ b[i].size \in Nat /\ EndOf(b[i]) \in Nat /\ b[i].addr < EndOf(b[i])
  BY TileFacts, Zenon
<1>2. \A i, j \in 1..Len(b) : i < j => EndOf(b[i]) <= b[j].addr
  BY TileFacts, Zenon
<1>3. \A i, j \in 1..Len(b) : b[i].addr = b[j].addr => i = j
  BY <1>0, <1>1, <1>2
<1>4. \A t \in Taken(b) : \E i \in 1..Len(b) : t = TakenOf(b[i]) /\ t.addr = b[i].addr /\ t \in [addr : Nat, size : Nat]
  BY <1>1 DEF Taken, TakenOf
<1> QED BY <1>3, <1>4

LEMMA PutApart ==
  ASSUME NEW b, NEW brk, HeapTiles(b, brk), ApartBut(b, {}), NEW k \in 1..Len(b),
         ~IsFree(b[k]), NEW x, IsFree(x), NEW c \in Seq(BlockType), IsPut(b, c, k, x)
  PROVE  ApartBut(c, {k - 1, k}) /\ Taken(c) = Taken(b) \ {TakenOf(b[k])}
<1>0. Len(b) \in Nat
  BY TileFacts, Zenon
<1>2. Len(c) = Len(b) /\ c[k] = x /\ \A i \in 1..Len(b) : i # k => c[i] = b[i]
  BY DEF IsPut
<1>3. ApartBut(c, {k - 1, k})
  BY <1>0, <1>2 DEF ApartBut
<1>4. \A i \in 1..Len(b) : TakenOf(b[i]) = TakenOf(b[k]) => i = k
  <2>1. \A i, j \in 1..Len(b) : b[i].addr = b[j].addr => i = j
    BY AddrsDiffer, Zenon
  <2> QED BY <2>1 DEF TakenOf
<1>5. ASSUME NEW t \in Taken(c) PROVE t \in Taken(b) \ {TakenOf(b[k])}
  <2>1. PICK i \in 1..Len(b) : ~IsFree(c[i]) /\ t = TakenOf(c[i])
    BY <1>2 DEF Taken
  <2>2. i # k /\ c[i] = b[i]
    BY <2>1, <1>2
  <2> QED BY <2>1, <2>2, <1>4 DEF Taken
<1>6. ASSUME NEW t \in Taken(b), t # TakenOf(b[k]) PROVE t \in Taken(c)
  <2>1. PICK i \in 1..Len(b) : ~IsFree(b[i]) /\ t = TakenOf(b[i])
    BY DEF Taken
  <2>2. i # k /\ c[i] = b[i]
    BY <2>1, <1>2, <1>6
  <2> QED BY <2>1, <2>2, <1>2 DEF Taken
<1> QED BY <1>3, <1>5, <1>6

LEMMA PutFree ==
  ASSUME NEW b \in Seq(BlockType), ApartBut(b, {}), NEW k \in 1..Len(b),
         IsFree(b[k]), NEW x, IsFree(x), NEW c \in Seq(BlockType), IsPut(b, c, k, x)
  PROVE  ApartBut(c, {}) /\ Taken(c) = Taken(b)
<1>1. Len(b) \in Nat
  OBVIOUS
<1>2. Len(c) = Len(b) /\ c[k] = x /\ \A i \in 1..Len(b) : i # k => c[i] = b[i]
  BY DEF IsPut
<1>3. \A i \in 1..Len(b) : /\ IsFree(c[i]) <=> IsFree(b[i])
                           /\ ~IsFree(b[i]) => c[i] = b[i]
  BY <1>2
<1>4. ApartBut(c, {})
  BY <1>1, <1>2, <1>3 DEF ApartBut
<1>5. Taken(c) = Taken(b)
  BY <1>2, <1>3 DEF Taken
<1> QED BY <1>4, <1>5

-----------------------------------------------------------------------------
(* sbrk moves the break by whole pages.                                       *)
LEMMA WholePages ==
  ASSUME NEW P \in Nat, P > 0, NEW x \in Nat
  PROVE  /\ (x \div P) * P \in Nat /\ (x \div P) * P <= x /\ x < (x \div P) * P + P
         /\ ((x \div P) * P) % P = 0
<1>1. x = P * (x \div P) + (x % P) /\ x % P \in 0..(P - 1) /\ x \div P \in Int
  BY Z3
<1> DEFINE q == x \div P
           r == x % P
           n == q * P
<1>2. q \in Int /\ r \in 0..(P - 1) /\ x = q * P + r
  BY <1>1
<1> HIDE DEF q, r
<1>3. n \in Int /\ x = n + r
  BY <1>2
<1>4. q >= 0
  <2>1. ASSUME q <= 0 - 1 PROVE FALSE
    <3>1. P * q <= P * (0 - 1)
      BY <1>2, <2>1
    <3>2. P * q = q * P
      BY <1>2
    <3> QED BY <1>2, <1>3, <3>1, <3>2
  <2> QED BY <2>1, <1>2
<1>5. n \in Nat
  BY <1>2, <1>4
<1>6. n % P = 0
  <2>1. n % P \in 0..(P - 1) /\ \E t \in Int : n = t * P + (n % P)
    BY <1>3, Quotient
  <2>2. PICK t \in Int : n = t * P + (n % P)
    BY <2>1
  <2>3. q * P + 0 = t * P + (n % P)
    BY <2>2, <1>2
  <2>4. 0 \in 0..(P - 1)
    OBVIOUS
  <2> HIDE DEF n
  <2> QED BY <2>1, <2>2, <2>3, <2>4, <1>2, DivUnique, SMTT(30)
<1>7. n <= x /\ x < n + P
  <2> HIDE DEF n
  <2> QED BY <1>2, <1>3
<1> QED BY <1>5, <1>6, <1>7 DEF n, q

LEMMA PagesAfter ==
  ASSUME NEW P \in Nat, P > 0, NEW x \in Nat, NEW y \in Nat, x % P = 0, y % P = 0, x < y
  PROVE  x + P <= y
<1>1. PICK a \in Int : x = a * P
  BY Quotient
<1>2. PICK c \in Int : y = c * P
  BY Quotient
<1>3. c - a >= 1
  <2>1. ASSUME c - a <= 0 PROVE FALSE
    <3>1. (c - a) * P <= 0
      BY <2>1, <1>1, <1>2
    <3>2. (c - a) * P = y - x
      BY <1>1, <1>2
    <3> QED BY <3>1, <3>2
  <2> QED BY <2>1
<1>4. (c - a) * P >= P
  BY <1>3
<1>5. (c - a) * P = y - x
  BY <1>1, <1>2
<1> QED BY <1>4, <1>5

LEMMA GrowEnough ==
  ASSUME NEW block, block.size \in Nat, NEW size \in Nat, NEW brk \in Nat, brk % PageWords = 0
  PROVE  LET n == PagesToGrow(block, size) * PageWords IN
         /\ n \in Nat /\ (brk + n) % PageWords = 0 /\ size + MetaWords <= block.size + n
         /\ block.size >= size + MetaWords => n = 0
<1> DEFINE P == PageWords
           x == size + MetaWords - block.size + P - 1
<1>1. P \in Nat /\ P > 0 /\ MetaWords \in Nat
  BY MallocAssumption
<1>2. CASE block.size >= size + MetaWords
  <2>1. PagesToGrow(block, size) = 0
    BY <1>2 DEF PagesToGrow
  <2>2. 0 * PageWords = 0 /\ brk + 0 = brk
    BY <1>1
  <2> QED BY <2>1, <2>2, <1>2
<1>3. CASE ~(block.size >= size + MetaWords)
  <2>1. PagesToGrow(block, size) = x \div P
    BY <1>3 DEF PagesToGrow
  <2>2. x \in Nat /\ size + MetaWords <= block.size + (x - P + 1)
    BY <1>1, <1>3
  <2> DEFINE n == (x \div P) * P
  <2> HIDE DEF x, P
  <2>3. n \in Nat /\ n <= x /\ x < n + P /\ n % P = 0
    BY <1>1, <2>2, WholePages
  <2> HIDE DEF n
  <2>4. (brk + n) % P = 0
    <3>1. brk \in Int /\ brk % P = 0
      BY DEF P
    <3>2. (brk + n) % P = brk % P
      BY <1>1, <2>3, <3>1, ModPeriod, Zenon
    <3> QED BY <3>1, <3>2
  <2>5. size + MetaWords <= block.size + n
    BY <2>2, <2>3, <1>1
  <2>6. PagesToGrow(block, size) * PageWords = n
    BY <2>1 DEF n, P
  <2> QED BY <2>3, <2>4, <2>5, <2>6, <1>3 DEF P
<1> QED BY <1>2, <1>3

LEMMA ContractFits ==
  ASSUME NEW start \in Nat, NEW brk \in Nat, brk % PageWords = 0, start + PageWords < brk
  PROVE  /\ ContractEnd(start) \in Nat /\ ContractEnd(start) % PageWords = 0
         /\ start < ContractEnd(start) /\ ContractEnd(start) <= start + 2 * PageWords
         /\ ContractEnd(start) <= brk
<1> DEFINE P == PageWords
           x == (start \div P) * P
<1>1. P \in Nat /\ P > 0
  BY MallocAssumption
<1>2. x \in Nat /\ x <= start /\ start < x + P /\ x % P = 0
  BY <1>1, WholePages
<1>3. ContractEnd(start) = x + 2 * P
  BY DEF ContractEnd
<1> HIDE DEF x, P
<1>4. P % P = 0
  BY <1>1, Z3
<1>5. (x + P) % P = 0 /\ x + P \in Nat
  <2>1. x \in Int /\ x + P \in Nat
    BY <1>1, <1>2
  <2>2. (x + P) % P = x % P
    BY <1>1, <1>4, <2>1, ModPeriod, Zenon
  <2> QED BY <1>2, <2>1, <2>2
<1>6. (x + P + P) % P = 0 /\ x + P + P = x + 2 * P
  <2>1. x + P \in Int /\ x + P + P = x + 2 * P
    BY <1>1, <1>2
  <2>2. (x + P + P) % P = (x + P) % P
    BY <1>1, <1>4, <2>1, ModPeriod, Zenon
  <2> QED BY <1>5, <2>1, <2>2
<1>7. x + P < brk /\ brk % P = 0
  BY <1>1, <1>2 DEF P
<1>8. x + P + P <= brk
  BY <1>1, <1>5, <1>7, PagesAfter
<1> QED BY <1>1, <1>2, <1>3, <1>6, <1>8 DEF P

LEMMA FitFound ==
  ASSUME NEW b, NEW brk, HeapTiles(b, brk), NEW size \in Nat
  PROVE  /\ Fit(b, size) \in 1..Len(b) /\ IsFree(b[Fit(b, size)])
         /\ b[Fit(b, size)].size >= size + MetaWords \/ Fit(b, size) = Len(b)
<1> DEFINE S == {k \in 1..Len(b) : b[k].free /\ (b[k].size >= size + MetaWords \/ k = Len(b))}
<1>1. Len(b) \in Nat /\ Len(b) > 0 /\ IsFree(b[Len(b)])
  BY TileFacts, Zenon
<1>2. Len(b) \in S
  BY <1>1 DEF IsFree
<1>3. PICK k \in S : \A m \in S : k <= m
  <2>1. S \in SUBSET Nat /\ S # {}
    BY <1>1, <1>2
  <2> HIDE DEF S
  <2> QED BY <2>1, LeastExists, Zenon
<1>4. Min(S) \in S
  <2> HIDE DEF S
  <2> QED BY <1>3, Zenon DEF Min
<1>5. Fit(b, size) \in S
  BY <1>4 DEF Fit
<1> QED BY <1>5 DEF IsFree

-----------------------------------------------------------------------------
(* malloc and free() on a heap that is whole, as functions of the list.        *)
HeapWhole(b, brk) == HeapTiles(b, brk) /\ ApartBut(b, {}) /\ brk % PageWords = 0

HeapTrimmed(b, brk) == brk - (b[Len(b)].addr + MetaWords) <= 2 * PageWords

LEMMA BlockMade ==
  ASSUME NEW a \in Nat, NEW z \in Nat, NEW f \in BOOLEAN
  PROVE  /\ Block(a, z, f) \in BlockType /\ Block(a, z, f).addr = a /\ Block(a, z, f).size = z
         /\ IsFree(Block(a, z, f)) <=> f
         /\ EndOf(Block(a, z, f)) = a + MetaWords + z
         /\ TakenOf(Block(a, z, f)) = [addr |-> a, size |-> z]
<1>1. Block(a, z, f) \in BlockType
  BY DEF Block, BlockType
<1>2. Block(a, z, f).addr = a /\ Block(a, z, f).size = z
  BY DEF Block
<1>3. IsFree(Block(a, z, f)) <=> f
  BY Zenon DEF Block, IsFree
<1> QED BY <1>1, <1>2, <1>3 DEF EndOf, TakenOf

TakeDone(b, c, brk, brk2, ptr, size) ==
    /\ HeapWhole(c, brk2)
    /\ \E t \in [addr : Nat, size : Nat] :
           /\ Taken(c) = Taken(b) \cup {t}
           /\ t.addr + MetaWords = ptr /\ t.size = size
           /\ \A u \in Taken(b) : u.addr # t.addr

LEMMA TakeRight ==
  ASSUME NEW b, NEW brk, HeapWhole(b, brk), NEW size \in Nat
  PROVE  LET a == HeapTake(b, brk, size) IN TakeDone(b, a.blocks, brk, a.brk, a.ptr, size)
<1> DEFINE k == Fit(b, size)
           n == PagesToGrow(b[k], size) * PageWords
           z == b[k].size
           d == b[k].addr
           x == Block(d, size, FALSE)
           y == Block(d + MetaWords + size, z + n - size - MetaWords, TRUE)
           c == SubSeq(b, 1, k - 1) \o <<x, y>> \o SubSeq(b, k + 1, Len(b))
<1>1. HeapTiles(b, brk) /\ ApartBut(b, {}) /\ brk % PageWords = 0
  BY DEF HeapWhole
<1>2. k \in 1..Len(b) /\ IsFree(b[k]) /\ (z >= size + MetaWords \/ k = Len(b))
  BY <1>1, FitFound, Zenon
<1>3. /\ MetaWords \in Nat /\ b \in Seq(BlockType) /\ Len(b) \in Nat /\ brk \in Nat
      /\ \A i \in 1..Len(b) : /\ b[i] \in BlockType /\ b[i].addr \in Nat /\ b[i].size \in Nat
                              /\ EndOf(b[i]) = b[i].addr + MetaWords + b[i].size
  BY <1>1, TileFacts, Zenon
<1> HIDE DEF k
<1>4. b[k] \in BlockType /\ z \in Nat /\ d \in Nat /\ EndOf(b[k]) = d + MetaWords + z
  BY <1>2, <1>3, Zenon
<1>5. /\ n \in Nat /\ (brk + n) % PageWords = 0 /\ size + MetaWords <= z + n
      /\ z >= size + MetaWords => n = 0
  BY <1>1, <1>3, <1>4, GrowEnough, Zenon
<1> DEFINE e == [b[k] EXCEPT !.size = @ + n]
<1>6. /\ HeapTake(b, brk, size).blocks = SubSeq(b, 1, k - 1) \o <<Block(e.addr, size, FALSE), Rest(e, size)>>
                                        \o SubSeq(b, k + 1, Len(b))
      /\ HeapTake(b, brk, size).brk = brk + n
      /\ HeapTake(b, brk, size).ptr = e.addr + MetaWords
  BY Zenon DEF HeapTake, k
<1>7. e.addr = d /\ e.size = z + n
  BY <1>4 DEF BlockType
<1> HIDE DEF e, n, z, d
<1>7a. Rest(e, size) = y /\ Block(e.addr, size, FALSE) = x
  <2>1. e.size - size - MetaWords = z + n - size - MetaWords
    BY <1>3, <1>4, <1>5, <1>7
  <2>2. e.addr + MetaWords + size = d + MetaWords + size
    BY <1>7
  <2>3. Rest(e, size) = y
    BY <2>1, <2>2, Zenon DEF Rest
  <2> QED BY <1>7, <2>3
<1>8. /\ HeapTake(b, brk, size).blocks = c
      /\ HeapTake(b, brk, size).brk = brk + n
      /\ HeapTake(b, brk, size).ptr = d + MetaWords
  BY <1>6, <1>7, <1>7a, Zenon
<1>9. d + MetaWords + size \in Nat /\ z + n - size - MetaWords \in Nat
  BY <1>3, <1>4, <1>5, SMTT(30)
<1>10. /\ x \in BlockType /\ x.addr = d /\ ~IsFree(x) /\ EndOf(x) = d + MetaWords + size
       /\ TakenOf(x) = [addr |-> d, size |-> size]
  BY <1>4, BlockMade
<1>11. /\ y \in BlockType /\ y.addr = d + MetaWords + size /\ IsFree(y)
       /\ EndOf(y) = (d + MetaWords + size) + MetaWords + (z + n - size - MetaWords)
  BY <1>9, BlockMade
<1>12. EndOf(y) = EndOf(b[k]) + n
  <2>1. EndOf(b[k]) + n = (d + MetaWords + size) + MetaWords + (z + n - size - MetaWords)
    BY <1>3, <1>4, <1>5
  <2> QED BY <2>1, <1>11
<1> HIDE DEF x, y
<1>13. c \in Seq(BlockType) /\ IsSplit(b, c, k, x, y)
  BY <1>2, <1>3, <1>10, <1>11, SplitAt
<1> HIDE DEF c
<1>14. HeapTiles(c, brk + n)
  <2>1. x.addr = b[k].addr /\ EndOf(x) = y.addr /\ (n = 0 \/ k = Len(b))
    BY <1>2, <1>5, <1>10, <1>11 DEF d
  <2> QED BY <1>1, <1>2, <1>5, <1>10, <1>11, <1>12, <1>13, <2>1, SplitTiles
<1>15. ApartBut(c, {})
  BY <1>1, <1>2, <1>10, <1>13, SplitApart
<1>16. Taken(c) = Taken(b) \cup {TakenOf(x)}
  BY <1>2, <1>3, <1>10, <1>11, <1>13, SplitTaken
<1>17. \A u \in Taken(b) : u.addr # d
  <2>1. SUFFICES ASSUME NEW u \in Taken(b), u.addr = d PROVE FALSE
    OBVIOUS
  <2>2. PICK i \in 1..Len(b) : ~IsFree(b[i]) /\ u = TakenOf(b[i])
    BY DEF Taken
  <2>3. b[i].addr = b[k].addr
    BY <2>1, <2>2 DEF TakenOf, d
  <2>4. i = k
    BY <1>1, <1>2, <2>3, AddrsDiffer, Zenon
  <2> QED BY <2>2, <2>4, <1>2
<1>18. TakenOf(x) \in [addr : Nat, size : Nat] /\ TakenOf(x).addr = d /\ TakenOf(x).size = size
  BY <1>4, <1>10
<1>19. TakeDone(b, c, brk, brk + n, d + MetaWords, size)
  <2>1. HeapWhole(c, brk + n)
    BY <1>5, <1>14, <1>15 DEF HeapWhole
  <2> QED BY <2>1, <1>16, <1>17, <1>18, Zenon DEF TakeDone
<1> QED BY <1>8, <1>19

GiveDone(b, c, brk, t) ==
    HeapWhole(c, brk) /\ Taken(c) = Taken(b) \ {t} /\ HeapTrimmed(c, brk)

LEMMA BlockFreed ==
  ASSUME NEW r \in BlockType, NEW z
  PROVE  /\ [r EXCEPT !.free = TRUE] = Block(r.addr, r.size, TRUE)
         /\ IsFree(r) => [r EXCEPT !.size = z] = Block(r.addr, z, TRUE)
<1>1. r = [addr |-> r.addr, size |-> r.size, free |-> r.free] /\ r.free \in BOOLEAN
  BY DEF BlockType
<1>2. [r EXCEPT !.free = TRUE] = Block(r.addr, r.size, TRUE)
  <2>1. \A v : [r EXCEPT !.free = v] = [addr |-> r.addr, size |-> r.size, free |-> v]
    BY <1>1
  <2> QED BY <2>1, Zenon DEF Block
<1>3. IsFree(r) => r.free = TRUE
  BY <1>1, Zenon DEF IsFree
<1>4. [r EXCEPT !.size = z] = [addr |-> r.addr, size |-> z, free |-> r.free]
  BY <1>1
<1> QED BY <1>2, <1>3, <1>4, Zenon DEF Block

LEMMA JoinNextRight ==
  ASSUME NEW b, NEW brk, HeapTiles(b, brk), ApartBut(b, {}), NEW k \in 1..Len(b), ~IsFree(b[k])
  PROVE  LET c == JoinedNext(b, k) IN
         /\ HeapTiles(c, brk) /\ ApartBut(c, {k - 1}) /\ Taken(c) = Taken(b) \ {TakenOf(b[k])}
         /\ k <= Len(c) /\ IsFree(c[k])
<1> DEFINE x == Block(b[k].addr, b[k].size, TRUE)
           f == [b EXCEPT ![k].free = TRUE]
           y == Block(b[k].addr, b[k].size + MetaWords + b[k + 1].size, TRUE)
           c == SubSeq(b, 1, k - 1) \o <<y>> \o SubSeq(b, k + 2, Len(b))
<1>1. /\ MetaWords \in Nat /\ b \in Seq(BlockType) /\ Len(b) \in Nat /\ brk \in Nat /\ IsFree(b[Len(b)])
      /\ \A i \in 1..Len(b) : /\ b[i] \in BlockType /\ b[i].addr \in Nat /\ b[i].size \in Nat
                              /\ EndOf(b[i]) = b[i].addr + MetaWords + b[i].size
                              /\ EndOf(b[i]) = IF i = Len(b) THEN brk ELSE b[i + 1].addr
  BY TileFacts, Zenon
<1>2. k # Len(b) /\ k \in 1..(Len(b) - 1) /\ k + 1 \in 1..Len(b)
  BY <1>1
<1>3. /\ x \in BlockType /\ x.addr = b[k].addr /\ IsFree(x) /\ EndOf(x) = EndOf(b[k])
  BY <1>1, BlockMade, ZenonT(60)
<1>4. f \in Seq(BlockType) /\ IsPut(b, f, k, x)
  <2>1. [b[k] EXCEPT !.free = TRUE] = x
    BY <1>1, BlockFreed
  <2>2. f = [b EXCEPT ![k] = x]
    BY <2>1
  <2> HIDE DEF x, f
  <2> QED BY <1>1, <1>3, <2>2 DEF IsPut
<1> HIDE DEF x, f
<1>5. HeapTiles(f, brk)
  <2>1. HeapTiles(f, IF k = Len(b) THEN EndOf(x) ELSE brk)
    BY <1>2, <1>3, <1>4, PutTiles
  <2> QED BY <1>2, <2>1
<1>6. ApartBut(f, {k - 1, k}) /\ Taken(f) = Taken(b) \ {TakenOf(b[k])}
  BY <1>3, <1>4, PutApart
<1>7. Len(f) = Len(b) /\ f[k] = x /\ \A i \in 1..Len(b) : i # k => f[i] = b[i]
  BY <1>4 DEF IsPut
<1>8. CASE IsFree(b[k + 1])
  <2>1. JoinedNext(b, k) = c
    <3>1. k < Len(b) /\ b[k + 1].free
      BY <1>2, <1>8 DEF IsFree
    <3> QED BY <3>1 DEF JoinedNext
  <2>2. y \in BlockType /\ y.addr = b[k].addr /\ IsFree(y) /\ EndOf(y) = EndOf(b[k + 1])
    <3>1. b[k].addr \in Nat /\ b[k].size \in Nat /\ b[k + 1].addr \in Nat /\ b[k + 1].size \in Nat
          /\ b[k].size + MetaWords + b[k + 1].size \in Nat
      BY <1>1, <1>2
    <3>2. /\ y \in BlockType /\ y.addr = b[k].addr /\ IsFree(y)
          /\ EndOf(y) = b[k].addr + MetaWords + (b[k].size + MetaWords + b[k + 1].size)
      BY <3>1, BlockMade, ZenonT(60)
    <3>3. EndOf(b[k]) = b[k + 1].addr /\ EndOf(b[k + 1]) = b[k + 1].addr + MetaWords + b[k + 1].size
      BY <1>1, <1>2
    <3>4. EndOf(b[k]) = b[k].addr + MetaWords + b[k].size
      BY <1>1
    <3>5. EndOf(b[k + 1]) = b[k].addr + MetaWords + (b[k].size + MetaWords + b[k + 1].size)
      <4> DEFINE a == b[k].addr
                 z == b[k].size
                 w == b[k + 1].size
                 d == b[k + 1].addr
                 u == EndOf(b[k])
                 v == EndOf(b[k + 1])
      <4>1. a \in Nat /\ z \in Nat /\ w \in Nat /\ d \in Nat /\ u = d /\ v = d + MetaWords + w /\ u = a + MetaWords + z
        BY <3>1, <3>3, <3>4
      <4> HIDE DEF a, z, w, d, u, v
      <4>2. v = a + MetaWords + (z + MetaWords + w)
        BY <4>1, <1>1, SMTT(30)
      <4> QED BY <4>2 DEF a, z, w, v
    <3> QED BY <3>2, <3>5
  <2> HIDE DEF y
  <2>3. c \in Seq(BlockType) /\ IsMerge(b, c, k, y)
    BY <1>1, <1>2, <2>2, MergeAt
  <2> HIDE DEF c
  <2>4. IsMerge(f, c, k, y)
    <3>1. Len(c) = Len(f) - 1 /\ \A i \in 1..Len(c) : i \in 1..Len(b) /\ i + 1 \in 1..Len(b)
      BY <2>3, <1>1, <1>2, <1>7 DEF IsMerge
    <3>2. ASSUME NEW i \in 1..Len(c) PROVE c[i] = IF i < k THEN f[i] ELSE IF i = k THEN y ELSE f[i + 1]
      <4>1. c[i] = IF i < k THEN b[i] ELSE IF i = k THEN y ELSE b[i + 1]
        BY <2>3 DEF IsMerge
      <4>2. i < k => f[i] = b[i]
        BY <3>1, <1>7
      <4>3. i > k => f[i + 1] = b[i + 1]
        BY <3>1, <1>7
      <4> QED BY <4>1, <4>2, <4>3
    <3> QED BY <3>1, <3>2 DEF IsMerge
  <2>5. k \in 1..(Len(f) - 1) /\ IsFree(f[k]) /\ IsFree(f[k + 1]) /\ f[k + 1] = b[k + 1] /\ f[k].addr = b[k].addr
    BY <1>2, <1>3, <1>7, <1>8
  <2>6. HeapTiles(c, brk)
    BY <1>5, <2>2, <2>3, <2>4, <2>5, MergeTiles
  <2>7. ApartBut(c, {k - 1, k} \ {k}) /\ Taken(c) = Taken(f)
    BY <1>4, <1>6, <2>2, <2>3, <2>4, <2>5, MergeApart
  <2>8. {k - 1, k} \ {k} = {k - 1}
    BY <1>2
  <2>9. k <= Len(c) /\ c[k] = y
    BY <1>2, <2>3, <1>1 DEF IsMerge
  <2> QED BY <1>6, <2>1, <2>2, <2>6, <2>7, <2>8, <2>9
<1>9. CASE ~IsFree(b[k + 1])
  <2>1. JoinedNext(b, k) = f
    BY <1>9 DEF JoinedNext, IsFree, f
  <2>2. ApartBut(f, {k - 1})
    <3>1. ~IsFree(f[k + 1])
      BY <1>2, <1>7, <1>9
    <3> QED BY <1>6, <3>1 DEF ApartBut
  <2> QED BY <1>1, <1>3, <1>5, <1>6, <1>7, <2>1, <2>2
<1> QED BY <1>8, <1>9

LEMMA JoinRight ==
  ASSUME NEW b, NEW brk, HeapTiles(b, brk), ApartBut(b, {}), NEW k \in 1..Len(b), ~IsFree(b[k])
  PROVE  LET c == Joined(b, k) IN
         HeapTiles(c, brk) /\ ApartBut(c, {}) /\ Taken(c) = Taken(b) \ {TakenOf(b[k])}
<1> DEFINE f == JoinedNext(b, k)
           y == Block(f[k - 1].addr, f[k - 1].size + MetaWords + f[k].size, TRUE)
           c == SubSeq(f, 1, k - 2) \o <<y>> \o SubSeq(f, k + 1, Len(f))
<1>1. /\ HeapTiles(f, brk) /\ ApartBut(f, {k - 1}) /\ Taken(f) = Taken(b) \ {TakenOf(b[k])}
      /\ k <= Len(f) /\ IsFree(f[k])
  BY JoinNextRight, Zenon
<1> HIDE DEF f
<1>2. /\ MetaWords \in Nat /\ f \in Seq(BlockType) /\ Len(f) \in Nat
      /\ \A i \in 1..Len(f) : /\ f[i] \in BlockType /\ f[i].addr \in Nat /\ f[i].size \in Nat
                              /\ EndOf(f[i]) = f[i].addr + MetaWords + f[i].size
                              /\ EndOf(f[i]) = IF i = Len(f) THEN brk ELSE f[i + 1].addr
  BY <1>1, TileFacts, Zenon
<1>k. k \in Nat /\ k >= 1
  OBVIOUS
<1>3. CASE k > 1 /\ IsFree(f[k - 1])
  <2>1. Joined(b, k) = c
    <3>1. k > 1 /\ f[k - 1].free
      BY <1>3 DEF IsFree
    <3> QED BY <3>1 DEF Joined, f
  <2> DEFINE j == k - 1
  <2>2. j \in 1..(Len(f) - 1) /\ j + 1 = k /\ j - 1 = k - 2 /\ j + 2 = k + 1 /\ j \in 1..Len(f) /\ k \in 1..Len(f)
    BY <1>1, <1>2, <1>3, <1>k
  <2>3. c = SubSeq(f, 1, j - 1) \o <<y>> \o SubSeq(f, j + 2, Len(f))
    BY <2>2
  <2>4. y \in BlockType /\ y.addr = f[j].addr /\ IsFree(y) /\ EndOf(y) = EndOf(f[j + 1])
    <3>0. f[j].addr \in Nat /\ f[j].size \in Nat /\ f[k].addr \in Nat /\ f[k].size \in Nat
      BY <1>2, <2>2, Zenon
    <3>1. f[j].size + MetaWords + f[k].size \in Nat
      <4> DEFINE z == f[j].size
                 w == f[k].size
      <4>1. z \in Nat /\ w \in Nat /\ MetaWords \in Nat
        BY <1>2, <3>0
      <4> HIDE DEF z, w
      <4>2. z + MetaWords + w \in Nat
        BY <4>1
      <4> QED BY <4>2 DEF z, w
    <3>2. /\ y \in BlockType /\ y.addr = f[j].addr /\ IsFree(y)
          /\ EndOf(y) = f[j].addr + MetaWords + (f[j].size + MetaWords + f[k].size)
      BY <3>0, <3>1, BlockMade, ZenonT(60)
    <3>3. EndOf(f[j]) = f[k].addr /\ EndOf(f[k]) = f[k].addr + MetaWords + f[k].size
      <4>1. j # Len(f) /\ f[j + 1] = f[k]
        BY <2>2, <1>2
      <4>2. EndOf(f[j]) = IF j = Len(f) THEN brk ELSE f[j + 1].addr
        BY <1>2, <2>2, Zenon
      <4>3. EndOf(f[k]) = f[k].addr + MetaWords + f[k].size
        BY <1>2, <2>2, Zenon
      <4> QED BY <4>1, <4>2, <4>3
    <3>4. EndOf(f[j]) = f[j].addr + MetaWords + f[j].size
      BY <1>2, <2>2
    <3>5. EndOf(f[k]) = f[j].addr + MetaWords + (f[j].size + MetaWords + f[k].size)
      <4> DEFINE a == f[j].addr
                 z == f[j].size
                 w == f[k].size
                 d == f[k].addr
                 u == EndOf(f[j])
                 v == EndOf(f[k])
      <4>1. a \in Nat /\ z \in Nat /\ w \in Nat /\ d \in Nat /\ u = d /\ v = d + MetaWords + w /\ u = a + MetaWords + z
        BY <3>0, <3>3, <3>4
      <4> HIDE DEF a, z, w, d, u, v
      <4>2. v = a + MetaWords + (z + MetaWords + w)
        BY <4>1, <1>2
      <4> QED BY <4>2 DEF a, z, w, v
    <3> QED BY <3>2, <3>5, <2>2
  <2> HIDE DEF y, c
  <2>5. c \in Seq(BlockType) /\ IsMerge(f, c, j, y)
    <3> HIDE DEF j
    <3> QED BY <1>2, <2>2, <2>3, <2>4, MergeAt
  <2>6. IsFree(f[j]) /\ IsFree(f[j + 1])
    BY <1>1, <1>3, <2>2
  <2>7. HeapTiles(c, brk)
    <3> HIDE DEF j
    <3> QED BY <1>1, <2>2, <2>4, <2>5, <2>6, MergeTiles
  <2>8. ApartBut(c, {j} \ {j}) /\ Taken(c) = Taken(f)
    <3>1. ApartBut(f, {j})
      BY <1>1
    <3> HIDE DEF j
    <3>2. {j} \subseteq {j - 1, j}
      OBVIOUS
    <3> QED BY <3>1, <3>2, <1>2, <2>2, <2>4, <2>5, <2>6, MergeApart, ZenonT(60)
  <2>9. {j} \ {j} = {}
    OBVIOUS
  <2> HIDE DEF j
  <2> QED BY <1>1, <2>1, <2>7, <2>8, <2>9
<1>4. CASE ~(k > 1 /\ IsFree(f[k - 1]))
  <2>1. Joined(b, k) = f
    BY <1>4 DEF Joined, IsFree, f
  <2>2. ApartBut(f, {})
    BY <1>1, <1>2, <1>4, <1>k DEF ApartBut
  <2> QED BY <1>1, <2>1, <2>2
<1> QED BY <1>3, <1>4

LEMMA ContractRight ==
  ASSUME NEW b, NEW brk, HeapWhole(b, brk)
  PROVE  LET g == Contracted(b, brk) IN
         HeapWhole(g.blocks, g.brk) /\ Taken(g.blocks) = Taken(b) /\ HeapTrimmed(g.blocks, g.brk)
<1> DEFINE n == Len(b)
           start == b[n].addr + MetaWords
           x == Block(b[n].addr, ContractEnd(start) - start, TRUE)
           f == [b EXCEPT ![n].size = ContractEnd(start) - start]
<1>0. HeapTiles(b, brk) /\ ApartBut(b, {}) /\ brk % PageWords = 0
  BY DEF HeapWhole
<1>1. /\ MetaWords \in Nat /\ MetaWords > 0 /\ b \in Seq(BlockType) /\ n \in Nat /\ n > 0 /\ brk \in Nat /\ IsFree(b[n])
      /\ \A i \in 1..n : /\ b[i] \in BlockType /\ b[i].addr \in Nat /\ b[i].size \in Nat
                         /\ EndOf(b[i]) = b[i].addr + MetaWords + b[i].size
                         /\ EndOf(b[i]) = IF i = n THEN brk ELSE b[i + 1].addr
  BY <1>0, TileFacts, Zenon
<1>2. /\ n \in 1..n /\ start \in Nat /\ b[n] \in BlockType /\ b[n].addr \in Nat /\ b[n].size \in Nat
      /\ brk = start + b[n].size /\ PageWords \in Nat /\ PageWords > 0
  <2>1. n \in 1..n
    BY <1>1
  <2>2. PageWords \in Nat /\ PageWords > 0
    BY MallocAssumption
  <2> QED BY <1>1, <2>1, <2>2
<1>3. CASE b[n].size > PageWords
  <2>1. /\ ContractEnd(start) \in Nat /\ ContractEnd(start) % PageWords = 0
        /\ start < ContractEnd(start) /\ ContractEnd(start) <= start + 2 * PageWords
    <3>1. start + PageWords < brk
      BY <1>2, <1>3
    <3> HIDE DEF start
    <3> QED BY <1>0, <1>1, <1>2, <3>1, ContractFits, Zenon
  <2> DEFINE e == ContractEnd(start)
  <2>2. Contracted(b, brk) = [blocks |-> f, brk |-> e]
    BY <1>3 DEF Contracted
  <2> HIDE DEF e
  <2>3. e - start \in Nat /\ e \in Nat
    BY <2>1, <1>2 DEF e
  <2>4. x \in BlockType /\ x.addr = b[n].addr /\ IsFree(x) /\ EndOf(x) = e
    <3>1. x = Block(b[n].addr, e - start, TRUE)
      BY DEF e
    <3> DEFINE d == e - start
    <3>2. d \in Nat /\ x = Block(b[n].addr, d, TRUE)
      BY <2>3, <3>1
    <3> HIDE DEF d, x
    <3>3. /\ x \in BlockType /\ x.addr = b[n].addr /\ IsFree(x)
          /\ EndOf(x) = b[n].addr + MetaWords + d
      BY <1>2, <3>2, BlockMade, ZenonT(60)
    <3>4. b[n].addr + MetaWords + d = e
      BY <1>1, <1>2, <2>3, SMTT(30) DEF d
    <3> QED BY <3>3, <3>4
  <2>5. f \in Seq(BlockType) /\ IsPut(b, f, n, x)
    <3>1. [b[n] EXCEPT !.size = ContractEnd(start) - start] = x
      BY <1>1, <1>2, BlockFreed
    <3>2. f = [b EXCEPT ![n] = x]
      BY <3>1
    <3> HIDE DEF x, f
    <3> QED BY <1>1, <1>2, <2>4, <3>2 DEF IsPut
  <2> HIDE DEF x, f
  <2>6. HeapTiles(f, e)
    <3>1. HeapTiles(f, IF n = Len(b) THEN EndOf(x) ELSE brk)
      BY <1>0, <1>2, <2>4, <2>5, PutTiles
    <3> QED BY <3>1, <2>4
  <2>7. ApartBut(f, {}) /\ Taken(f) = Taken(b)
    BY <1>0, <1>1, <1>2, <2>4, <2>5, PutFree, ZenonT(60)
  <2>8. HeapTrimmed(f, e)
    <3>1. f[Len(f)].addr = b[n].addr
      BY <2>4, <2>5, <1>2 DEF IsPut
    <3>2. e - start <= 2 * PageWords
      BY <2>1, <1>2 DEF e
    <3> QED BY <3>1, <3>2 DEF HeapTrimmed
  <2>9. HeapWhole(f, e)
    BY <2>1, <2>6, <2>7 DEF HeapWhole, e
  <2>10. Contracted(b, brk).blocks = f /\ Contracted(b, brk).brk = e
    BY <2>2
  <2> QED BY <2>7, <2>8, <2>9, <2>10
<1>4. CASE ~(b[n].size > PageWords)
  <2>1. Contracted(b, brk) = [blocks |-> b, brk |-> brk]
    BY <1>4 DEF Contracted
  <2>2. HeapTrimmed(b, brk)
    BY <1>2, <1>4 DEF HeapTrimmed
  <2> QED BY <2>1, <2>2
<1> QED BY <1>3, <1>4

LEMMA GiveRight ==
  ASSUME NEW b, NEW brk, HeapWhole(b, brk), NEW t \in Taken(b)
  PROVE  LET g == HeapGive(b, brk, t.addr + MetaWords) IN GiveDone(b, g.blocks, g.brk, t)
<1> DEFINE p == t.addr + MetaWords
           k == CHOOSE i \in 1..Len(b) : b[i].addr + MetaWords = p
           c == Joined(b, k)
<1>0. HeapTiles(b, brk) /\ ApartBut(b, {}) /\ brk % PageWords = 0
  BY DEF HeapWhole
<1>1. PICK i \in 1..Len(b) : ~IsFree(b[i]) /\ t = TakenOf(b[i])
  BY DEF Taken
<1>2. MetaWords \in Nat /\ \A m \in 1..Len(b) : b[m].addr \in Nat
  BY <1>0, TileFacts, Zenon
<1>3. \A m, l \in 1..Len(b) : b[m].addr = b[l].addr => m = l
  BY <1>0, AddrsDiffer, Zenon
<1>4. t.addr = b[i].addr
  BY <1>1 DEF TakenOf
<1>5. k \in 1..Len(b) /\ b[k].addr + MetaWords = p
  <2>1. b[i].addr + MetaWords = p
    BY <1>4
  <2> HIDE DEF p
  <2> QED BY <2>1, Zenon
<1> HIDE DEF k
<1>6. k = i
  BY <1>2, <1>3, <1>4, <1>5
<1>7. HeapTiles(c, brk) /\ ApartBut(c, {}) /\ Taken(c) = Taken(b) \ {t}
  BY <1>0, <1>1, <1>6, JoinRight
<1>8. HeapGive(b, brk, p) = Contracted(c, brk)
  BY DEF HeapGive, k
<1> HIDE DEF c
<1>9. HeapWhole(c, brk)
  BY <1>0, <1>7 DEF HeapWhole
<1> QED BY <1>7, <1>8, <1>9, ContractRight DEF GiveDone

-----------------------------------------------------------------------------
(* The pointers of the program and the blocks in use are the same thing, and no two
   pointers are equal: without that, free() of one would leave the other.   *)
HeapOwned(b, ptrs) ==
    /\ ptrs \subseteq [ptr : Nat, size : Nat]
    /\ \A t \in Taken(b) : \E p \in ptrs : p.ptr = t.addr + MetaWords
    /\ \A p \in ptrs : \E t \in Taken(b) : p.ptr = t.addr + MetaWords /\ t.size >= p.size
    /\ \A p, q \in ptrs : p.ptr = q.ptr => p = q

(* The heap once it was initialized, and whether the last call was free(). *)
HeapReady(b, brk, ptrs, freed) ==
    HeapWhole(b, brk) /\ HeapOwned(b, ptrs) /\ (freed => HeapTrimmed(b, brk))

HeapInv ==
    \/ heapBlocks = <<>> /\ heapBreak = 0 /\ heapPtrs = {} /\ heapFreed = FALSE
    \/ HeapReady(heapBlocks, heapBreak, heapPtrs, heapFreed)

LEMMA TakeOwned ==
  ASSUME NEW b, NEW brk, HeapWhole(b, brk), NEW ptrs, HeapOwned(b, ptrs), NEW size \in Nat,
         NEW c, NEW brk2, NEW ptr, TakeDone(b, c, brk, brk2, ptr, size)
  PROVE  /\ HeapWhole(c, brk2) /\ HeapOwned(c, ptrs \cup {[ptr |-> ptr, size |-> size]})
         /\ Taken(b) \subseteq Taken(c) /\ [ptr |-> ptr, size |-> size] \notin ptrs
<1> DEFINE new == [ptr |-> ptr, size |-> size]
<1>0. HeapTiles(b, brk) /\ HeapWhole(c, brk2) /\ HeapTiles(c, brk2)
  BY DEF HeapWhole, TakeDone
<1>1. PICK t \in [addr : Nat, size : Nat] :
        /\ Taken(c) = Taken(b) \cup {t} /\ t.addr + MetaWords = ptr /\ t.size = size
        /\ \A u \in Taken(b) : u.addr # t.addr
  BY DEF TakeDone
<1>2. MetaWords \in Nat /\ \A u \in Taken(c) : u \in [addr : Nat, size : Nat]
  BY <1>0, AddrsDiffer, MallocAssumption
<1>3. new \in [ptr : Nat, size : Nat] /\ new.ptr = t.addr + MetaWords /\ new.size = t.size /\ t.addr \in Nat /\ t.size \in Nat
  BY <1>1, <1>2
<1> HIDE DEF new
<1>4. ASSUME NEW p \in ptrs PROVE p.ptr # new.ptr
  <2>1. PICK u \in Taken(b) : p.ptr = u.addr + MetaWords
    BY DEF HeapOwned
  <2>2. u.addr \in Nat /\ u.addr # t.addr
    BY <1>1, <1>2
  <2> QED BY <2>1, <2>2, <1>2, <1>3
<1>5. HeapOwned(c, ptrs \cup {new})
  <2>1. ptrs \cup {new} \subseteq [ptr : Nat, size : Nat]
    BY <1>3 DEF HeapOwned
  <2>2. \A u \in Taken(c) : \E p \in ptrs \cup {new} : p.ptr = u.addr + MetaWords
    BY <1>1, <1>3 DEF HeapOwned
  <2>3. \A p \in ptrs \cup {new} : \E u \in Taken(c) : p.ptr = u.addr + MetaWords /\ u.size >= p.size
    BY <1>1, <1>3 DEF HeapOwned
  <2>4. \A p, q \in ptrs \cup {new} : p.ptr = q.ptr => p = q
    BY <1>4 DEF HeapOwned
  <2> QED BY <2>1, <2>2, <2>3, <2>4 DEF HeapOwned
<1>6. new \notin ptrs
  BY <1>4
<1> QED BY <1>0, <1>1, <1>5, <1>6 DEF new

LEMMA GiveOwned ==
  ASSUME NEW b, NEW brk, HeapWhole(b, brk), NEW ptrs, HeapOwned(b, ptrs), NEW p \in ptrs
  PROVE  LET g == HeapGive(b, brk, p.ptr) IN
         HeapReady(g.blocks, g.brk, ptrs \ {p}, TRUE)
<1> DEFINE g == HeapGive(b, brk, p.ptr)
           c == g.blocks
           brk2 == g.brk
<1>1. PICK t \in Taken(b) : p.ptr = t.addr + MetaWords /\ t.size >= p.size
  BY DEF HeapOwned
<1>2. GiveDone(b, c, brk2, t)
  <2>1. LET h == HeapGive(b, brk, t.addr + MetaWords) IN GiveDone(b, h.blocks, h.brk, t)
    BY GiveRight
  <2> QED BY <1>1, <2>1
<1> HIDE DEF c, brk2
<1>3. HeapWhole(c, brk2) /\ Taken(c) = Taken(b) \ {t} /\ HeapTrimmed(c, brk2)
  BY <1>2 DEF GiveDone
<1>4. MetaWords \in Nat /\ \A u \in Taken(b) : u.addr \in Nat /\ (u.addr = t.addr => u = t)
  <2>1. HeapTiles(b, brk) /\ MetaWords \in Nat
    BY MallocAssumption DEF HeapWhole
  <2>2. /\ \A u \in Taken(b) : u \in [addr : Nat, size : Nat]
        /\ \A u, v \in Taken(b) : u.addr = v.addr => u = v
    BY <2>1, AddrsDiffer, Zenon
  <2> QED BY <2>1, <2>2
<1>5. HeapOwned(c, ptrs \ {p})
  <2>1. \A q \in ptrs \ {p} : q.ptr # p.ptr
    BY DEF HeapOwned
  <2>2. ASSUME NEW u \in Taken(c) PROVE \E q \in ptrs \ {p} : q.ptr = u.addr + MetaWords
    <3>1. u \in Taken(b) /\ u # t /\ u.addr # t.addr /\ u.addr \in Nat /\ t.addr \in Nat
      BY <1>3, <1>4, <2>2
    <3>2. PICK q \in ptrs : q.ptr = u.addr + MetaWords
      BY <3>1 DEF HeapOwned
    <3>3. q.ptr # p.ptr
      BY <1>1, <1>4, <3>1, <3>2
    <3> QED BY <3>2, <3>3
  <2>3. ASSUME NEW q \in ptrs \ {p} PROVE \E u \in Taken(c) : q.ptr = u.addr + MetaWords /\ u.size >= q.size
    <3>1. PICK u \in Taken(b) : q.ptr = u.addr + MetaWords /\ u.size >= q.size
      BY DEF HeapOwned
    <3>2. u # t
      BY <1>1, <2>1, <3>1
    <3> QED BY <1>3, <3>1, <3>2
  <2>4. ptrs \ {p} \subseteq [ptr : Nat, size : Nat] /\ \A q, r \in ptrs \ {p} : q.ptr = r.ptr => q = r
    BY DEF HeapOwned
  <2> QED BY <2>2, <2>3, <2>4 DEF HeapOwned
<1> QED BY <1>3, <1>5 DEF HeapReady, c, brk2

LEMMA FirstWhole ==
  HeapWhole(<<Block(0, PageWords - MetaWords, TRUE)>>, PageWords)
  /\ Taken(<<Block(0, PageWords - MetaWords, TRUE)>>) = {}
<1> DEFINE x == Block(0, PageWords - MetaWords, TRUE)
           b == <<x>>
<1>1. PageWords \in Nat /\ PageWords > 0 /\ MetaWords \in Nat /\ PageWords - MetaWords \in Nat
  BY MallocAssumption
<1>2. /\ x \in BlockType /\ x.addr = 0 /\ IsFree(x) /\ EndOf(x) = 0 + MetaWords + (PageWords - MetaWords)
  BY <1>1, BlockMade
<1>3. EndOf(x) = PageWords
  <2>1. 0 + MetaWords + (PageWords - MetaWords) = PageWords
    BY <1>1
  <2> QED BY <1>2, <2>1
<1> HIDE DEF x
<1>4. b \in Seq(BlockType) /\ Len(b) = 1 /\ b[1] = x
  BY <1>2
<1> HIDE DEF b
<1>5. HeapTiles(b, PageWords)
  BY <1>1, <1>2, <1>3, <1>4 DEF HeapTiles
<1>6. ApartBut(b, {}) /\ Taken(b) = {}
  BY <1>2, <1>4 DEF ApartBut, Taken
<1>7. PageWords % PageWords = 0
  BY <1>1, Z3
<1> QED BY <1>5, <1>6, <1>7 DEF HeapWhole, b, x

LEMMA FirstReady ==
  HeapInv => /\ HeapWhole(FirstBlocks, FirstBreak) /\ HeapOwned(FirstBlocks, heapPtrs)
<1> SUFFICES ASSUME HeapInv PROVE HeapWhole(FirstBlocks, FirstBreak) /\ HeapOwned(FirstBlocks, heapPtrs)
  OBVIOUS
<1>1. CASE heapBlocks = <<>>
  <2>1. FirstBlocks = <<Block(0, PageWords - MetaWords, TRUE)>> /\ FirstBreak = PageWords
    BY <1>1 DEF FirstBlocks, FirstBreak
  <2>2. ~HeapWhole(heapBlocks, heapBreak)
    <3>1. Len(heapBlocks) = 0
      BY <1>1
    <3> QED BY <3>1 DEF HeapWhole, HeapTiles
  <2>3. heapPtrs = {}
    BY <2>2 DEF HeapInv, HeapReady
  <2>4. HeapWhole(FirstBlocks, FirstBreak) /\ Taken(FirstBlocks) = {}
    BY <2>1, FirstWhole
  <2> QED BY <2>3, <2>4 DEF HeapOwned
<1>2. CASE heapBlocks # <<>>
  BY <1>2 DEF FirstBlocks, FirstBreak, HeapInv, HeapReady
<1> QED BY <1>1, <1>2

LEMMA HeapStep == HeapInv /\ [HeapNext]_heapVars => HeapInv'
<1> SUFFICES ASSUME HeapInv, [HeapNext]_heapVars PROVE HeapInv'
  OBVIOUS
<1>s. MallocSizes \subseteq Nat
  BY MallocAssumption
<1>1. ASSUME NEW size \in MallocSizes, HeapMalloc(size) PROVE HeapInv'
  <2> DEFINE a == HeapTake(FirstBlocks, FirstBreak, size)
  <2>1. /\ heapBlocks' = a.blocks /\ heapBreak' = a.brk
        /\ heapPtrs' = heapPtrs \cup {[ptr |-> a.ptr, size |-> size]} /\ heapFreed' = FALSE
    BY <1>1 DEF HeapMalloc
  <2>2. HeapWhole(FirstBlocks, FirstBreak) /\ HeapOwned(FirstBlocks, heapPtrs)
    BY FirstReady
  <2>3. TakeDone(FirstBlocks, a.blocks, FirstBreak, a.brk, a.ptr, size)
    BY <1>s, <2>2, TakeRight
  <2> HIDE DEF a
  <2>4. HeapWhole(a.blocks, a.brk) /\ HeapOwned(a.blocks, heapPtrs \cup {[ptr |-> a.ptr, size |-> size]})
    BY <1>s, <2>2, <2>3, TakeOwned
  <2> QED BY <2>1, <2>4 DEF HeapInv, HeapReady
<1>2. ASSUME NEW p \in heapPtrs, HeapFree(p) PROVE HeapInv'
  <2> DEFINE g == HeapGive(heapBlocks, heapBreak, p.ptr)
  <2>1. heapBlocks' = g.blocks /\ heapBreak' = g.brk /\ heapPtrs' = heapPtrs \ {p} /\ heapFreed' = TRUE
    BY <1>2 DEF HeapFree
  <2>2. HeapWhole(heapBlocks, heapBreak) /\ HeapOwned(heapBlocks, heapPtrs)
    BY DEF HeapInv, HeapReady
  <2>3. HeapReady(g.blocks, g.brk, heapPtrs \ {p}, TRUE)
    BY <2>2, GiveOwned
  <2> QED BY <2>1, <2>3 DEF HeapInv
<1>3. ASSUME NEW p \in heapPtrs, NEW size \in MallocSizes, HeapRealloc(p, size) PROVE HeapInv'
  <2> DEFINE a == HeapTake(heapBlocks, heapBreak, size)
             new == [ptr |-> a.ptr, size |-> size]
             g == HeapGive(a.blocks, a.brk, p.ptr)
  <2>1. heapBlocks' = g.blocks /\ heapBreak' = g.brk /\ heapPtrs' = (heapPtrs \ {p}) \cup {new} /\ heapFreed' = TRUE
    BY <1>3 DEF HeapRealloc
  <2>2. HeapWhole(heapBlocks, heapBreak) /\ HeapOwned(heapBlocks, heapPtrs)
    BY DEF HeapInv, HeapReady
  <2>3. TakeDone(heapBlocks, a.blocks, heapBreak, a.brk, a.ptr, size)
    BY <1>s, <2>2, TakeRight
  <2> HIDE DEF a
  <2>4. HeapWhole(a.blocks, a.brk) /\ HeapOwned(a.blocks, heapPtrs \cup {new}) /\ new \notin heapPtrs
    BY <1>s, <2>2, <2>3, TakeOwned
  <2> HIDE DEF new
  <2>5. HeapReady(g.blocks, g.brk, (heapPtrs \cup {new}) \ {p}, TRUE)
    <3>1. p \in heapPtrs \cup {new}
      OBVIOUS
    <3> QED BY <2>4, <3>1, GiveOwned
  <2>6. (heapPtrs \cup {new}) \ {p} = heapPtrs'
    BY <2>1, <2>4
  <2> QED BY <2>1, <2>5, <2>6 DEF HeapInv
<1>4. CASE UNCHANGED heapVars
  BY <1>4 DEF heapVars, HeapInv
<1> QED BY <1>1, <1>2, <1>3, <1>4 DEF HeapNext

LEMMA HeapInvSafety == HeapInv => HeapSafety
<1> SUFFICES ASSUME HeapInv PROVE HeapSafety
  OBVIOUS
<1>1. CASE heapBlocks = <<>> /\ heapBreak = 0 /\ heapPtrs = {} /\ heapFreed = FALSE
  <2>1. Len(heapBlocks) = 0
    BY <1>1
  <2> QED BY <1>1, <2>1 DEF HeapSafety, HeapTiled, HeapPointersRight, HeapCompact
<1>2. CASE HeapReady(heapBlocks, heapBreak, heapPtrs, heapFreed)
  <2> DEFINE b == heapBlocks
  <2>1. /\ HeapTiles(b, heapBreak) /\ ApartBut(b, {}) /\ heapBreak % PageWords = 0
        /\ HeapOwned(b, heapPtrs) /\ (heapFreed => HeapTrimmed(b, heapBreak))
    BY <1>2 DEF HeapReady, HeapWhole
  <2>2. HeapTiled
    BY <2>1 DEF HeapTiled, HeapTiles, EndOf, IsFree
  <2>3. \A t \in Taken(b) : \E k \in 1..Len(b) : ~b[k].free /\ t.addr = b[k].addr /\ t.size = b[k].size
    BY DEF Taken, TakenOf, IsFree
  <2>4. \A k \in 1..Len(b) : ~b[k].free => TakenOf(b[k]) \in Taken(b) /\ TakenOf(b[k]).addr = b[k].addr
    BY DEF Taken, TakenOf, IsFree
  <2>5. {b[k].addr + MetaWords : k \in {m \in 1..Len(b) : ~b[m].free}} = {p.ptr : p \in heapPtrs}
    <3>1. ASSUME NEW k \in 1..Len(b), ~b[k].free PROVE b[k].addr + MetaWords \in {p.ptr : p \in heapPtrs}
      BY <2>1, <2>4, <3>1 DEF HeapOwned
    <3>2. ASSUME NEW p \in heapPtrs PROVE \E k \in {m \in 1..Len(b) : ~b[m].free} : p.ptr = b[k].addr + MetaWords
      <4>1. PICK t \in Taken(b) : p.ptr = t.addr + MetaWords
        BY <2>1 DEF HeapOwned
      <4> QED BY <2>3, <4>1
    <3> QED BY <3>1, <3>2
  <2>6. ASSUME NEW p \in heapPtrs, NEW k \in 1..Len(b), b[k].addr + MetaWords = p.ptr
        PROVE  b[k].size >= p.size
    <3>1. PICK t \in Taken(b) : p.ptr = t.addr + MetaWords /\ t.size >= p.size
      BY <2>1 DEF HeapOwned
    <3>2. PICK i \in 1..Len(b) : t.addr = b[i].addr /\ t.size = b[i].size
      BY <2>3, <3>1
    <3>3. MetaWords \in Nat /\ b[i].addr \in Nat /\ b[k].addr \in Nat
      BY <2>1, TileFacts, Zenon
    <3>4. b[i].addr = b[k].addr
      BY <3>1, <3>2, <3>3, <2>6
    <3>5. i = k
      BY <2>1, <3>4, AddrsDiffer, Zenon
    <3> QED BY <3>1, <3>2, <3>5
  <2>7. HeapCompact
    <3>1. \A k \in 1..(Len(b) - 1) : ~(b[k].free /\ b[k + 1].free)
      BY <2>1 DEF ApartBut, IsFree
    <3> QED BY <2>1, <3>1 DEF HeapCompact, HeapTrimmed
  <2> QED BY <2>2, <2>5, <2>6, <2>7 DEF HeapSafety, HeapPointersRight
<1> QED BY <1>1, <1>2 DEF HeapInv

(* The blocks of malloc, free() and realloc always tile the heap up to the break,
   which moves by whole pages; a pointer that was given out stays a block of its
   own that is large enough, and free neighbours are joined.                *)
THEOREM HeapAlwaysTiled == HeapSpec => []HeapSafety
<1>1. HeapInit => HeapInv
  BY DEF HeapInit, HeapInv
<1> QED BY <1>1, HeapStep, HeapInvSafety, PTL DEF HeapSpec

-----------------------------------------------------------------------------
(***************************************************************************)
(* Lists and bitmaps (Lists), for any set of nodes and sizes of a word and *)
(* of a bitmap.                                                            *)
(***************************************************************************)

(* What list_insert_before and list_del make of the nodes that are meant.   *)
IsInsert(b, c, k, x) ==
    /\ Len(c) = Len(b) + 1
    /\ \A i \in 1..Len(c) : c[i] = IF i < k THEN b[i] ELSE IF i = k THEN x ELSE b[i - 1]

IsRemoval(b, c, k) ==
    /\ Len(c) = Len(b) - 1
    /\ \A i \in 1..Len(c) : c[i] = IF i < k THEN b[i] ELSE b[i + 1]

LEMMA InsertedAt ==
  ASSUME NEW S, NEW b \in Seq(S), NEW k \in 1..Len(b), NEW x \in S
  PROVE  InsertAt(b, k, x) \in Seq(S) /\ IsInsert(b, InsertAt(b, k, x), k, x)
<1> DEFINE l == SubSeq(b, 1, k - 1)
           m == <<x>>
           r == SubSeq(b, k, Len(b))
<1>1. /\ l \in Seq(S) /\ Len(l) = k - 1 /\ \A i \in 1..(k - 1) : l[i] = b[i]
  OBVIOUS
<1>2. /\ r \in Seq(S) /\ Len(r) = Len(b) - k + 1 /\ \A i \in 1..(Len(b) - k + 1) : r[i] = b[k + i - 1]
  OBVIOUS
<1>3. m \in Seq(S) /\ Len(m) = 1 /\ m[1] = x
  OBVIOUS
<1> HIDE DEF l, m, r
<1>4. PICK lm \in Seq(S) : IsConcat(lm, l, m)
  BY <1>1, <1>3, SeqsJoined, Zenon
<1>5. Len(lm) = k /\ \A i \in 1..k : lm[i] = IF i < k THEN b[i] ELSE x
  BY <1>1, <1>3, <1>4 DEF IsConcat
<1>6. PICK c \in Seq(S) : IsConcat(c, lm, r)
  BY <1>2, <1>4, SeqsJoined, Zenon
<1>7. IsInsert(b, c, k, x)
  <2>1. Len(c) = Len(b) + 1
    BY <1>2, <1>5, <1>6 DEF IsConcat
  <2>2. ASSUME NEW i \in 1..Len(c), i <= Len(lm) PROVE c[i] = lm[i]
    BY <1>6, <2>2 DEF IsConcat
  <2>3. ASSUME NEW i \in 1..Len(c), i > Len(lm) PROVE c[i] = b[i - 1]
    <3>1. c[i] = r[i - Len(lm)] /\ i - Len(lm) \in 1..Len(r)
      BY <1>6, <2>3, <1>2, <1>5 DEF IsConcat
    <3> QED BY <3>1, <1>2, <1>5, <2>3, SMTT(30)
  <2> QED BY <1>5, <2>1, <2>2, <2>3 DEF IsInsert
<1>8. InsertAt(b, k, x) = c
  BY <1>4, <1>6 DEF l, m, r, IsConcat, InsertAt
<1> QED BY <1>6, <1>7, <1>8

LEMMA RemovedAt ==
  ASSUME NEW S, NEW b \in Seq(S), NEW k \in 1..Len(b)
  PROVE  RemoveAt(b, k) \in Seq(S) /\ IsRemoval(b, RemoveAt(b, k), k)
<1> DEFINE l == SubSeq(b, 1, k - 1)
           r == SubSeq(b, k + 1, Len(b))
<1>1. /\ l \in Seq(S) /\ Len(l) = k - 1 /\ \A i \in 1..(k - 1) : l[i] = b[i]
  OBVIOUS
<1>2. /\ r \in Seq(S) /\ Len(r) = Len(b) - k /\ \A i \in 1..(Len(b) - k) : r[i] = b[k + i]
  OBVIOUS
<1> HIDE DEF l, r
<1>3. PICK c \in Seq(S) : IsConcat(c, l, r)
  BY <1>1, <1>2, SeqsJoined, Zenon
<1>4. IsRemoval(b, c, k)
  <2>1. Len(c) = Len(b) - 1
    BY <1>1, <1>2, <1>3 DEF IsConcat
  <2>2. ASSUME NEW i \in 1..Len(c), i < k PROVE c[i] = b[i]
    BY <1>1, <1>3, <2>2 DEF IsConcat
  <2>3. ASSUME NEW i \in 1..Len(c), i >= k PROVE c[i] = b[i + 1]
    <3>1. c[i] = r[i - Len(l)] /\ i - Len(l) \in 1..Len(r)
      BY <1>3, <2>3, <1>1, <1>2 DEF IsConcat
    <3> QED BY <3>1, <1>1, <1>2, <2>3, SMTT(30)
  <2> QED BY <2>1, <2>2, <2>3 DEF IsRemoval
<1>5. RemoveAt(b, k) = c
  BY <1>3 DEF l, r, IsConcat, RemoveAt
<1> QED BY <1>3, <1>4, <1>5

(* No element occurs twice.                                                 *)
Once(b) == \A i, j \in 1..Len(b) : b[i] = b[j] => i = j

LEMMA PlaceFound ==
  ASSUME NEW S, NEW b \in Seq(S), NEW x \in Range(b)
  PROVE  PlaceIn(x, b) \in 1..Len(b) /\ b[PlaceIn(x, b)] = x
<1>1. \E i \in 1..Len(b) : b[i] = x
  BY DEF Range
<1> QED BY <1>1 DEF PlaceIn

(* What occurs once and is removed does not occur any more.                 *)
LEMMA RemovalOnce ==
  ASSUME NEW S, NEW b \in Seq(S), Once(b), NEW x \in Range(b)
  PROVE  /\ Without(x, b) \in Seq(S) /\ Once(Without(x, b)) /\ Range(Without(x, b)) = Range(b) \ {x}
<1>1. PICK k, c : k = PlaceIn(x, b) /\ c = Without(x, b)
  OBVIOUS
<1>2. k \in 1..Len(b) /\ b[k] = x /\ Len(b) \in Nat
  BY <1>1, PlaceFound
<1>3. c \in Seq(S) /\ IsRemoval(b, c, k)
  BY <1>1, <1>2, RemovedAt DEF Without
<1>4. Len(c) = Len(b) - 1 /\ DOMAIN c = 1..Len(c) /\ DOMAIN b = 1..Len(b)
  BY <1>3 DEF IsRemoval
<1>5. \A i \in 1..Len(c) : c[i] = IF i < k THEN b[i] ELSE b[i + 1]
  BY <1>3 DEF IsRemoval
<1>6. Once(c)
  BY <1>2, <1>4, <1>5, SMTT(30) DEF Once
<1>7. ASSUME NEW y \in Range(c) PROVE y \in Range(b) \ {x}
  <2>1. PICK i \in 1..Len(c) : y = c[i]
    BY <1>4 DEF Range
  <2>2. PICK j \in 1..Len(b) : j # k /\ y = b[j]
    BY <2>1, <1>2, <1>4, <1>5
  <2> QED BY <1>2, <1>4, <2>2 DEF Range, Once
<1>8. ASSUME NEW y \in Range(b) \ {x} PROVE y \in Range(c)
  <2>1. PICK j \in 1..Len(b) : y = b[j] /\ j # k
    BY <1>2, <1>4 DEF Range
  <2>2. PICK i \in 1..Len(c) : c[i] = b[j]
    <3>1. CASE j < k
      BY <3>1, <1>2, <1>4, <1>5
    <3>2. CASE j > k
      <4>1. j - 1 \in 1..Len(c) /\ ~(j - 1 < k) /\ (j - 1) + 1 = j
        BY <3>2, <1>2, <1>4
      <4>2. c[j - 1] = b[(j - 1) + 1]
        BY <4>1, <1>5
      <4> QED BY <4>1, <4>2
    <3> QED BY <2>1, <3>1, <3>2, <1>2
  <2> QED BY <1>4, <2>1, <2>2 DEF Range
<1> QED BY <1>1, <1>3, <1>6, <1>7, <1>8

-----------------------------------------------------------------------------
(* The invariant of a list: no node is in it twice, and both chains of links are
   those of the nodes that are meant.                                       *)
ListType ==
    /\ listMeant \in Seq(ListNodes) /\ Once(listMeant)
    /\ listNext \in [ListNodes -> ListNodes \cup {Null}]
    /\ listPrev \in [ListNodes -> ListNodes \cup {Null}]

ListInv == ListType /\ ListLinked

LEMMA NullNoNode == Null \notin ListNodes
BY ListsAssumption DEF Null

LEMMA NodeAt ==
  ASSUME ListInv, NEW node \in Range(listMeant)
  PROVE  \E k \in 1..Len(listMeant) : PlaceIn(node, listMeant) = k /\ listMeant[k] = node
BY PlaceFound DEF ListInv, ListType

(* list_add: behind the last node.                                          *)
LEMMA AddKeeps ==
  ASSUME ListInv, NEW n \in FreshNodes, ListAdd(n)
  PROVE  ListInv'
<1> DEFINE b == listMeant
           c == listMeant'
<1>1. n \in ListNodes /\ \A i \in 1..Len(b) : b[i] # n
  BY DEF FreshNodes, Range, ListInv, ListType
<1>2. b \in Seq(ListNodes) /\ Len(b) \in Nat /\ \A i \in 1..Len(b) : b[i] \in ListNodes
  BY DEF ListInv, ListType
<1>3. /\ c \in Seq(ListNodes) /\ Len(c) = Len(b) + 1
      /\ \A i \in 1..Len(c) : c[i] = IF i = Len(c) THEN n ELSE b[i]
  BY <1>1, <1>2 DEF ListAdd
<1>4. Once(c)
  BY <1>1, <1>2, <1>3 DEF Once, ListInv, ListType
<1>5. listNum' = Len(c)
  BY <1>3 DEF ListAdd, ListInv, ListLinked
<1>6. CASE b = <<>>
  <2>1. /\ listHead' = n /\ listTail' = n
        /\ listNext' = [listNext EXCEPT ![n] = Null] /\ listPrev' = [listPrev EXCEPT ![n] = Null]
    BY <1>6 DEF ListInv, ListLinked, Visits, ListAdd
  <2>2. Len(b) = 0 /\ Len(c) = 1 /\ c[1] = n /\ c # <<>>
    BY <1>3, <1>6
  <2>3. listNext'[n] = Null /\ listPrev'[n] = Null /\ ListType'
    BY <1>1, <1>3, <1>4, <2>1 DEF ListInv, ListType
  <2>4. Visits(listMeant)'
    BY <2>1, <2>2, <2>3 DEF Visits
  <2> QED BY <1>5, <2>1, <2>2, <2>3, <2>4 DEF ListInv, ListLinked
<1>7. CASE b # <<>>
  <2>1. PICK t : t = listTail
    OBVIOUS
  <2>2. Len(b) > 0 /\ t = b[Len(b)] /\ t \in ListNodes /\ t # n /\ listHead = b[1] /\ listHead # Null
    BY <1>1, <1>2, <1>7, <2>1, NullNoNode DEF ListInv, ListLinked, Visits
  <2>3. /\ listHead' = listHead /\ listTail' = n
        /\ listNext' = [listNext EXCEPT ![n] = Null, ![t] = n] /\ listPrev' = [listPrev EXCEPT ![n] = t]
    BY <2>1, <2>2 DEF ListAdd
  <2>4. ListType'
    BY <1>1, <1>3, <1>4, <2>2, <2>3 DEF ListInv, ListType
  <2>5. /\ listNext'[n] = Null /\ listNext'[t] = n /\ listPrev'[n] = t
        /\ \A m \in ListNodes \ {n, t} : listNext'[m] = listNext[m]
        /\ \A m \in ListNodes \ {n} : listPrev'[m] = listPrev[m]
    BY <1>1, <2>2, <2>3 DEF ListInv, ListType
  <2>6. ASSUME NEW i \in 1..Len(c)
        PROVE  listNext'[c[i]] = IF i = Len(c) THEN Null ELSE c[i + 1]
    <3>1. CASE i = Len(c)
      BY <1>3, <2>5, <3>1
    <3>2. CASE i = Len(b)
      BY <1>2, <1>3, <2>2, <2>5, <3>2
    <3>3. CASE i < Len(b)
      <4>1. i \in 1..Len(b) /\ i + 1 \in 1..Len(b) /\ c[i] = b[i] /\ c[i + 1] = b[i + 1]
        BY <1>2, <1>3, <3>3
      <4>2. b[i] \in ListNodes \ {n, t}
        BY <1>1, <1>2, <2>2, <3>3, <4>1 DEF ListInv, ListType, Once
      <4>3. listNext[b[i]] = b[i + 1]
        BY <3>3, <4>1 DEF ListInv, ListLinked, Visits
      <4> QED BY <1>3, <2>5, <3>3, <4>1, <4>2, <4>3
    <3> QED BY <1>2, <1>3, <3>1, <3>2, <3>3
  <2>7. ASSUME NEW i \in 1..Len(c)
        PROVE  listPrev'[c[i]] = IF i = 1 THEN Null ELSE c[i - 1]
    <3>1. CASE i = Len(c)
      BY <1>2, <1>3, <2>2, <2>5, <3>1
    <3>2. CASE i # Len(c)
      <4>1. i \in 1..Len(b) /\ c[i] = b[i] /\ (i # 1 => c[i - 1] = b[i - 1]) /\ b[i] \in ListNodes \ {n}
        BY <1>1, <1>2, <1>3, <3>2
      <4>2. listPrev[b[i]] = IF i = 1 THEN Null ELSE b[i - 1]
        BY <4>1 DEF ListInv, ListLinked
      <4> QED BY <2>5, <4>1, <4>2
    <3> QED BY <3>1, <3>2
  <2>8. c # <<>> /\ c[1] = b[1] /\ c[Len(c)] = n
    BY <1>2, <1>3, <2>2
  <2>9. Visits(listMeant)'
    BY <2>2, <2>3, <2>6, <2>8 DEF Visits
  <2> QED BY <1>5, <2>3, <2>4, <2>7, <2>8, <2>9 DEF ListInv, ListLinked
<1> QED BY <1>6, <1>7

(* list_insert_before: the node before and the node behind get their links. *)
LEMMA InsertKeeps ==
  ASSUME ListInv, NEW n \in FreshNodes, NEW node \in Range(listMeant), ListInsertBefore(n, node)
  PROVE  ListInv'
<1> DEFINE b == listMeant
           c == listMeant'
<1>1. n \in ListNodes /\ \A i \in 1..Len(b) : b[i] # n
  BY DEF FreshNodes, Range, ListInv, ListType
<1>2. b \in Seq(ListNodes) /\ Len(b) \in Nat /\ \A i \in 1..Len(b) : b[i] \in ListNodes
  BY DEF ListInv, ListType
<1>3. PICK k \in 1..Len(b) : PlaceIn(node, b) = k /\ b[k] = node
  BY NodeAt
<1>4. PICK p : p = IF k = 1 THEN Null ELSE b[k - 1]
  OBVIOUS
<1>5. listPrev[node] = p
  BY <1>3, <1>4 DEF ListInv, ListLinked
<1>6. c \in Seq(ListNodes) /\ IsInsert(b, c, k, n)
  BY <1>1, <1>2, <1>3, InsertedAt DEF ListInsertBefore
<1>7. Len(c) = Len(b) + 1 /\ \A i \in 1..Len(c) : c[i] = IF i < k THEN b[i] ELSE IF i = k THEN n ELSE b[i - 1]
  BY <1>6 DEF IsInsert
<1>8. /\ listHead' = IF p = Null THEN n ELSE listHead
      /\ listNext' = [m \in ListNodes |-> IF m = n THEN node ELSE IF p # Null /\ m = p THEN n ELSE listNext[m]]
      /\ listPrev' = [listPrev EXCEPT ![n] = p, ![node] = n]
      /\ listNum' = listNum + 1 /\ listTail' = listTail
  BY <1>5 DEF ListInsertBefore, PrevInserted
<1>9. /\ node \in ListNodes /\ node # n /\ (k = 1 => p = Null)
      /\ k > 1 => k - 1 \in 1..Len(b) /\ p = b[k - 1] /\ p \in ListNodes /\ p # Null /\ p # n /\ p # node
  BY <1>1, <1>2, <1>3, <1>4, NullNoNode DEF ListInv, ListType, Once
<1>10. /\ listNext'[n] = node /\ (k > 1 => listNext'[p] = n) /\ listPrev'[n] = p /\ listPrev'[node] = n
       /\ \A m \in ListNodes \ {n, p} : listNext'[m] = listNext[m]
       /\ \A m \in ListNodes \ {n, node} : listPrev'[m] = listPrev[m]
  BY <1>1, <1>8, <1>9 DEF ListInv, ListType
<1>11. Once(c)
  <2>1. \A i, j \in 1..Len(b) : b[i] = b[j] => i = j
    BY DEF ListInv, ListType, Once
  <2> SUFFICES ASSUME NEW i \in 1..Len(c), NEW j \in 1..Len(c), c[i] = c[j] PROVE i = j
    BY DEF Once
  <2>2. CASE i = k
    <3>1. j = k \/ (j < k /\ j \in 1..Len(b)) \/ (j > k /\ j - 1 \in 1..Len(b))
      BY <1>2, <1>3, <1>7
    <3> QED BY <1>1, <1>7, <2>2, <3>1
  <2>3. CASE j = k
    <3>1. i = k \/ (i < k /\ i \in 1..Len(b)) \/ (i > k /\ i - 1 \in 1..Len(b))
      BY <1>2, <1>3, <1>7
    <3> QED BY <1>1, <1>7, <2>3, <3>1
  <2>4. CASE i # k /\ j # k
    <3>1. PICK x \in 1..Len(b) : c[i] = b[x] /\ x = IF i < k THEN i ELSE i - 1
      BY <1>2, <1>3, <1>7, <2>4
    <3>2. PICK y \in 1..Len(b) : c[j] = b[y] /\ y = IF j < k THEN j ELSE j - 1
      BY <1>2, <1>3, <1>7, <2>4
    <3>3. x = y
      BY <2>1, <3>1, <3>2
    <3> QED BY <1>3, <2>4, <3>1, <3>2, <3>3
  <2> QED BY <2>2, <2>3, <2>4
<1>12. ListType'
  <2>1. listNext' \in [ListNodes -> ListNodes \cup {Null}]
    BY <1>1, <1>8, <1>9 DEF ListInv, ListType
  <2>2. listPrev' \in [ListNodes -> ListNodes \cup {Null}]
    BY <1>1, <1>4, <1>8, <1>9 DEF ListInv, ListType
  <2> QED BY <1>6, <1>11, <2>1, <2>2 DEF ListType
<1>13. \A i \in 1..Len(b) : listNext[b[i]] = IF i = Len(b) THEN Null ELSE b[i + 1]
  BY DEF ListInv, ListLinked, Visits
<1>14. \A i \in 1..Len(b) : listPrev[b[i]] = IF i = 1 THEN Null ELSE b[i - 1]
  BY DEF ListInv, ListLinked
<1>15. ASSUME NEW i \in 1..Len(c)
       PROVE  listNext'[c[i]] = IF i = Len(c) THEN Null ELSE c[i + 1]
  <2>1. CASE i = k
    <3>1. c[i] = n /\ i # Len(c) /\ i + 1 \in 1..Len(c) /\ c[i + 1] = b[k]
      BY <1>2, <1>3, <1>7, <2>1
    <3> QED BY <1>3, <1>10, <3>1
  <2>2. CASE i = k - 1
    <3>1. c[i] = p /\ k > 1 /\ i # Len(c) /\ i + 1 \in 1..Len(c) /\ c[i + 1] = n
      BY <1>2, <1>3, <1>7, <1>9, <2>2
    <3> QED BY <1>10, <3>1
  <2>3. CASE i < k - 1
    <3>1. i \in 1..Len(b) /\ i + 1 \in 1..Len(b) /\ i # Len(b) /\ c[i] = b[i] /\ c[i + 1] = b[i + 1] /\ i # Len(c)
      BY <1>2, <1>3, <1>7, <2>3
    <3>2. b[i] \in ListNodes \ {n, p}
      <4>1. k > 1 /\ i # k - 1
        BY <1>3, <2>3
      <4> QED BY <1>1, <1>2, <1>9, <3>1, <4>1 DEF ListInv, ListType, Once
    <3> QED BY <1>10, <1>13, <3>1, <3>2
  <2>4. CASE i > k
    <3>1. PICK j \in 1..Len(b) : j = i - 1 /\ j >= k /\ c[i] = b[j]
      BY <1>2, <1>3, <1>7, <2>4
    <3>2. b[j] \in ListNodes \ {n, p}
      <4>1. b[j] # p
        <5>1. CASE k = 1
          BY <1>2, <1>9, <5>1, NullNoNode
        <5>2. CASE k > 1
          BY <1>9, <3>1, <5>2 DEF ListInv, ListType, Once
        <5> QED BY <1>3, <5>1, <5>2
      <4> QED BY <1>1, <1>2, <4>1
    <3>3. i = Len(c) <=> j = Len(b)
      BY <1>2, <1>7, <3>1
    <3>4. i # Len(c) => i + 1 \in 1..Len(c) /\ c[i + 1] = b[j + 1]
      BY <1>2, <1>3, <1>7, <2>4, <3>1
    <3> QED BY <1>10, <1>13, <3>1, <3>2, <3>3, <3>4
  <2> QED BY <1>3, <2>1, <2>2, <2>3, <2>4
<1>16. ASSUME NEW i \in 1..Len(c)
       PROVE  listPrev'[c[i]] = IF i = 1 THEN Null ELSE c[i - 1]
  <2>1. CASE i = k
    <3>1. c[i] = n /\ (k > 1 => i - 1 \in 1..Len(c) /\ c[i - 1] = b[k - 1])
      BY <1>2, <1>3, <1>7, <2>1
    <3> QED BY <1>3, <1>4, <1>10, <2>1, <3>1
  <2>2. CASE i = k + 1
    <3>1. c[i] = node /\ i # 1 /\ i - 1 = k /\ k \in 1..Len(c) /\ c[k] = n
      BY <1>2, <1>3, <1>7, <2>2
    <3> QED BY <1>10, <3>1
  <2>3. CASE i < k
    <3>1. i \in 1..Len(b) /\ c[i] = b[i] /\ (i # 1 => c[i - 1] = b[i - 1])
      BY <1>2, <1>3, <1>7, <2>3
    <3>2. b[i] \in ListNodes \ {n, node}
      BY <1>1, <1>2, <1>3, <2>3, <3>1 DEF ListInv, ListType, Once
    <3> QED BY <1>10, <1>14, <3>1, <3>2
  <2>4. CASE i > k + 1
    <3>0. c[i] = b[i - 1] /\ i - 1 \in 1..Len(b) /\ i - 1 > k /\ i # 1 /\ i - 1 # 1
      BY <1>2, <1>3, <1>7, <2>4
    <3>1. PICK j \in 1..Len(b) : j = i - 1 /\ j > k /\ c[i] = b[j] /\ c[i - 1] = b[j - 1] /\ i # 1 /\ j # 1
      <4>1. i - 1 \in 1..Len(c) /\ ~(i - 1 < k) /\ i - 1 # k
        BY <1>2, <1>7, <3>0
      <4> QED BY <1>7, <3>0, <4>1
    <3>2. b[j] \in ListNodes \ {n, node}
      BY <1>1, <1>2, <1>3, <3>1 DEF ListInv, ListType, Once
    <3> QED BY <1>10, <1>14, <3>1, <3>2
  <2> QED BY <1>3, <2>1, <2>2, <2>3, <2>4
<1>17. /\ c # <<>> /\ b # <<>> /\ c[Len(c)] = b[Len(b)] /\ (k = 1 => c[1] = n) /\ (k > 1 => c[1] = b[1])
  BY <1>2, <1>3, <1>7
<1>18. listHead' = c[1] /\ listTail' = c[Len(c)] /\ listNum' = Len(c)
  <2>1. listHead = b[1] /\ listTail = b[Len(b)] /\ listNum = Len(b)
    BY <1>17 DEF ListInv, ListLinked, Visits
  <2> QED BY <1>3, <1>7, <1>8, <1>9, <1>17, <2>1
<1>19. Visits(listMeant)'
  BY <1>15, <1>17, <1>18 DEF Visits
<1> QED BY <1>12, <1>16, <1>17, <1>18, <1>19 DEF ListInv, ListLinked

(* list_del: the node before and the node behind are joined.                *)
LEMMA DelKeeps ==
  ASSUME ListInv, NEW node \in Range(listMeant), ListDel(node)
  PROVE  ListInv'
<1> DEFINE b == listMeant
           c == listMeant'
<1>1. b \in Seq(ListNodes) /\ Len(b) \in Nat /\ \A i \in 1..Len(b) : b[i] \in ListNodes
  BY DEF ListInv, ListType
<1>2. PICK k \in 1..Len(b) : PlaceIn(node, b) = k /\ b[k] = node
  BY NodeAt
<1>3. PICK p, x : p = (IF k = 1 THEN Null ELSE b[k - 1]) /\ x = (IF k = Len(b) THEN Null ELSE b[k + 1])
  OBVIOUS
<1>4. listPrev[node] = p /\ listNext[node] = x
  BY <1>2, <1>3 DEF ListInv, ListLinked, Visits
<1>5. c \in Seq(ListNodes) /\ IsRemoval(b, c, k) /\ Once(c)
  <2>1. c = Without(node, b) /\ Without(node, b) = RemoveAt(b, k)
    BY <1>2 DEF ListDel, Without
  <2>2. Once(b)
    BY DEF ListInv, ListType
  <2> QED BY <1>1, <1>2, <2>1, <2>2, RemovedAt, RemovalOnce
<1>6. Len(c) = Len(b) - 1 /\ \A i \in 1..Len(c) : c[i] = IF i < k THEN b[i] ELSE b[i + 1]
  BY <1>5 DEF IsRemoval
<1>7. /\ listHead' = IF p = Null THEN x ELSE listHead
      /\ listTail' = IF x = Null THEN p ELSE listTail
      /\ listNext' = [m \in ListNodes |-> IF p # Null /\ m = p THEN x ELSE listNext[m]]
      /\ listPrev' = [m \in ListNodes |-> IF x # Null /\ m = x THEN p ELSE listPrev[m]]
      /\ listNum' = listNum - 1
  BY <1>4 DEF ListDel
<1>8. /\ (k = 1 => p = Null) /\ (k = Len(b) => x = Null)
      /\ k > 1 => k - 1 \in 1..Len(b) /\ p = b[k - 1] /\ p \in ListNodes /\ p # Null
      /\ k < Len(b) => k + 1 \in 1..Len(b) /\ x = b[k + 1] /\ x \in ListNodes /\ x # Null
  BY <1>1, <1>2, <1>3, NullNoNode
<1>9. /\ (k > 1 => listNext'[p] = x) /\ (k < Len(b) => listPrev'[x] = p)
      /\ \A m \in ListNodes \ {p} : listNext'[m] = listNext[m]
      /\ \A m \in ListNodes \ {x} : listPrev'[m] = listPrev[m]
  BY <1>7, <1>8
<1>10. ListType'
  <2>1. p \in ListNodes \cup {Null} /\ x \in ListNodes \cup {Null}
    BY <1>2, <1>8
  <2> QED BY <1>5, <1>7, <2>1 DEF ListInv, ListType
<1>11. \A i \in 1..Len(b) : listNext[b[i]] = IF i = Len(b) THEN Null ELSE b[i + 1]
  BY DEF ListInv, ListLinked, Visits
<1>12. \A i \in 1..Len(b) : listPrev[b[i]] = IF i = 1 THEN Null ELSE b[i - 1]
  BY DEF ListInv, ListLinked
<1>13. ASSUME NEW i \in 1..Len(c)
       PROVE  listNext'[c[i]] = IF i = Len(c) THEN Null ELSE c[i + 1]
  <2>1. CASE i = k - 1
    <3>1. c[i] = p /\ k > 1 /\ (i = Len(c) <=> k = Len(b))
      BY <1>1, <1>2, <1>6, <1>8, <2>1
    <3>2. i # Len(c) => i + 1 \in 1..Len(c) /\ c[i + 1] = b[k + 1]
      BY <1>1, <1>2, <1>6, <2>1
    <3> QED BY <1>3, <1>9, <3>1, <3>2
  <2>2. CASE i < k - 1
    <3>1. i \in 1..Len(b) /\ i # Len(b) /\ i # Len(c) /\ c[i] = b[i] /\ c[i + 1] = b[i + 1]
      BY <1>1, <1>2, <1>6, <2>2
    <3>2. b[i] \in ListNodes \ {p}
      <4>1. k > 1 /\ i # k - 1
        BY <1>2, <2>2
      <4> QED BY <1>1, <1>8, <3>1, <4>1 DEF ListInv, ListType, Once
    <3> QED BY <1>9, <1>11, <3>1, <3>2
  <2>3. CASE i >= k
    <3>1. PICK j \in 1..Len(b) : j = i + 1 /\ j > k /\ c[i] = b[j] /\ (i = Len(c) <=> j = Len(b))
      BY <1>1, <1>2, <1>6, <2>3
    <3>2. i # Len(c) => i + 1 \in 1..Len(c) /\ c[i + 1] = b[j + 1]
      BY <1>1, <1>2, <1>6, <2>3, <3>1
    <3>3. b[j] \in ListNodes \ {p}
      <4>1. b[j] # p
        <5>1. CASE k = 1
          BY <1>1, <1>8, <5>1, NullNoNode
        <5>2. CASE k > 1
          BY <1>8, <3>1, <5>2 DEF ListInv, ListType, Once
        <5> QED BY <1>2, <5>1, <5>2
      <4> QED BY <1>1, <4>1
    <3> QED BY <1>9, <1>11, <3>1, <3>2, <3>3
  <2> QED BY <1>2, <2>1, <2>2, <2>3
<1>14. ASSUME NEW i \in 1..Len(c)
       PROVE  listPrev'[c[i]] = IF i = 1 THEN Null ELSE c[i - 1]
  <2>1. CASE i = k
    <3>1. c[i] = b[k + 1] /\ k < Len(b) /\ (i # 1 => i - 1 \in 1..Len(c) /\ c[i - 1] = b[k - 1])
      BY <1>1, <1>2, <1>6, <2>1
    <3> QED BY <1>2, <1>3, <1>8, <1>9, <2>1, <3>1
  <2>2. CASE i < k
    <3>1. i \in 1..Len(b) /\ c[i] = b[i] /\ (i # 1 => c[i - 1] = b[i - 1])
      BY <1>1, <1>2, <1>6, <2>2
    <3>2. b[i] \in ListNodes \ {x}
      <4>1. b[i] # x
        <5>1. CASE k = Len(b)
          BY <1>1, <1>8, <3>1, <5>1, NullNoNode
        <5>2. CASE k < Len(b)
          BY <1>8, <2>2, <3>1, <5>2 DEF ListInv, ListType, Once
        <5> QED BY <1>1, <1>2, <5>1, <5>2
      <4> QED BY <1>1, <3>1, <4>1
    <3> QED BY <1>9, <1>12, <3>1, <3>2
  <2>3. CASE i > k
    <3>1. PICK j \in 1..Len(b) : j = i + 1 /\ j > k + 1 /\ c[i] = b[j] /\ c[i - 1] = b[j - 1] /\ i # 1 /\ j # 1
      BY <1>1, <1>2, <1>6, <2>3
    <3>2. b[j] \in ListNodes \ {x}
      <4>1. k < Len(b)
        BY <1>1, <3>1
      <4> QED BY <1>1, <1>8, <3>1, <4>1 DEF ListInv, ListType, Once
    <3> QED BY <1>9, <1>12, <3>1, <3>2
  <2> QED BY <1>2, <2>1, <2>2, <2>3
<1>15. listHead = b[1] /\ listTail = b[Len(b)] /\ listNum = Len(b) /\ b # <<>>
  BY <1>2 DEF ListInv, ListLinked, Visits
<1>16. listNum' = Len(c)
  BY <1>6, <1>7, <1>15
<1>17. listHead' = IF c = <<>> THEN Null ELSE c[1]
  <2>1. CASE k = 1
    <3>1. listHead' = x /\ (c = <<>> <=> k = Len(b)) /\ (c # <<>> => c[1] = b[k + 1])
      BY <1>1, <1>2, <1>5, <1>6, <1>7, <1>8, <2>1
    <3> QED BY <1>3, <3>1
  <2>2. CASE k > 1
    <3>1. listHead' = listHead /\ c # <<>> /\ c[1] = b[1]
      BY <1>1, <1>6, <1>7, <1>8, <2>2
    <3> QED BY <1>15, <3>1
  <2> QED BY <1>2, <2>1, <2>2
<1>18. listTail' = IF c = <<>> THEN Null ELSE c[Len(c)]
  <2>1. CASE k = Len(b)
    <3>1. listTail' = p /\ (c = <<>> <=> k = 1) /\ (c # <<>> => c[Len(c)] = b[k - 1])
      BY <1>1, <1>2, <1>5, <1>6, <1>7, <1>8, <2>1
    <3> QED BY <1>3, <3>1
  <2>2. CASE k < Len(b)
    <3>1. listTail' = listTail /\ c # <<>> /\ c[Len(c)] = b[Len(b)]
      BY <1>1, <1>2, <1>6, <1>7, <1>8, <2>2
    <3> QED BY <1>15, <3>1
  <2> QED BY <1>2, <2>1, <2>2, <1>1
<1>19. Visits(listMeant)'
  BY <1>13, <1>17 DEF Visits
<1> QED BY <1>10, <1>14, <1>16, <1>18, <1>19 DEF ListInv, ListLinked

-----------------------------------------------------------------------------
(* The invariant of a bitmap: the bits that are set are those that were given out,
   and all of them lie in the whole words, which are all that is searched.  *)
WholeWords == (BmapSize \div WordBits) * WordBits

BmapInv ==
    /\ bmapHeld \in Seq(Nat) /\ Once(bmapHeld) /\ Range(bmapHeld) = bmapBits
    /\ bmapBits \subseteq 0..(WholeWords - 1)
    /\ bmapLast \in Nat /\ bmapLast <= WholeWords
    /\ bmapFailed => bmapBits = 0..(WholeWords - 1)

(* The word of a number begins at or before it.                             *)
LEMMA WordStart ==
  ASSUME NEW x \in Nat
  PROVE  (x \div WordBits) * WordBits \in Nat /\ (x \div WordBits) * WordBits <= x
<1>1. x = WordBits * (x \div WordBits) + (x % WordBits)
  BY ListsAssumption, Z3
<1>2. x % WordBits \in Nat /\ x \div WordBits \in Nat
  BY ListsAssumption, Z3
<1>3. WordBits * (x \div WordBits) = (x \div WordBits) * WordBits /\ (x \div WordBits) * WordBits \in Nat
  BY <1>2, ListsAssumption, Z3
<1> QED BY <1>1, <1>2, <1>3

LEMMA ZeroWord == (0 \div WordBits) * WordBits = 0
<1>1. 0 \div WordBits = 0
  BY ListsAssumption, Z3
<1> QED BY <1>1, ListsAssumption

(* The two scans of bmap_get_free, from the word of the last bit on and up to it,
   see every whole word.                                                    *)
LEMMA ScansCover ==
  ASSUME BmapInv
  PROVE  /\ ScanRange(bmapLast, BmapSize) \cup ScanRange(0, bmapLast) = 0..(WholeWords - 1) \ bmapBits
<1>1. PICK w : w = (bmapLast \div WordBits) * WordBits
  OBVIOUS
<1>2. w \in Nat /\ w <= bmapLast /\ bmapLast <= WholeWords
  BY <1>1, WordStart DEF BmapInv
<1>3. WholeWords \in Nat
  BY WordStart, ListsAssumption DEF WholeWords
<1>4. ScanRange(bmapLast, BmapSize) = w..(WholeWords - 1) \ bmapBits
  BY <1>1 DEF ScanRange, WholeWords
<1>5. ScanRange(0, bmapLast) = 0..(w - 1) \ bmapBits
  BY <1>1, ZeroWord DEF ScanRange
<1>6. \A b : b \in w..(WholeWords - 1) \/ b \in 0..(w - 1) <=> b \in 0..(WholeWords - 1)
  <2>1. PICK h : h = WholeWords
    OBVIOUS
  <2>2. w \in Nat /\ h \in Nat /\ w <= h
    <3>1. bmapLast \in Nat
      BY DEF BmapInv
    <3> QED BY <1>2, <1>3, <2>1, <3>1
  <2>3. \A b : b \in w..(h - 1) \/ b \in 0..(w - 1) <=> b \in 0..(h - 1)
    BY <2>2
  <2> QED BY <2>1, <2>3
<1> QED BY <1>4, <1>5, <1>6

(* So what it finds is free, and it fails only when nothing is.             *)
LEMMA FreeIsFree ==
  ASSUME BmapInv
  PROVE  /\ FreeBits \subseteq 0..(WholeWords - 1) \ bmapBits
         /\ FreeBits = {} => bmapBits = 0..(WholeWords - 1)
<1>1. FreeBits \subseteq 0..(WholeWords - 1) \ bmapBits
  BY ScansCover DEF FreeBits
<1>2. FreeBits = {} => 0..(WholeWords - 1) \ bmapBits = {}
  BY ScansCover DEF FreeBits
<1> QED BY <1>1, <1>2 DEF BmapInv

LEMMA GetFreeKeeps == BmapInv /\ BmapGetFree => BmapInv'
<1> SUFFICES ASSUME BmapInv, BmapGetFree PROVE BmapInv'
  OBVIOUS
<1>1. CASE FreeBits = {}
  <2>1. bmapFailed' /\ UNCHANGED <<bmapBits, bmapLast, bmapHeld>> /\ bmapBits = 0..(WholeWords - 1)
    BY <1>1, FreeIsFree DEF BmapGetFree
  <2> QED BY <2>1 DEF BmapInv
<1>2. CASE FreeBits # {}
  <2>1. PICK b : b = Min(FreeBits)
    OBVIOUS
  <2>2. WholeWords \in Nat
    BY WordStart, ListsAssumption DEF WholeWords
  <2>3. FreeBits \subseteq 0..(WholeWords - 1) \ bmapBits /\ FreeBits \in SUBSET Nat
    BY <2>2, FreeIsFree
  <2>4. b \in FreeBits
    <3>1. \E n \in FreeBits : \A m \in FreeBits : n <= m
      BY <1>2, <2>3, LeastExists
    <3> QED BY <2>1, <3>1 DEF Min
  <2>5. b \in 0..(WholeWords - 1) /\ b \notin bmapBits /\ b \in Nat /\ b <= WholeWords
    BY <2>2, <2>3, <2>4
  <2>6. /\ bmapFailed' = FALSE /\ bmapBits' = bmapBits \cup {b} /\ bmapLast' = b
        /\ bmapHeld' = Append(bmapHeld, b)
    BY <1>2, <2>1 DEF BmapGetFree
  <2>7. bmapHeld \in Seq(Nat) /\ Once(bmapHeld) /\ Range(bmapHeld) = bmapBits /\ bmapBits \subseteq 0..(WholeWords - 1)
    BY DEF BmapInv
  <2>8. /\ bmapHeld' \in Seq(Nat) /\ Len(bmapHeld') = Len(bmapHeld) + 1 /\ Len(bmapHeld) \in Nat
        /\ DOMAIN bmapHeld' = 1..Len(bmapHeld') /\ DOMAIN bmapHeld = 1..Len(bmapHeld)
        /\ \A i \in 1..Len(bmapHeld') : bmapHeld'[i] = IF i = Len(bmapHeld') THEN b ELSE bmapHeld[i]
    BY <2>5, <2>6, <2>7
  <2>9. \A i \in 1..Len(bmapHeld) : bmapHeld[i] # b
    BY <2>5, <2>7, <2>8 DEF Range
  <2>10. Once(bmapHeld')
    BY <2>7, <2>8, <2>9 DEF Once
  <2>11. Range(bmapHeld') = Range(bmapHeld) \cup {b}
    <3>1. \A i \in 1..Len(bmapHeld) : i \in 1..Len(bmapHeld') /\ bmapHeld'[i] = bmapHeld[i]
      BY <2>8
    <3>2. Len(bmapHeld') \in 1..Len(bmapHeld') /\ bmapHeld'[Len(bmapHeld')] = b
      BY <2>8
    <3>3. Range(bmapHeld) \cup {b} \subseteq Range(bmapHeld')
      BY <2>8, <3>1, <3>2 DEF Range
    <3>4. \A i \in 1..Len(bmapHeld') : i = Len(bmapHeld') \/ i \in 1..Len(bmapHeld)
      BY <2>8
    <3>5. Range(bmapHeld') \subseteq Range(bmapHeld) \cup {b}
      BY <2>8, <3>4 DEF Range
    <3> QED BY <3>3, <3>5
  <2> QED BY <2>5, <2>6, <2>7, <2>8, <2>10, <2>11 DEF BmapInv
<1> QED BY <1>1, <1>2

LEMMA FreeKeeps ==
  ASSUME BmapInv, NEW b \in Range(bmapHeld), BmapFree(b)
  PROVE  BmapInv'
<1>1. /\ bmapHeld \in Seq(Nat) /\ Once(bmapHeld) /\ Range(bmapHeld) = bmapBits /\ bmapBits \subseteq 0..(WholeWords - 1)
      /\ WholeWords \in Nat
  BY WordStart, ListsAssumption DEF BmapInv, WholeWords
<1>2. /\ bmapBits' = bmapBits \ {b} /\ bmapLast' = b /\ bmapHeld' = Without(b, bmapHeld) /\ bmapFailed' = FALSE
  BY DEF BmapFree
<1>3. bmapHeld' \in Seq(Nat) /\ Once(bmapHeld') /\ Range(bmapHeld') = Range(bmapHeld) \ {b}
  BY <1>1, <1>2, RemovalOnce
<1>4. b \in Nat /\ b <= WholeWords
  <2>1. b \in 0..(WholeWords - 1)
    BY <1>1, Zenon
  <2> QED BY <1>1, <2>1
<1> QED BY <1>1, <1>2, <1>3, <1>4 DEF BmapInv

-----------------------------------------------------------------------------
LEMMA ListsInitInv == ListsInit => ListInv /\ BmapInv
<1> SUFFICES ASSUME ListsInit PROVE ListInv /\ BmapInv
  OBVIOUS
<1>1. ListInv
  BY DEF ListsInit, ListInv, ListType, ListLinked, Visits, Once
<1>2. WholeWords \in Nat
  BY WordStart, ListsAssumption DEF WholeWords
<1>3. BmapInv
  BY <1>2 DEF ListsInit, BmapInv, Once, Range
<1> QED BY <1>1, <1>3

LEMMA ListsStep == ListInv /\ BmapInv /\ [ListsNext]_listVars => (ListInv /\ BmapInv)'
<1> SUFFICES ASSUME ListInv, BmapInv, [ListsNext]_listVars PROVE ListInv' /\ BmapInv'
  OBVIOUS
<1>1. ASSUME UNCHANGED lkVars PROVE ListInv'
  BY <1>1 DEF lkVars, ListInv, ListType, ListLinked, Visits
<1>2. ASSUME UNCHANGED bmapVars PROVE BmapInv'
  BY <1>2 DEF bmapVars, BmapInv
<1>3. ASSUME NEW n \in FreshNodes, ListAdd(n) PROVE ListInv'
  BY <1>3, AddKeeps
<1>4. ASSUME NEW n \in FreshNodes, NEW node \in Range(listMeant), ListInsertBefore(n, node) PROVE ListInv'
  BY <1>4, InsertKeeps
<1>5. ASSUME NEW node \in Range(listMeant), ListDel(node) PROVE ListInv'
  BY <1>5, DelKeeps
<1>6. ASSUME ListClose PROVE ListInv'
  BY <1>6 DEF ListClose, ListInv, ListType, ListLinked, Visits, Once
<1>7. CASE BmapGetFree
  BY <1>1, <1>7, GetFreeKeeps DEF BmapGetFree
<1>8. ASSUME NEW b \in Range(bmapHeld), BmapFree(b) PROVE ListInv' /\ BmapInv'
  BY <1>1, <1>8, FreeKeeps DEF BmapFree
<1>9. CASE UNCHANGED listVars
  BY <1>1, <1>2, <1>9 DEF listVars
<1> QED BY <1>2, <1>3, <1>4, <1>5, <1>6, <1>7, <1>8, <1>9 DEF ListsNext

(* After any sequence of list_add, list_insert_before, list_del and list_close the
   links of list.c give, both ways, the nodes that are meant; bmap.c never gives
   a bit that is held, and finds one as long as the whole words have one.   *)
THEOREM ListsAlwaysLinked == ListsSpec => []ListsSafety
<1>1. ListInv /\ BmapInv => ListsSafety
  <2> SUFFICES ASSUME ListInv, BmapInv PROVE ListsSafety
    OBVIOUS
  <2>1. IsInjective(bmapHeld)
    BY DEF BmapInv, Once, IsInjective
  <2> QED BY <2>1 DEF ListInv, BmapInv, ListsSafety, BitsGivenOnce, WholeWords
<1> QED BY <1>1, ListsInitInv, ListsStep, PTL DEF ListsSpec

-----------------------------------------------------------------------------
(* The buffers of the disk.                                                 *)
USE HdAssumption DEF HdBufs

LEMMA FirstBufFound ==
  ASSUME NEW T \in SUBSET HdBufs, T # {} PROVE FirstBuf(T) \in T
<1>1. T \in SUBSET Nat
  OBVIOUS
<1>2. \E n \in T : \A m \in T : n <= m
  BY <1>1, LeastExists
<1> QED BY <1>2 DEF FirstBuf

-----------------------------------------------------------------------------
(* Locks and reference counts.  Exclusive use needs the converse, that a lock
   is held by a task that will release it; that the counts are right needs
   that nobody's buffer is claimed, hence that a free buffer always exists. *)
HdHolders(n) == {t \in DiskTasks : hdb[t] = n /\ hdPc[t] \in HdHolding}

(* Everything the type invariant says, but the bound on the counts, which
   follows from HdRefsMatch.                                                *)
HdShape ==
    /\ hdDisk \in [DiskBlocks -> DiskValues]
    /\ num_items \in 0..MAX_HD_BUFS
    /\ qlock \in DiskTasks \cup {NoTask}
    /\ block_no \in [HdBufs -> DiskBlocks]
    /\ is_dirty \in [HdBufs -> BOOLEAN]
    /\ hdRefs \in [HdBufs -> Nat]
    /\ hdLock \in [HdBufs -> DiskTasks \cup {NoTask}]
    /\ hdBuf \in [HdBufs -> DiskValues]
    /\ hdPc \in [DiskTasks -> HdLocations]
    /\ hdWant \in [DiskTasks -> DiskBlocks]
    /\ hdb \in [DiskTasks -> 0..MAX_HD_BUFS]
    /\ hdCount \in [DiskTasks -> Nat]
    /\ hdLatest \in [DiskBlocks -> DiskValues]
    /\ hdRaced \in BOOLEAN
    /\ hdTorn \in BOOLEAN

HdPlaces ==
    \A t \in DiskTasks : hdPc[t] \notin {"out", "miss", "claim"} => hdb[t] \in HdInList

HdQueueLocked ==
    \A t \in DiskTasks :
        hdPc[t] \in {"claim", "claimed", "drop", "flush", "unlock"} <=> qlock = t

HdLockOwned ==
    \A n \in HdBufs : hdLock[n] # NoTask =>
        hdPc[hdLock[n]] \in HdOwning /\ hdb[hdLock[n]] = n

(* A dirty buffer is referenced, or being written back.                     *)
HdDirtyHeld ==
    \A n \in HdBufs : is_dirty[n] =>
        hdRefs[n] > 0 \/ \E t \in DiskTasks : hdPc[t] = "flush" /\ hdb[t] = n

(* The buffer that a task has chosen stays free until the task resets it.   *)
HdChosen ==
    \A t \in DiskTasks : hdPc[t] = "claim" =>
        /\ hdb[t] \in HdBufs
        /\ hdRefs[hdb[t]] = 0 /\ ~is_dirty[hdb[t]] /\ hdLock[hdb[t]] = NoTask
        /\ hdb[t] \in HdInList \/ hdb[t] = num_items + 1

(* A count that was read is still the count.                                *)
HdCounts ==
    \A t \in DiskTasks :
        IF hdPc[t] \in {"incr", "drop"} THEN hdCount[t] = hdRefs[hdb[t]] ELSE hdCount[t] = 0

HdInv ==
    /\ HdShape /\ HdPlaces /\ HdQueueLocked
    /\ HdExclusive /\ HdLockOwned /\ HdRefsMatch /\ HdDirtyHeld
    /\ HdChosen /\ HdCounts

LEMMA HoldersFinite ==
  /\ \A n : IsFiniteSet(HdHolders(n)) /\ Cardinality(HdHolders(n)) \in Nat
  /\ \A n : Cardinality(HdHolders(n)) <= Cardinality(DiskTasks)
  /\ Cardinality(DiskTasks) \in Nat
<1>1. ASSUME NEW n
      PROVE  /\ IsFiniteSet(HdHolders(n)) /\ Cardinality(HdHolders(n)) \in Nat
             /\ Cardinality(HdHolders(n)) <= Cardinality(DiskTasks)
  <2>1. HdHolders(n) \in SUBSET DiskTasks
    BY DEF HdHolders
  <2>2. /\ IsFiniteSet(HdHolders(n))
        /\ Cardinality(HdHolders(n)) <= Cardinality(DiskTasks)
    BY <2>1, FS_Subset
  <2> QED BY <2>2, FS_CardinalityType
<1> QED BY <1>1, FS_CardinalityType

(* A buffer has fewer users and waiters than there are tasks, if one is not. *)
LEMMA HoldersRoom ==
  ASSUME NEW t \in DiskTasks, NEW n, t \notin HdHolders(n)
  PROVE  Cardinality(HdHolders(n)) + 1 <= Cardinality(DiskTasks)
<1>1. HdHolders(n) \in SUBSET (DiskTasks \ {t})
  BY DEF HdHolders
<1>2. IsFiniteSet(DiskTasks \ {t}) /\ Cardinality(DiskTasks \ {t}) = Cardinality(DiskTasks) - 1
  BY FS_RemoveElement
<1>3. Cardinality(HdHolders(n)) <= Cardinality(DiskTasks \ {t})
  BY <1>1, <1>2, FS_Subset
<1> QED BY <1>2, <1>3, HoldersFinite

LEMMA InvTypeOK == HdInv => HdTypeOK
<1> SUFFICES ASSUME HdInv PROVE HdTypeOK
  OBVIOUS
<1>1. \A n \in HdBufs : hdRefs[n] = Cardinality(HdHolders(n))
  BY DEF HdInv, HdRefsMatch, HdHolders, HdHolding
<1>2. \A n \in HdBufs : hdRefs[n] \in 0..Cardinality(DiskTasks)
  BY <1>1, HoldersFinite
<1>3. hdRefs \in [HdBufs -> 0..Cardinality(DiskTasks)]
  BY <1>2 DEF HdInv, HdShape
<1>4. \A t \in DiskTasks : hdCount[t] \in 0..Cardinality(DiskTasks)
  <2> TAKE t \in DiskTasks
  <2>1. CASE hdPc[t] \in {"incr", "drop"}
    <3>1. hdb[t] \in HdBufs
      <4>1. hdb[t] \in HdInList
        BY <2>1 DEF HdInv, HdPlaces
      <4> QED BY <4>1 DEF HdInv, HdShape, HdInList
    <3>2. hdCount[t] = hdRefs[hdb[t]]
      BY <2>1 DEF HdInv, HdCounts
    <3> QED BY <1>2, <3>1, <3>2
  <2>2. CASE hdPc[t] \notin {"incr", "drop"}
    BY <2>2, HoldersFinite DEF HdInv, HdCounts
  <2> QED BY <2>1, <2>2
<1>5. hdCount \in [DiskTasks -> 0..Cardinality(DiskTasks)]
  BY <1>4 DEF HdInv, HdShape
<1> QED BY <1>3, <1>5 DEF HdInv, HdShape, HdTypeOK

(* A buffer is referenced exactly while somebody holds it or waits for it.  *)
LEMMA RefsHeld ==
  ASSUME HdInv, NEW n \in HdBufs
  PROVE  /\ hdRefs[n] = Cardinality(HdHolders(n))
         /\ hdRefs[n] = 0 <=> HdHolders(n) = {}
<1>1. hdRefs[n] = Cardinality(HdHolders(n))
  BY DEF HdInv, HdRefsMatch, HdHolders, HdHolding
<1> QED BY <1>1, HoldersFinite, FS_EmptySet

(* With a buffer for every task, the search for a free buffer succeeds: the
   fallback to the last buffer of the list, in use by somebody, is not
   taken.                                                                   *)
LEMMA FreeBufExists ==
  ASSUME HdInv, Cardinality(DiskTasks) <= MAX_HD_BUFS, num_items = MAX_HD_BUFS,
         NEW t \in DiskTasks, hdPc[t] = "miss", qlock = NoTask
  PROVE  \E n \in HdBufs : HdFree(n)
<1> SUFFICES ASSUME \A n \in HdBufs : ~HdFree(n) PROVE FALSE
  OBVIOUS
<1>1. \A u \in DiskTasks : hdPc[u] \notin {"claim", "claimed", "drop", "flush", "unlock"}
  BY DEF HdInv, HdQueueLocked, HdShape
<1>2. \A n \in HdBufs : HdHolders(n) # {}
  <2> SUFFICES ASSUME NEW n \in HdBufs, HdHolders(n) = {} PROVE FALSE
    OBVIOUS
  <2>1. hdRefs[n] = 0
    BY RefsHeld
  <2>2. ~is_dirty[n]
    BY <1>1, <2>1 DEF HdInv, HdDirtyHeld
  <2>3. hdLock[n] = NoTask
    <3> SUFFICES ASSUME hdLock[n] # NoTask PROVE FALSE
      OBVIOUS
    <3>1. hdLock[n] \in DiskTasks /\ hdPc[hdLock[n]] \in HdOwning /\ hdb[hdLock[n]] = n
      BY DEF HdInv, HdShape, HdLockOwned
    <3>2. hdPc[hdLock[n]] \in HdHolding
      BY <1>1, <3>1 DEF HdOwning, HdHolding
    <3> QED BY <3>1, <3>2 DEF HdHolders
  <2> QED BY <2>1, <2>2, <2>3 DEF HdFree
<1> DEFINE Others == DiskTasks \ {t}
           f == [n \in HdBufs |-> CHOOSE u \in DiskTasks : u \in HdHolders(n)]
<1>3. \A n \in HdBufs : f[n] \in HdHolders(n)
  BY <1>2 DEF HdHolders
<1> HIDE DEF f
<1>4. \A n \in HdBufs : f[n] \in Others /\ hdb[f[n]] = n
  BY <1>3 DEF HdHolders, HdHolding
<1>5. f \in Injection(HdBufs, Others)
  <2>1. f \in [HdBufs -> Others]
    BY <1>4 DEF f
  <2> QED BY <1>4, <2>1 DEF Injection, IsInjective
<1>6. IsFiniteSet(Others) /\ Cardinality(Others) = Cardinality(DiskTasks) - 1
  BY FS_RemoveElement
<1>7. Cardinality(HdBufs) = MAX_HD_BUFS
  BY FS_Interval
<1>8. Cardinality(HdBufs) <= Cardinality(Others)
  BY <1>5, <1>6, FS_Injection
<1> QED BY <1>6, <1>7, <1>8, HoldersFinite

(* The buffer that a task claims is nobody's.                               *)
LEMMA VictimFree ==
  ASSUME HdInv, Cardinality(DiskTasks) <= MAX_HD_BUFS,
         NEW t \in DiskTasks, hdPc[t] = "miss", qlock = NoTask
  PROVE  /\ Victim \in HdBufs
         /\ \A u \in DiskTasks : hdb[u] = Victim => hdPc[u] \in {"out", "found", "incr", "miss"}
         /\ hdLock[Victim] = NoTask /\ hdRefs[Victim] = 0 /\ ~is_dirty[Victim]
         /\ Victim \in HdInList \/ Victim = num_items + 1
         /\ num_items < MAX_HD_BUFS <=> Victim \notin HdInList
<1> USE DEF HdInv, HdShape
<1>0. \A u \in DiskTasks : hdPc[u] \notin {"claim", "claimed", "drop", "flush", "unlock"}
  BY DEF HdQueueLocked
<1>1. CASE num_items < MAX_HD_BUFS
  <2>1. Victim = num_items + 1 /\ Victim \in HdBufs /\ Victim \notin HdInList
    BY <1>1 DEF Victim, HdInList
  <2> HIDE DEF HdInv
  <2>2. \A u \in DiskTasks : hdb[u] = Victim => hdPc[u] \in {"out", "miss"}
    BY <1>0, <2>1 DEF HdInv, HdPlaces
  <2>3. HdHolders(Victim) = {}
    BY <2>2 DEF HdHolders, HdHolding
  <2>4. hdRefs[Victim] = 0
    BY <2>1, <2>3, RefsHeld
  <2>5. hdLock[Victim] = NoTask
    <3> SUFFICES ASSUME hdLock[Victim] # NoTask PROVE FALSE
      OBVIOUS
    <3>1. hdLock[Victim] \in DiskTasks
      BY <2>1 DEF HdInv
    <3>2. hdPc[hdLock[Victim]] \in HdOwning /\ hdb[hdLock[Victim]] = Victim
      BY <2>1 DEF HdInv, HdLockOwned
    <3> QED BY <2>2, <3>1, <3>2 DEF HdOwning
  <2>6. ~is_dirty[Victim]
    BY <1>0, <2>1, <2>4 DEF HdInv, HdDirtyHeld
  <2> QED BY <1>1, <2>1, <2>2, <2>4, <2>5, <2>6
<1>2. CASE num_items = MAX_HD_BUFS
  <2> DEFINE Free == {n \in HdBufs : HdFree(n)}
  <2>1. Free # {}
    BY <1>2, FreeBufExists
  <2>2. Victim = FirstBuf(Free)
    BY <1>2, <2>1 DEF Victim
  <2>3. Victim \in HdBufs /\ HdFree(Victim)
    <3>1. Free \in SUBSET HdBufs
      OBVIOUS
    <3> HIDE DEF Free
    <3>2. FirstBuf(Free) \in Free
      BY <2>1, <3>1, FirstBufFound
    <3> QED BY <2>2, <3>2 DEF Free
  <2>4. Victim \in HdInList
    BY <1>2, <2>3 DEF HdInList
  <2>5. HdHolders(Victim) = {}
    BY <2>3, RefsHeld DEF HdFree
  <2>6. \A u \in DiskTasks : hdb[u] = Victim => hdPc[u] \in {"out", "found", "incr", "miss"}
    BY <1>0, <2>5 DEF HdHolders, HdHolding, HdLocations
  <2> QED BY <1>2, <2>3, <2>4, <2>6 DEF HdFree
<1> QED BY <1>1, <1>2

LEMMA HdInitInv == HdInit => HdInv
<1> SUFFICES ASSUME HdInit PROVE HdInv
  OBVIOUS
<1> USE DEF HdInit
<1>1. HdShape
  <2>1. hdDisk \in [DiskBlocks -> DiskValues] /\ hdBuf \in [HdBufs -> DiskValues]
    OBVIOUS
  <2>2. block_no \in [HdBufs -> DiskBlocks] /\ hdWant \in [DiskTasks -> DiskBlocks]
    OBVIOUS
  <2>3. hdPc \in [DiskTasks -> HdLocations]
    BY DEF HdLocations
  <2>4. is_dirty \in [HdBufs -> BOOLEAN] /\ hdRaced \in BOOLEAN /\ hdTorn \in BOOLEAN
    OBVIOUS
  <2> QED BY <2>1, <2>2, <2>3, <2>4 DEF HdShape
<1>2. HdPlaces /\ HdQueueLocked /\ HdExclusive /\ HdLockOwned /\ HdDirtyHeld /\ HdChosen /\ HdCounts
  BY DEF HdPlaces, HdQueueLocked, HdExclusive, HdOwning, HdLockOwned, HdDirtyHeld, HdChosen, HdCounts
<1>3. HdRefsMatch
  <2>1. \A n \in HdBufs : HdHolders(n) = {}
    BY DEF HdHolders, HdHolding
  <2>2. \A n \in HdBufs : Cardinality(HdHolders(n)) = 0
    BY <2>1, FS_EmptySet
  <2>3. \A n \in HdBufs : hdRefs[n] = Cardinality(HdHolders(n))
    BY <2>2
  <2> QED BY <2>3 DEF HdRefsMatch, HdHolders, HdHolding
<1> QED BY <1>1, <1>2, <1>3 DEF HdInv

(* How the holders of a buffer change when one task moves.                  *)
LEMMA HoldersMove ==
  ASSUME NEW t \in DiskTasks, NEW n,
         \A u \in DiskTasks \ {t} : hdb'[u] = hdb[u] /\ hdPc'[u] = hdPc[u]
  PROVE  /\ t \in HdHolders(n) <=> hdb[t] = n /\ hdPc[t] \in HdHolding
         /\ t \in HdHolders(n)' <=> hdb'[t] = n /\ hdPc'[t] \in HdHolding
         /\ (t \in HdHolders(n) <=> t \in HdHolders(n)') => HdHolders(n)' = HdHolders(n)
         /\ t \notin HdHolders(n) /\ t \in HdHolders(n)'
               => /\ HdHolders(n)' = HdHolders(n) \cup {t}
                  /\ Cardinality(HdHolders(n)') = Cardinality(HdHolders(n)) + 1
         /\ t \in HdHolders(n) /\ t \notin HdHolders(n)'
               => /\ HdHolders(n)' = HdHolders(n) \ {t}
                  /\ Cardinality(HdHolders(n)') = Cardinality(HdHolders(n)) - 1
<1>1. \A u \in DiskTasks : u # t => (u \in HdHolders(n) <=> u \in HdHolders(n)')
  BY DEF HdHolders
<1>2. HdHolders(n) \subseteq DiskTasks /\ HdHolders(n)' \subseteq DiskTasks
  BY DEF HdHolders
<1>3. /\ t \in HdHolders(n) <=> hdb[t] = n /\ hdPc[t] \in HdHolding
      /\ t \in HdHolders(n)' <=> hdb'[t] = n /\ hdPc'[t] \in HdHolding
  BY DEF HdHolders
<1>4. (t \in HdHolders(n) <=> t \in HdHolders(n)') => HdHolders(n)' = HdHolders(n)
  BY <1>1, <1>2
<1>5. t \notin HdHolders(n) /\ t \in HdHolders(n)' => HdHolders(n)' = HdHolders(n) \cup {t}
  BY <1>1, <1>2
<1>6. t \in HdHolders(n) /\ t \notin HdHolders(n)' => HdHolders(n)' = HdHolders(n) \ {t}
  BY <1>1, <1>2
<1>7. IsFiniteSet(HdHolders(n))
  BY HoldersFinite
<1> QED BY <1>3, <1>4, <1>5, <1>6, <1>7, FS_AddElement, FS_RemoveElement

LEMMA RefsMatchAs ==
  /\ HdRefsMatch <=> \A n \in HdBufs : hdRefs[n] = Cardinality(HdHolders(n))
  /\ HdRefsMatch' <=> \A n \in HdBufs : hdRefs'[n] = Cardinality(HdHolders(n)')
BY DEF HdRefsMatch, HdHolders, HdHolding

LEMMA BufOfTask ==
  ASSUME HdInv, NEW t \in DiskTasks, hdPc[t] \notin {"out", "miss", "claim"}
  PROVE  hdb[t] \in HdBufs /\ hdb[t] \in HdInList
<1>1. hdb[t] \in HdInList
  BY DEF HdInv, HdPlaces
<1>2. HdInList \subseteq HdBufs
  BY DEF HdInv, HdShape, HdInList
<1> QED BY <1>1, <1>2

(* Nobody has chosen a buffer that is held, or that is being given back.    *)
LEMMA ChosenApart ==
  ASSUME HdInv, NEW t \in DiskTasks, NEW u \in DiskTasks, hdPc[u] = "claim",
         hdPc[t] \in HdHolding \cup {"flush", "unlock"}
  PROVE  hdb[u] # hdb[t]
<1>1. CASE hdPc[t] \in {"flush", "unlock"}
  BY <1>1 DEF HdInv, HdQueueLocked, HdShape
<1>2. CASE hdPc[t] \in HdHolding
  <2>1. hdb[u] \in HdBufs /\ hdRefs[hdb[u]] = 0
    BY DEF HdInv, HdChosen
  <2>2. t \notin HdHolders(hdb[u])
    BY <2>1, RefsHeld
  <2> QED BY <1>2, <2>2 DEF HdHolders
<1> QED BY <1>1, <1>2

(* A step of t that changes at most t's buffer, which nobody has chosen.    *)
LEMMA ChosenKept ==
  ASSUME HdInv, NEW t \in DiskTasks, hdPc'[t] # "claim", num_items' = num_items,
         \A u \in DiskTasks \ {t} : hdb'[u] = hdb[u] /\ hdPc'[u] = hdPc[u],
         \A n \in HdBufs : n # hdb[t] =>
            hdRefs'[n] = hdRefs[n] /\ is_dirty'[n] = is_dirty[n] /\ hdLock'[n] = hdLock[n],
         \A u \in DiskTasks \ {t} : hdPc[u] = "claim" => hdb[u] # hdb[t]
  PROVE  HdChosen'
BY DEF HdInv, HdChosen, HdInList

(* A step of t that changes no count.                                       *)
LEMMA CountsKept ==
  ASSUME HdInv, NEW t \in DiskTasks, hdCount' = hdCount, hdRefs' = hdRefs,
         \A u \in DiskTasks \ {t} : hdb'[u] = hdb[u] /\ hdPc'[u] = hdPc[u],
         hdPc[t] \notin {"incr", "drop"}, hdPc'[t] \notin {"incr", "drop"}
  PROVE  HdCounts'
BY DEF HdInv, HdCounts

LEMMA LookupInv ==
  ASSUME HdInv, NEW t \in DiskTasks, NEW b \in DiskBlocks, HdLookup(t, b) PROVE HdInv'
<1> USE DEF HdInv
<1>1. /\ hdPc[t] = "out" /\ qlock = NoTask
      /\ hdPc'[t] \in {"found", "miss"}
      /\ \A u \in DiskTasks \ {t} : hdb'[u] = hdb[u] /\ hdPc'[u] = hdPc[u]
  BY DEF HdLookup, HdAt, HdGoto, HdShape
<1>2. UNCHANGED <<hdDisk, num_items, qlock, block_no, is_dirty, hdRefs, hdLock, hdBuf, hdCount, hdLatest, hdTorn>>
  BY DEF HdLookup, hdFields
<1>3. hdPc'[t] = "found" => hdb'[t] \in HdInList
  <2>1. Cached(b) \in SUBSET HdBufs /\ Cached(b) \subseteq HdInList
    BY DEF Cached, HdInList, HdShape
  <2>2. Cached(b) # {} => FirstBuf(Cached(b)) \in HdInList
    BY <2>1, FirstBufFound
  <2> QED BY <2>2 DEF HdLookup, HdGoto, HdShape
<1>4. HdShape'
  <2>1. hdb' \in [DiskTasks -> 0..MAX_HD_BUFS]
    <3>1. HdInList \subseteq 0..MAX_HD_BUFS
      BY DEF HdInList, HdShape
    <3> QED BY <1>3, <3>1 DEF HdLookup, HdGoto, HdShape
  <2>2. hdPc' \in [DiskTasks -> HdLocations] /\ hdWant' \in [DiskTasks -> DiskBlocks]
    BY DEF HdLookup, HdGoto, HdShape, HdLocations
  <2>3. hdRaced' \in BOOLEAN
    BY DEF HdLookup, HdShape
  <2> QED BY <1>2, <2>1, <2>2, <2>3 DEF HdShape
<1>5. HdPlaces'
  BY <1>1, <1>2, <1>3 DEF HdPlaces, HdInList
<1>6. HdQueueLocked' /\ HdExclusive'
  BY <1>1, <1>2 DEF HdQueueLocked, HdExclusive, HdOwning
<1>9. HdLockOwned'
  <2>1. \A n \in HdBufs : hdLock[n] # t
    BY <1>1 DEF HdLockOwned, HdOwning
  <2> QED BY <1>1, <1>2, <2>1 DEF HdLockOwned, HdShape
<1>7. HdRefsMatch'
  <2>1. \A n \in HdBufs : HdHolders(n)' = HdHolders(n)
    BY <1>1, HoldersMove DEF HdHolding
  <2> QED BY <1>2, <2>1, RefsMatchAs
<1>8. HdDirtyHeld'
  BY <1>1, <1>2 DEF HdDirtyHeld
<1>10. HdChosen' /\ HdCounts'
  <2>1. \A u \in DiskTasks : hdPc[u] # "claim"
    BY <1>1 DEF HdQueueLocked, HdShape
  <2> QED BY <1>1, <1>2, <2>1, CountsKept DEF HdChosen
<1> QED BY <1>4, <1>5, <1>6, <1>7, <1>8, <1>9, <1>10

LEMMA ReadRefsInv ==
  ASSUME HdInv, NEW t \in DiskTasks, HdReadRefs(t) PROVE HdInv'
<1> USE DEF HdInv
<1>a. hdPc[t] \notin {"out", "miss", "claim"}
  BY DEF HdReadRefs, HdAt
<1>b. hdb[t] \in HdBufs
  BY <1>a, BufOfTask
<1>1. /\ hdPc[t] = "found"
      /\ hdPc' = [hdPc EXCEPT ![t] = "incr"]
      /\ hdCount' = [hdCount EXCEPT ![t] = hdRefs[hdb[t]]]
      /\ UNCHANGED <<hdDisk, num_items, qlock, block_no, is_dirty, hdRefs, hdLock, hdBuf, hdWant, hdb,
                     hdLatest, hdRaced, hdTorn>>
  BY DEF HdReadRefs, HdAt, HdGoto, hdFields
<1>2. /\ \A u \in DiskTasks \ {t} : hdb'[u] = hdb[u] /\ hdPc'[u] = hdPc[u] /\ hdCount'[u] = hdCount[u]
      /\ hdPc'[t] = "incr" /\ hdCount'[t] = hdRefs[hdb[t]] /\ hdRefs[hdb[t]] \in Nat
  BY <1>b, <1>1 DEF HdShape
<1>3. HdShape'
  BY <1>1, <1>2 DEF HdShape, HdLocations
<1>4. HdPlaces' /\ HdQueueLocked'
  BY <1>1, <1>2 DEF HdPlaces, HdQueueLocked, HdInList
<1>5. HdExclusive' /\ HdLockOwned'
  BY <1>1, <1>2 DEF HdExclusive, HdLockOwned, HdOwning, HdShape
<1>6. HdRefsMatch'
  <2>1. \A m \in HdBufs : HdHolders(m)' = HdHolders(m)
    BY <1>1, <1>2, HoldersMove DEF HdHolding
  <2> QED BY <1>1, <2>1, RefsMatchAs
<1>7. HdDirtyHeld'
  BY <1>1, <1>2 DEF HdDirtyHeld
<1>8. HdChosen'
  BY <1>1, <1>2 DEF HdChosen, HdInList
<1>9. HdCounts'
  BY <1>1, <1>2 DEF HdCounts
<1> QED BY <1>3, <1>4, <1>5, <1>6, <1>7, <1>8, <1>9

(* The write of ref_count++: unless it tears a count, or one that it makes
   wrong is written later, the invariant holds again; the types hold anyhow.  *)
LEMMA ReferenceInv ==
  ASSUME HdInv, NEW t \in DiskTasks, HdReference(t) PROVE HdTypeOK' /\ (~hdTorn' => HdInv')
<1> USE DEF HdInv
<1>a. hdPc[t] \notin {"out", "miss", "claim"}
  BY DEF HdReference, HdAt
<1>b. hdb[t] \in HdBufs /\ hdb[t] \in HdInList
  BY <1>a, BufOfTask
<1>c. PICK n \in HdBufs : n = hdb[t]
  BY <1>b
<1>d. hdPc[t] = "incr" /\ hdCount[t] = hdRefs[n] /\ hdRefs[n] \in Nat
  BY <1>c DEF HdReference, HdAt, HdCounts, HdShape
<1>1. /\ n \in HdInList /\ n \in HdBufs
      /\ hdPc' = [hdPc EXCEPT ![t] = "wait"] /\ hdRefs' = [hdRefs EXCEPT ![n] = hdRefs[n] + 1]
      /\ hdCount' = [hdCount EXCEPT ![t] = 0]
      /\ hdTorn' = (hdTorn \/ OtherAt(t, {"incr", "drop", "claim"}))
  BY <1>b, <1>c, <1>d DEF HdReference, HdAt, HdGoto
<1>2. UNCHANGED <<hdDisk, num_items, qlock, block_no, is_dirty, hdLock, hdBuf, hdWant, hdb, hdLatest, hdRaced>>
  BY DEF HdReference
<1>e. /\ \A u \in DiskTasks \ {t} : hdb'[u] = hdb[u] /\ hdPc'[u] = hdPc[u] /\ hdCount'[u] = hdCount[u]
      /\ hdPc'[t] = "wait" /\ hdb'[t] = n /\ hdCount'[t] = 0
      /\ hdRefs'[n] = hdRefs[n] + 1 /\ \A m \in HdBufs : m # n => hdRefs'[m] = hdRefs[m]
  BY <1>c, <1>1, <1>2 DEF HdShape
<1>f. HdTypeOK'
  <2>1. t \notin HdHolders(n)
    BY <1>d DEF HdHolders, HdHolding
  <2>2. hdRefs[n] + 1 <= Cardinality(DiskTasks)
    BY <2>1, HoldersRoom, RefsHeld
  <2>3. hdRefs' \in [HdBufs -> 0..Cardinality(DiskTasks)]
    BY <1>1, <1>d, <2>2, HoldersFinite, InvTypeOK DEF HdTypeOK
  <2>4. hdCount' \in [DiskTasks -> 0..Cardinality(DiskTasks)]
    BY <1>1, HoldersFinite, InvTypeOK DEF HdTypeOK
  <2>5. hdPc' \in [DiskTasks -> HdLocations] /\ hdTorn' \in BOOLEAN
    BY <1>1 DEF HdShape, HdLocations
  <2> QED BY <1>2, <2>3, <2>4, <2>5, InvTypeOK DEF HdTypeOK
<1>g. SUFFICES ASSUME ~hdTorn' PROVE HdInv'
  BY <1>f
<1>h. \A u \in DiskTasks \ {t} : hdb[u] = n => hdPc[u] \notin {"incr", "drop", "claim"}
  BY <1>c, <1>1, <1>g DEF OtherAt
<1>3. HdShape'
  BY <1>1, <1>2, <1>d DEF HdShape, HdLocations
<1>4. HdPlaces' /\ HdQueueLocked'
  BY <1>c, <1>d, <1>1, <1>2, <1>e DEF HdPlaces, HdQueueLocked, HdInList
<1>5. HdExclusive' /\ HdLockOwned'
  <2>1. \A u \in DiskTasks : hdPc'[u] \in HdOwning <=> hdPc[u] \in HdOwning
    BY <1>d, <1>e DEF HdOwning
  <2>2. HdExclusive'
    BY <1>2, <2>1 DEF HdExclusive
  <2>3. \A m \in HdBufs : hdLock[m] # NoTask => hdLock[m] \in DiskTasks
    BY DEF HdShape
  <2>4. HdLockOwned'
    BY <1>2, <2>1, <2>3 DEF HdLockOwned
  <2> QED BY <2>2, <2>4
<1>6. HdRefsMatch'
  <2>3. \A m \in HdBufs : m # n => HdHolders(m)' = HdHolders(m)
    BY <1>c, <1>d, <1>e, HoldersMove DEF HdHolding
  <2>4. Cardinality(HdHolders(n)') = Cardinality(HdHolders(n)) + 1
    BY <1>d, <1>e, HoldersMove DEF HdHolding
  <2> QED BY <1>e, <2>3, <2>4, RefsMatchAs
<1>7. HdDirtyHeld'
  <2>1. \A m \in HdBufs : hdRefs[m] > 0 => hdRefs'[m] > 0
    BY <1>d, <1>e
  <2>2. \A u \in DiskTasks : hdPc[u] = "flush" => hdPc'[u] = "flush"
    BY <1>d, <1>e
  <2> QED BY <1>2, <2>1, <2>2 DEF HdDirtyHeld
<1>8. HdChosen'
  BY <1>2, <1>c, <1>e, <1>h, ChosenKept
<1>9. HdCounts'
  <2> SUFFICES ASSUME NEW u \in DiskTasks
               PROVE  IF hdPc'[u] \in {"incr", "drop"} THEN hdCount'[u] = hdRefs'[hdb'[u]]
                      ELSE hdCount'[u] = 0
    BY DEF HdCounts
  <2>1. CASE u = t
    BY <1>e, <2>1
  <2>2. CASE u # t
    <3>1. hdPc[u] \in {"incr", "drop"} => hdb[u] \in HdBufs /\ hdb[u] # n
      BY <1>h, <2>2, BufOfTask
    <3> QED BY <1>e, <2>2, <3>1 DEF HdCounts
  <2> QED BY <2>1, <2>2
<1> QED BY <1>3, <1>4, <1>5, <1>6, <1>7, <1>8, <1>9

LEMMA LockBufInv ==
  ASSUME HdInv, NEW t \in DiskTasks, LockBuf(t) PROVE HdInv'
<1> USE DEF HdInv
<1>a. hdPc[t] \notin {"out", "miss", "claim"}
  BY DEF LockBuf, HdAt
<1>b. hdb[t] \in HdBufs /\ hdb[t] \in HdInList
  BY <1>a, BufOfTask
<1>c. PICK n \in HdBufs : n = hdb[t]
  BY <1>b
<1>1. /\ hdPc[t] = "wait" /\ n \in HdInList /\ n \in HdBufs /\ hdLock[n] = NoTask
      /\ hdPc' = [hdPc EXCEPT ![t] = "use"] /\ hdLock' = [hdLock EXCEPT ![n] = t]
  BY <1>b, <1>c DEF LockBuf, HdAt, HdGoto
<1>2. UNCHANGED <<hdDisk, num_items, qlock, block_no, is_dirty, hdRefs, hdBuf, hdWant, hdb, hdCount, hdLatest, hdRaced, hdTorn>>
  BY DEF LockBuf
<1>3. HdShape'
  BY <1>1, <1>2 DEF HdShape, HdLocations
<1>4. HdPlaces' /\ HdQueueLocked'
  BY <1>c, <1>1, <1>2 DEF HdPlaces, HdQueueLocked, HdInList, HdShape
<1>5. HdExclusive'
  <2> SUFFICES ASSUME NEW u \in DiskTasks, hdPc'[u] \in HdOwning PROVE hdLock'[hdb'[u]] = u
    BY DEF HdExclusive
  <2>1. CASE u = t
    BY <1>c, <1>1, <1>2, <2>1 DEF HdShape
  <2>2. CASE u # t
    <3>1. hdPc[u] \in HdOwning /\ hdLock[hdb[u]] = u
      BY <1>1, <2>2 DEF HdShape, HdExclusive
    <3>2. hdb[u] # n
      BY <1>1, <3>1
    <3>3. hdb[u] \in HdBufs
      BY <3>1, BufOfTask DEF HdOwning
    <3> QED BY <1>1, <1>2, <3>1, <3>2, <3>3 DEF HdShape
  <2> QED BY <2>1, <2>2
<1>6. HdLockOwned'
  <2> SUFFICES ASSUME NEW m \in HdBufs, hdLock'[m] # NoTask
               PROVE  hdPc'[hdLock'[m]] \in HdOwning /\ hdb'[hdLock'[m]] = m
    BY DEF HdLockOwned
  <2>1. CASE m = n
    <3>1. hdLock'[m] = t
      BY <1>1, <2>1 DEF HdShape
    <3> QED BY <1>c, <1>1, <1>2, <2>1, <3>1 DEF HdShape, HdOwning
  <2>2. CASE m # n
    <3>1. hdLock'[m] = hdLock[m] /\ hdLock[m] \in DiskTasks
      BY <1>1, <2>2 DEF HdShape
    <3>2. hdPc[hdLock[m]] \in HdOwning /\ hdb[hdLock[m]] = m
      BY <3>1 DEF HdLockOwned
    <3>3. hdLock[m] # t
      BY <1>1, <3>2 DEF HdOwning
    <3> QED BY <1>1, <1>2, <3>1, <3>2, <3>3 DEF HdShape
  <2> QED BY <2>1, <2>2
<1>7. HdRefsMatch'
  <2>1. \A u \in DiskTasks \ {t} : hdb'[u] = hdb[u] /\ hdPc'[u] = hdPc[u]
    BY <1>1, <1>2 DEF HdShape
  <2>2. hdPc'[t] = "use" /\ hdb'[t] = hdb[t]
    BY <1>1, <1>2 DEF HdShape
  <2>3. \A m \in HdBufs : HdHolders(m)' = HdHolders(m)
    BY <1>1, <2>1, <2>2, HoldersMove DEF HdHolding
  <2> QED BY <1>2, <2>3, RefsMatchAs
<1>8. HdDirtyHeld'
  <2>1. \A u \in DiskTasks : hdPc[u] = "flush" => hdPc'[u] = "flush"
    BY <1>1 DEF HdShape
  <2> QED BY <1>2, <2>1 DEF HdDirtyHeld
<1>9. HdChosen' /\ HdCounts'
  <2>1. \A u \in DiskTasks \ {t} : hdb'[u] = hdb[u] /\ hdPc'[u] = hdPc[u]
    BY <1>1, <1>2 DEF HdShape
  <2>2. hdPc'[t] = "use" /\ \A m \in HdBufs : m # n => hdLock'[m] = hdLock[m]
    BY <1>1 DEF HdShape
  <2>3. \A u \in DiskTasks \ {t} : hdPc[u] = "claim" => hdb[u] # hdb[t]
    BY <1>1, ChosenApart DEF HdHolding
  <2> QED BY <1>c, <1>1, <1>2, <2>1, <2>2, <2>3, ChosenKept, CountsKept
<1> QED BY <1>3, <1>4, <1>5, <1>6, <1>7, <1>8, <1>9

LEMMA ClaimInv ==
  ASSUME HdInv, Cardinality(DiskTasks) <= MAX_HD_BUFS,
         NEW t \in DiskTasks, HdClaim(t)
  PROVE  HdInv'
<1> USE DEF HdInv
<1>1. hdPc[t] = "miss" /\ qlock = NoTask
  BY DEF HdClaim, HdAt
<1>c. PICK n \in HdBufs : n = Victim
  BY <1>1, VictimFree
<1>2. /\ hdLock[n] = NoTask /\ hdRefs[n] = 0 /\ ~is_dirty[n]
      /\ n \in HdInList \/ n = num_items + 1
  BY <1>1, <1>c, VictimFree
<1>3. /\ hdb' = [hdb EXCEPT ![t] = n] /\ qlock' = t
      /\ hdPc' = [hdPc EXCEPT ![t] = "claim"]
      /\ UNCHANGED <<hdDisk, num_items, block_no, is_dirty, hdRefs, hdLock, hdBuf, hdWant, hdCount,
                     hdLatest, hdRaced, hdTorn>>
  BY <1>c DEF HdClaim, HdGoto, hdFields
<1>4. /\ \A u \in DiskTasks \ {t} : hdb'[u] = hdb[u] /\ hdPc'[u] = hdPc[u]
      /\ hdb'[t] = n /\ hdPc'[t] = "claim"
  BY <1>3 DEF HdShape
<1>5. HdShape'
  BY <1>3 DEF HdShape, HdLocations
<1>6. HdPlaces' /\ HdQueueLocked'
  BY <1>1, <1>3, <1>4 DEF HdPlaces, HdQueueLocked, HdInList
<1>7. HdExclusive' /\ HdLockOwned'
  <2>1. \A m \in HdBufs : hdLock[m] # t
    BY <1>1 DEF HdLockOwned, HdOwning
  <2> QED BY <1>1, <1>3, <1>4, <2>1 DEF HdExclusive, HdLockOwned, HdOwning, HdShape
<1>8. HdRefsMatch'
  <2>1. \A m \in HdBufs : HdHolders(m)' = HdHolders(m)
    BY <1>1, <1>4, HoldersMove DEF HdHolding
  <2> QED BY <1>3, <2>1, RefsMatchAs
<1>9. HdDirtyHeld'
  BY <1>1, <1>3, <1>4 DEF HdDirtyHeld
<1>10. HdChosen'
  BY <1>2, <1>3, <1>4 DEF HdChosen, HdInList
<1>11. HdCounts'
  BY <1>1, <1>3, <1>4, CountsKept
<1> QED BY <1>5, <1>6, <1>7, <1>8, <1>9, <1>10, <1>11

(* The buffer of a task at "claim" is still nobody's.                       *)
LEMMA ChosenFree ==
  ASSUME HdInv, NEW t \in DiskTasks, hdPc[t] = "claim"
  PROVE  /\ hdb[t] \in HdBufs /\ qlock = t
         /\ hdRefs[hdb[t]] = 0 /\ ~is_dirty[hdb[t]] /\ hdLock[hdb[t]] = NoTask
         /\ hdb[t] \in HdInList \/ hdb[t] = num_items + 1
         /\ \A u \in DiskTasks \ {t} : hdb[u] = hdb[t] => hdPc[u] \in {"out", "found", "incr", "miss"}
<1>1. /\ hdb[t] \in HdBufs /\ qlock = t
      /\ hdRefs[hdb[t]] = 0 /\ ~is_dirty[hdb[t]] /\ hdLock[hdb[t]] = NoTask
      /\ hdb[t] \in HdInList \/ hdb[t] = num_items + 1
  BY DEF HdInv, HdChosen, HdQueueLocked
<1>2. HdHolders(hdb[t]) = {}
  BY <1>1, RefsHeld
<1>3. \A u \in DiskTasks \ {t} : hdPc[u] \notin {"claim", "claimed", "drop", "flush", "unlock"}
  BY <1>1 DEF HdInv, HdQueueLocked
<1>4. \A u \in DiskTasks : hdb[u] = hdb[t] => hdPc[u] \notin HdHolding /\ hdPc[u] \in HdLocations
  BY <1>2 DEF HdHolders, HdInv, HdShape
<1> QED BY <1>1, <1>3, <1>4 DEF HdHolding, HdLocations

LEMMA ResetInv ==
  ASSUME HdInv, NEW t \in DiskTasks, HdReset(t) PROVE HdTypeOK' /\ (~hdTorn' => HdInv')
<1> USE DEF HdInv
<1>1. hdPc[t] = "claim"
  BY DEF HdReset, HdAt
<1>c. PICK n \in HdBufs : n = hdb[t]
  BY <1>1, ChosenFree
<1>2. /\ n \in HdBufs /\ qlock = t
      /\ \A u \in DiskTasks \ {t} : hdb[u] = n => hdPc[u] \in {"out", "found", "incr", "miss"}
      /\ hdLock[n] = NoTask /\ hdRefs[n] = 0 /\ ~is_dirty[n]
      /\ n \in HdInList \/ n = num_items + 1
  BY <1>1, <1>c, ChosenFree
<1>3. /\ num_items' = IF n > num_items THEN n ELSE num_items
      /\ block_no' = [block_no EXCEPT ![n] = hdWant[t]]
      /\ is_dirty' = [is_dirty EXCEPT ![n] = FALSE]
      /\ hdRefs' = [hdRefs EXCEPT ![n] = 1]
      /\ hdLock' = [hdLock EXCEPT ![n] = NoTask]
      /\ hdTorn' = (hdTorn \/ OtherAt(t, {"incr"}))
      /\ hdPc' = [hdPc EXCEPT ![t] = "claimed"]
      /\ UNCHANGED <<hdDisk, qlock, hdBuf, hdWant, hdb, hdCount, hdLatest, hdRaced>>
  BY <1>c DEF HdReset, HdGoto
<1>f. HdTypeOK'
  <2>0. HdTypeOK
    BY InvTypeOK
  <2>1. 1 <= Cardinality(DiskTasks) /\ Cardinality(DiskTasks) \in Nat
    <3>1. t \notin HdHolders(n)
      BY <1>1 DEF HdHolders, HdHolding
    <3> QED BY <3>1, HoldersRoom, HoldersFinite
  <2>2. hdRefs' \in [HdBufs -> 0..Cardinality(DiskTasks)]
    BY <1>3, <2>0, <2>1 DEF HdTypeOK
  <2>3. num_items' \in 0..MAX_HD_BUFS
    BY <1>2, <1>3 DEF HdShape
  <2>4. /\ block_no' \in [HdBufs -> DiskBlocks] /\ is_dirty' \in [HdBufs -> BOOLEAN]
        /\ hdLock' \in [HdBufs -> DiskTasks \cup {NoTask}]
    BY <1>3 DEF HdShape
  <2>5. hdPc' \in [DiskTasks -> HdLocations] /\ hdTorn' \in BOOLEAN
    BY <1>3 DEF HdShape, HdLocations
  <2> QED BY <1>3, <2>0, <2>2, <2>3, <2>4, <2>5 DEF HdTypeOK
<1>g. SUFFICES ASSUME ~hdTorn' PROVE HdInv'
  BY <1>f
<1>h. \A u \in DiskTasks \ {t} : hdb[u] = n => hdPc[u] \in {"out", "found", "miss"}
  BY <1>c, <1>2, <1>3, <1>g DEF OtherAt
<1>4. HdShape'
  BY <1>2, <1>3 DEF HdShape, HdLocations
<1>5. /\ HdInList \subseteq HdInList' /\ n \in HdInList'
      /\ \A u \in DiskTasks \ {t} : hdb'[u] = hdb[u] /\ hdPc'[u] = hdPc[u]
      /\ hdb'[t] = n /\ hdPc'[t] = "claimed"
  BY <1>c, <1>2, <1>3 DEF HdShape, HdInList
<1>6. HdPlaces' /\ HdQueueLocked'
  BY <1>1, <1>3, <1>5 DEF HdPlaces, HdQueueLocked, HdShape
<1>7. HdExclusive' /\ HdLockOwned'
  <2>1. \A m \in HdBufs : hdLock'[m] = hdLock[m]
    BY <1>2, <1>3 DEF HdShape
  <2>2. \A u \in DiskTasks : hdPc[u] \in HdOwning => hdb[u] \in HdBufs
    BY BufOfTask DEF HdOwning
  <2>3. \A m \in HdBufs : hdLock[m] # t
    BY <1>1 DEF HdLockOwned, HdOwning
  <2>4. \A u \in DiskTasks : hdPc'[u] \in HdOwning <=> hdPc[u] \in HdOwning
    BY <1>1, <1>5 DEF HdOwning
  <2>5. HdExclusive'
    BY <1>3, <2>1, <2>2, <2>4 DEF HdExclusive
  <2>6. \A m \in HdBufs : hdLock[m] # NoTask => hdLock[m] \in DiskTasks
    BY DEF HdShape
  <2>7. HdLockOwned'
    BY <1>3, <2>1, <2>4, <2>6 DEF HdLockOwned
  <2> QED BY <2>5, <2>7
<1>9. HdRefsMatch'
  <2>1. \A m \in HdBufs : m # n => HdHolders(m)' = HdHolders(m)
    BY <1>1, <1>5, HoldersMove DEF HdHolding
  <2>2. Cardinality(HdHolders(n)') = Cardinality(HdHolders(n)) + 1
    BY <1>1, <1>5, HoldersMove DEF HdHolding
  <2>3. Cardinality(HdHolders(n)) = 0
    BY <1>2, RefsMatchAs
  <2>4. hdRefs'[n] = 1 /\ \A m \in HdBufs : m # n => hdRefs'[m] = hdRefs[m]
    BY <1>2, <1>3 DEF HdShape
  <2> QED BY <2>1, <2>2, <2>3, <2>4, RefsMatchAs
<1>10. HdDirtyHeld'
  <2> SUFFICES ASSUME NEW m \in HdBufs, is_dirty'[m]
               PROVE  hdRefs'[m] > 0 \/ \E u \in DiskTasks : hdPc'[u] = "flush" /\ hdb'[u] = m
    BY DEF HdDirtyHeld
  <2>1. m # n /\ is_dirty[m] /\ hdRefs'[m] = hdRefs[m]
    BY <1>2, <1>3 DEF HdShape
  <2>2. \A u \in DiskTasks : hdPc[u] = "flush" => u # t
    BY <1>1
  <2> QED BY <1>5, <2>1, <2>2 DEF HdDirtyHeld
<1>11. HdChosen'
  <2>1. \A u \in DiskTasks : hdPc'[u] # "claim"
    BY <1>2, <1>5 DEF HdQueueLocked
  <2> QED BY <2>1 DEF HdChosen
<1>12. HdCounts'
  <2> SUFFICES ASSUME NEW u \in DiskTasks
               PROVE  IF hdPc'[u] \in {"incr", "drop"} THEN hdCount'[u] = hdRefs'[hdb'[u]]
                      ELSE hdCount'[u] = 0
    BY DEF HdCounts
  <2>1. CASE u = t
    BY <1>1, <1>3, <1>5, <2>1 DEF HdCounts
  <2>2. CASE u # t
    <3>1. hdPc[u] \in {"incr", "drop"} => hdb[u] \in HdBufs /\ hdb[u] # n
      BY <1>h, <2>2, BufOfTask
    <3>2. hdPc[u] \in {"incr", "drop"} => hdRefs'[hdb[u]] = hdRefs[hdb[u]]
      BY <1>3, <3>1 DEF HdShape
    <3> QED BY <1>3, <1>5, <2>2, <3>2 DEF HdCounts
  <2> QED BY <2>1, <2>2
<1> QED BY <1>4, <1>6, <1>7, <1>9, <1>10, <1>11, <1>12

LEMMA LockClaimedInv ==
  ASSUME HdInv, NEW t \in DiskTasks, HdLockClaimed(t) PROVE HdInv'
<1> USE DEF HdInv
<1>a. hdPc[t] \notin {"out", "miss", "claim"}
  BY DEF HdLockClaimed, HdAt
<1>b. hdb[t] \in HdBufs /\ hdb[t] \in HdInList
  BY <1>a, BufOfTask
<1>c. PICK n \in HdBufs : n = hdb[t]
  BY <1>b
<1>1. /\ hdPc[t] = "claimed" /\ qlock' = NoTask /\ n \in HdInList /\ n \in HdBufs /\ hdLock[n] = NoTask
      /\ hdPc' = [hdPc EXCEPT ![t] = "load"] /\ hdLock' = [hdLock EXCEPT ![n] = t]
  BY <1>b, <1>c DEF HdLockClaimed, HdAt, HdGoto
<1>2. UNCHANGED <<hdDisk, num_items, block_no, is_dirty, hdRefs, hdBuf, hdWant, hdb, hdCount, hdLatest, hdRaced, hdTorn>>
  BY DEF HdLockClaimed
<1>3. HdShape'
  BY <1>1, <1>2 DEF HdShape, HdLocations
<1>4. HdPlaces' /\ HdQueueLocked'
  BY <1>c, <1>1, <1>2 DEF HdPlaces, HdQueueLocked, HdInList, HdShape
<1>5. HdExclusive'
  <2> SUFFICES ASSUME NEW u \in DiskTasks, hdPc'[u] \in HdOwning PROVE hdLock'[hdb'[u]] = u
    BY DEF HdExclusive
  <2>1. CASE u = t
    BY <1>c, <1>1, <1>2, <2>1 DEF HdShape
  <2>2. CASE u # t
    <3>1. hdPc[u] \in HdOwning /\ hdLock[hdb[u]] = u
      BY <1>1, <2>2 DEF HdShape, HdExclusive
    <3>2. hdb[u] # n
      BY <1>1, <3>1
    <3>3. hdb[u] \in HdBufs
      BY <3>1, BufOfTask DEF HdOwning
    <3> QED BY <1>1, <1>2, <3>1, <3>2, <3>3 DEF HdShape
  <2> QED BY <2>1, <2>2
<1>6. HdLockOwned'
  <2> SUFFICES ASSUME NEW m \in HdBufs, hdLock'[m] # NoTask
               PROVE  hdPc'[hdLock'[m]] \in HdOwning /\ hdb'[hdLock'[m]] = m
    BY DEF HdLockOwned
  <2>1. CASE m = n
    <3>1. hdLock'[m] = t
      BY <1>1, <2>1 DEF HdShape
    <3> QED BY <1>c, <1>1, <1>2, <2>1, <3>1 DEF HdShape, HdOwning
  <2>2. CASE m # n
    <3>1. hdLock'[m] = hdLock[m] /\ hdLock[m] \in DiskTasks
      BY <1>1, <2>2 DEF HdShape
    <3>2. hdPc[hdLock[m]] \in HdOwning /\ hdb[hdLock[m]] = m
      BY <3>1 DEF HdLockOwned
    <3>3. hdLock[m] # t
      BY <1>1, <3>2 DEF HdOwning
    <3> QED BY <1>1, <1>2, <3>1, <3>2, <3>3 DEF HdShape
  <2> QED BY <2>1, <2>2
<1>7. HdRefsMatch'
  <2>1. \A u \in DiskTasks \ {t} : hdb'[u] = hdb[u] /\ hdPc'[u] = hdPc[u]
    BY <1>1, <1>2 DEF HdShape
  <2>2. hdPc'[t] = "load" /\ hdb'[t] = hdb[t]
    BY <1>1, <1>2 DEF HdShape
  <2>3. \A m \in HdBufs : HdHolders(m)' = HdHolders(m)
    BY <1>1, <2>1, <2>2, HoldersMove DEF HdHolding
  <2> QED BY <1>2, <2>3, RefsMatchAs
<1>8. HdDirtyHeld'
  <2>1. \A u \in DiskTasks : hdPc[u] = "flush" => hdPc'[u] = "flush"
    BY <1>1 DEF HdShape
  <2> QED BY <1>2, <2>1 DEF HdDirtyHeld
<1>9. HdChosen' /\ HdCounts'
  <2>1. \A u \in DiskTasks \ {t} : hdb'[u] = hdb[u] /\ hdPc'[u] = hdPc[u]
    BY <1>1, <1>2 DEF HdShape
  <2>2. hdPc'[t] = "load" /\ \A m \in HdBufs : m # n => hdLock'[m] = hdLock[m]
    BY <1>1 DEF HdShape
  <2>3. \A u \in DiskTasks \ {t} : hdPc[u] = "claim" => hdb[u] # hdb[t]
    BY <1>1, ChosenApart DEF HdHolding
  <2> QED BY <1>c, <1>1, <1>2, <2>1, <2>2, <2>3, ChosenKept, CountsKept
<1> QED BY <1>3, <1>4, <1>5, <1>6, <1>7, <1>8, <1>9

LEMMA LoadInv ==
  ASSUME HdInv, NEW t \in DiskTasks, HdLoad(t) PROVE HdInv'
<1> USE DEF HdInv
<1>a. hdPc[t] \notin {"out", "miss", "claim"}
  BY DEF HdLoad, HdAt
<1>b. hdb[t] \in HdBufs
  BY <1>a, BufOfTask
<1>1. /\ hdPc[t] = "load" /\ hdb[t] \in HdBufs
      /\ hdPc' = [hdPc EXCEPT ![t] = "use"]
      /\ UNCHANGED <<num_items, qlock, block_no, is_dirty, hdRefs, hdLock, hdWant, hdb, hdCount, hdLatest, hdRaced, hdTorn>>
  BY <1>b DEF HdLoad, HdAt, HdGoto
<1>2. /\ hdDisk' \in [DiskBlocks -> DiskValues] /\ hdBuf' \in [HdBufs -> DiskValues]
  BY <1>1 DEF HdLoad, HdRw, HdShape
<1>3. HdShape'
  BY <1>1, <1>2 DEF HdShape, HdLocations
<1>4. HdPlaces' /\ HdQueueLocked' /\ HdExclusive'
  BY <1>1 DEF HdPlaces, HdQueueLocked, HdInList, HdExclusive, HdOwning, HdShape
<1>5. HdLockOwned'
  BY <1>1 DEF HdLockOwned, HdOwning, HdShape
<1>6. HdRefsMatch'
  <2>1. \A u \in DiskTasks \ {t} : hdb'[u] = hdb[u] /\ hdPc'[u] = hdPc[u]
    BY <1>1 DEF HdShape
  <2>2. hdPc'[t] = "use" /\ hdb'[t] = hdb[t]
    BY <1>1 DEF HdShape
  <2>3. \A m \in HdBufs : HdHolders(m)' = HdHolders(m)
    BY <1>1, <2>1, <2>2, HoldersMove DEF HdHolding
  <2> QED BY <1>1, <2>3, RefsMatchAs
<1>7. HdDirtyHeld'
  <2>1. \A u \in DiskTasks : hdPc[u] = "flush" => hdPc'[u] = "flush"
    BY <1>1 DEF HdShape
  <2> QED BY <1>1, <2>1 DEF HdDirtyHeld
<1>8. HdChosen' /\ HdCounts'
  <2>1. \A u \in DiskTasks \ {t} : hdb'[u] = hdb[u] /\ hdPc'[u] = hdPc[u]
    BY <1>1 DEF HdShape
  <2>2. hdPc'[t] = "use"
    BY <1>1 DEF HdShape
  <2>3. \A u \in DiskTasks \ {t} : hdPc[u] = "claim" => hdb[u] # hdb[t]
    BY <1>1, ChosenApart DEF HdHolding
  <2> QED BY <1>1, <2>1, <2>2, <2>3, ChosenKept, CountsKept
<1> QED BY <1>3, <1>4, <1>5, <1>6, <1>7, <1>8

LEMMA ModifyInv ==
  ASSUME HdInv, NEW t \in DiskTasks, NEW v \in DiskValues, HdModify(t, v) PROVE HdInv'
<1> USE DEF HdInv
<1>a. hdPc[t] \notin {"out", "miss", "claim"}
  BY DEF HdModify, HdAt
<1>b. hdb[t] \in HdBufs
  BY <1>a, BufOfTask
<1>1. /\ hdPc[t] = "use" /\ hdb[t] \in HdBufs
      /\ hdBuf' = [hdBuf EXCEPT ![hdb[t]] = v]
      /\ is_dirty' = [is_dirty EXCEPT ![hdb[t]] = TRUE]
      /\ hdLatest' = [hdLatest EXCEPT ![hdWant[t]] = v]
      /\ UNCHANGED <<hdDisk, num_items, qlock, block_no, hdRefs, hdLock, hdPc, hdWant, hdb, hdCount, hdRaced, hdTorn>>
  BY <1>b DEF HdModify, HdAt
<1>2. HdShape'
  BY <1>1 DEF HdShape
<1>3. HdPlaces' /\ HdQueueLocked' /\ HdExclusive' /\ HdLockOwned'
  BY <1>1 DEF HdPlaces, HdQueueLocked, HdInList, HdExclusive, HdLockOwned
<1>4. HdRefsMatch'
  BY <1>1 DEF HdRefsMatch
<1>5. hdRefs[hdb[t]] > 0
  <2>1. HdHolders(hdb[t]) # {}
    BY <1>1 DEF HdHolders, HdHolding
  <2>2. hdRefs[hdb[t]] # 0 /\ hdRefs[hdb[t]] \in Nat
    BY <1>1, <2>1, RefsHeld DEF HdShape
  <2> QED BY <2>2
<1>6. HdDirtyHeld'
  BY <1>1, <1>5 DEF HdDirtyHeld, HdShape
<1>7. HdChosen' /\ HdCounts'
  <2>1. \A m \in HdBufs : m # hdb[t] => is_dirty'[m] = is_dirty[m]
    BY <1>1 DEF HdShape
  <2>2. \A u \in DiskTasks \ {t} : hdPc[u] = "claim" => hdb[u] # hdb[t]
    BY <1>1, ChosenApart DEF HdHolding
  <2> QED BY <1>1, <2>1, <2>2, ChosenKept, CountsKept
<1> QED BY <1>2, <1>3, <1>4, <1>6, <1>7

LEMMA PutInv ==
  ASSUME HdInv, NEW t \in DiskTasks, HdPut(t) PROVE HdInv'
<1> USE DEF HdInv
<1>a. hdPc[t] \notin {"out", "miss", "claim"}
  BY DEF HdPut, HdAt
<1>b. hdb[t] \in HdBufs
  BY <1>a, BufOfTask
<1>1. /\ hdPc[t] = "use" /\ qlock = NoTask /\ qlock' = t
      /\ hdPc' = [hdPc EXCEPT ![t] = "drop"]
      /\ hdCount' = [hdCount EXCEPT ![t] = hdRefs[hdb[t]]]
      /\ UNCHANGED <<hdDisk, num_items, block_no, is_dirty, hdRefs, hdLock, hdBuf, hdWant, hdb,
                     hdLatest, hdRaced, hdTorn>>
  BY DEF HdPut, HdAt, HdGoto, hdFields
<1>2. /\ \A u \in DiskTasks \ {t} : hdb'[u] = hdb[u] /\ hdPc'[u] = hdPc[u] /\ hdCount'[u] = hdCount[u]
      /\ hdPc'[t] = "drop" /\ hdCount'[t] = hdRefs[hdb[t]] /\ hdRefs[hdb[t]] \in Nat
  BY <1>b, <1>1 DEF HdShape
<1>3. HdShape'
  BY <1>1, <1>2 DEF HdShape, HdLocations
<1>4. HdPlaces' /\ HdQueueLocked'
  BY <1>1, <1>2 DEF HdPlaces, HdQueueLocked, HdInList
<1>5. HdExclusive' /\ HdLockOwned'
  BY <1>1, <1>2 DEF HdExclusive, HdLockOwned, HdOwning, HdShape
<1>6. HdRefsMatch'
  <2>1. \A m \in HdBufs : HdHolders(m)' = HdHolders(m)
    BY <1>1, <1>2, HoldersMove DEF HdHolding
  <2> QED BY <1>1, <2>1, RefsMatchAs
<1>7. HdDirtyHeld'
  BY <1>1, <1>2 DEF HdDirtyHeld
<1>8. HdChosen'
  BY <1>1, <1>2 DEF HdChosen, HdInList
<1>9. HdCounts'
  BY <1>1, <1>2 DEF HdCounts
<1> QED BY <1>3, <1>4, <1>5, <1>6, <1>7, <1>8, <1>9

LEMMA DropInv ==
  ASSUME HdInv, NEW t \in DiskTasks, HdDrop(t) PROVE HdTypeOK' /\ (~hdTorn' => HdInv')
<1> USE DEF HdInv
<1>a. hdPc[t] \notin {"out", "miss", "claim"}
  BY DEF HdDrop, HdAt
<1>b. hdb[t] \in HdBufs /\ hdb[t] \in HdInList
  BY <1>a, BufOfTask
<1>c. PICK n \in HdBufs : n = hdb[t]
  BY <1>b
<1>d. /\ hdPc[t] = "drop" /\ hdCount[t] = hdRefs[n] /\ hdRefs[n] \in Nat
      /\ hdRefs[n] > 0
  <2>1. hdPc[t] = "drop" /\ hdCount[t] = hdRefs[n] /\ hdRefs[n] \in Nat
    BY <1>c DEF HdDrop, HdAt, HdCounts, HdShape
  <2>2. HdHolders(n) # {}
    BY <1>c, <2>1 DEF HdHolders, HdHolding
  <2> QED BY <2>1, <2>2, RefsHeld
<1>1. /\ n \in HdBufs /\ n \in HdInList
      /\ hdRefs' = [hdRefs EXCEPT ![n] = hdRefs[n] - 1]
      /\ hdCount' = [hdCount EXCEPT ![t] = 0]
      /\ hdTorn' = (hdTorn \/ OtherAt(t, {"incr"}))
      /\ hdPc' = [hdPc EXCEPT ![t] = IF MustFlush(t) THEN "flush" ELSE "unlock"]
      /\ UNCHANGED <<hdDisk, num_items, qlock, block_no, is_dirty, hdLock, hdBuf, hdWant, hdb, hdLatest, hdRaced>>
  BY <1>b, <1>c, <1>d DEF HdDrop, HdAt, HdGoto
<1>2. /\ \A u \in DiskTasks \ {t} : hdb'[u] = hdb[u] /\ hdPc'[u] = hdPc[u] /\ hdCount'[u] = hdCount[u]
      /\ hdPc'[t] = (IF MustFlush(t) THEN "flush" ELSE "unlock") /\ hdb'[t] = n /\ hdCount'[t] = 0
      /\ hdRefs'[n] = hdRefs[n] - 1 /\ \A m \in HdBufs : m # n => hdRefs'[m] = hdRefs[m]
  BY <1>c, <1>1 DEF HdShape
<1>f. HdTypeOK'
  <2>0. HdTypeOK
    BY InvTypeOK
  <2>3. hdRefs' \in [HdBufs -> 0..Cardinality(DiskTasks)]
    BY <1>1, <1>d, <2>0, HoldersFinite DEF HdTypeOK
  <2>4. hdCount' \in [DiskTasks -> 0..Cardinality(DiskTasks)]
    BY <1>1, <2>0, HoldersFinite DEF HdTypeOK
  <2>5. hdPc' \in [DiskTasks -> HdLocations] /\ hdTorn' \in BOOLEAN
    BY <1>1 DEF HdShape, HdLocations
  <2> QED BY <1>1, <2>0, <2>3, <2>4, <2>5 DEF HdTypeOK
<1>g. SUFFICES ASSUME ~hdTorn' PROVE HdInv'
  BY <1>f
<1>h. \A u \in DiskTasks \ {t} : hdb[u] = n => hdPc[u] \notin {"incr", "drop"}
  <2>1. \A u \in DiskTasks \ {t} : hdPc[u] # "drop"
    BY <1>d DEF HdQueueLocked
  <2> QED BY <1>c, <1>1, <1>g, <2>1 DEF OtherAt
<1>3. HdShape'
  BY <1>1, <1>d DEF HdShape, HdLocations
<1>4. HdPlaces' /\ HdExclusive' /\ HdLockOwned'
  BY <1>d, <1>1, <1>2 DEF HdPlaces, HdInList, HdExclusive, HdLockOwned, HdOwning, HdShape
<1>5. HdQueueLocked'
  BY <1>d, <1>1, <1>2 DEF HdQueueLocked
<1>6. HdRefsMatch'
  <2>1. \A m \in HdBufs : m # n => HdHolders(m)' = HdHolders(m)
    BY <1>c, <1>d, <1>1, <1>2, HoldersMove
  <2>2. Cardinality(HdHolders(n)') = Cardinality(HdHolders(n)) - 1
    BY <1>c, <1>d, <1>1, <1>2, HoldersMove DEF HdHolding
  <2> QED BY <1>2, <2>1, <2>2, RefsMatchAs
<1>7. HdDirtyHeld'
  <2> SUFFICES ASSUME NEW m \in HdBufs, is_dirty'[m]
               PROVE  hdRefs'[m] > 0 \/ \E u \in DiskTasks : hdPc'[u] = "flush" /\ hdb'[u] = m
    BY DEF HdDirtyHeld
  <2>1. CASE m = n
    <3>1. CASE hdRefs[n] = 1
      BY <1>c, <1>d, <1>1, <1>2, <2>1, <3>1 DEF MustFlush
    <3>2. CASE hdRefs[n] # 1
      BY <1>d, <1>2, <2>1, <3>2
    <3> QED BY <3>1, <3>2
  <2>2. CASE m # n
    BY <1>d, <1>1, <1>2, <2>2 DEF HdDirtyHeld
  <2> QED BY <2>1, <2>2
<1>8. HdChosen'
  <2>1. \A u \in DiskTasks \ {t} : hdPc[u] = "claim" => hdb[u] # hdb[t]
    BY <1>d, ChosenApart DEF HdHolding
  <2> QED BY <1>c, <1>1, <1>2, <2>1, ChosenKept
<1>9. HdCounts'
  <2> SUFFICES ASSUME NEW u \in DiskTasks
               PROVE  IF hdPc'[u] \in {"incr", "drop"} THEN hdCount'[u] = hdRefs'[hdb'[u]]
                      ELSE hdCount'[u] = 0
    BY DEF HdCounts
  <2>1. CASE u = t
    BY <1>2, <2>1
  <2>2. CASE u # t
    <3>1. hdPc[u] \in {"incr", "drop"} => hdb[u] \in HdBufs /\ hdb[u] # n
      BY <1>h, <2>2, BufOfTask
    <3> QED BY <1>1, <1>2, <2>2, <3>1 DEF HdCounts
  <2> QED BY <2>1, <2>2
<1> QED BY <1>3, <1>4, <1>5, <1>6, <1>7, <1>8, <1>9

LEMMA FlushInv ==
  ASSUME HdInv, NEW t \in DiskTasks, HdFlush(t) PROVE HdInv'
<1> USE DEF HdInv
<1>a. hdPc[t] \notin {"out", "miss", "claim"}
  BY DEF HdFlush, HdAt
<1>b. hdb[t] \in HdBufs
  BY <1>a, BufOfTask
<1>1. /\ hdPc[t] = "flush" /\ hdb[t] \in HdBufs
      /\ hdPc' = [hdPc EXCEPT ![t] = "unlock"]
      /\ is_dirty' = [is_dirty EXCEPT ![hdb[t]] = FALSE]
      /\ UNCHANGED <<num_items, qlock, block_no, hdRefs, hdLock, hdWant, hdb, hdCount, hdLatest, hdRaced, hdTorn>>
  BY <1>b DEF HdFlush, HdAt, HdGoto
<1>2. /\ hdDisk' \in [DiskBlocks -> DiskValues] /\ hdBuf' \in [HdBufs -> DiskValues]
  <2>1. HdRw(hdb[t])
    BY DEF HdFlush
  <2> QED BY <1>1, <2>1 DEF HdRw, HdShape
<1>3. HdShape'
  BY <1>1, <1>2 DEF HdShape, HdLocations
<1>4. HdPlaces' /\ HdQueueLocked'
  BY <1>1 DEF HdPlaces, HdQueueLocked, HdInList, HdShape
<1>5. HdExclusive' /\ HdLockOwned'
  BY <1>1 DEF HdExclusive, HdLockOwned, HdOwning, HdShape
<1>6. HdRefsMatch'
  <2>1. \A u \in DiskTasks \ {t} : hdb'[u] = hdb[u] /\ hdPc'[u] = hdPc[u]
    BY <1>1 DEF HdShape
  <2>2. hdPc'[t] = "unlock"
    BY <1>1 DEF HdShape
  <2>3. \A m \in HdBufs : HdHolders(m)' = HdHolders(m)
    BY <1>1, <2>1, <2>2, HoldersMove DEF HdHolding
  <2> QED BY <1>1, <2>3, RefsMatchAs
<1>7. HdDirtyHeld'
  BY <1>1 DEF HdDirtyHeld, HdShape
<1>8. HdChosen' /\ HdCounts'
  <2>1. \A u \in DiskTasks \ {t} : hdb'[u] = hdb[u] /\ hdPc'[u] = hdPc[u]
    BY <1>1 DEF HdShape
  <2>2. hdPc'[t] = "unlock" /\ \A m \in HdBufs : m # hdb[t] => is_dirty'[m] = is_dirty[m]
    BY <1>1 DEF HdShape
  <2>3. \A u \in DiskTasks \ {t} : hdPc[u] = "claim" => hdb[u] # hdb[t]
    BY <1>1, ChosenApart
  <2> QED BY <1>1, <2>1, <2>2, <2>3, ChosenKept, CountsKept
<1> QED BY <1>3, <1>4, <1>5, <1>6, <1>7, <1>8

LEMMA UnlockInv ==
  ASSUME HdInv, NEW t \in DiskTasks, HdUnlock(t) PROVE HdInv'
<1> USE DEF HdInv
<1>a. hdPc[t] \notin {"out", "miss", "claim"}
  BY DEF HdUnlock, HdAt
<1>b. hdb[t] \in HdBufs /\ hdb[t] \in HdInList
  BY <1>a, BufOfTask
<1>c. PICK n \in HdBufs : n = hdb[t]
  BY <1>b
<1>1. /\ hdPc[t] = "unlock" /\ n \in HdBufs /\ qlock = t /\ hdLock[n] = t
      /\ hdLock' = [hdLock EXCEPT ![n] = NoTask] /\ qlock' = NoTask
      /\ hdb' = [hdb EXCEPT ![t] = 0] /\ hdPc' = [hdPc EXCEPT ![t] = "out"]
      /\ UNCHANGED <<hdDisk, num_items, block_no, is_dirty, hdRefs, hdBuf, hdWant, hdCount, hdLatest, hdRaced, hdTorn>>
  BY <1>b, <1>c DEF HdUnlock, HdAt, HdGoto, HdQueueLocked, HdExclusive, HdOwning
<1>2. /\ \A u \in DiskTasks \ {t} : hdb'[u] = hdb[u] /\ hdPc'[u] = hdPc[u]
      /\ hdPc'[t] = "out" /\ hdb'[t] = 0
  BY <1>1 DEF HdShape
<1>3. HdShape'
  BY <1>1 DEF HdShape, HdLocations
<1>4. HdPlaces' /\ HdQueueLocked'
  BY <1>1, <1>2 DEF HdPlaces, HdInList, HdQueueLocked
<1>5. HdExclusive'
  <2> SUFFICES ASSUME NEW u \in DiskTasks, hdPc'[u] \in HdOwning PROVE hdLock'[hdb'[u]] = u
    BY DEF HdExclusive
  <2>1. u # t /\ hdLock[hdb[u]] = u /\ hdPc[u] \in HdOwning
    BY <1>2 DEF HdExclusive, HdOwning
  <2>2. hdb[u] # n
    BY <1>1, <2>1
  <2>3. hdb[u] \in HdBufs
    BY <2>1, BufOfTask DEF HdOwning
  <2> QED BY <1>1, <1>2, <2>1, <2>2, <2>3 DEF HdShape
<1>6. HdLockOwned'
  <2> SUFFICES ASSUME NEW m \in HdBufs, hdLock'[m] # NoTask
               PROVE  hdPc'[hdLock'[m]] \in HdOwning /\ hdb'[hdLock'[m]] = m
    BY DEF HdLockOwned
  <2>1. m # n /\ hdLock'[m] = hdLock[m] /\ hdLock[m] \in DiskTasks
    BY <1>1 DEF HdShape
  <2>2. hdPc[hdLock[m]] \in HdOwning /\ hdb[hdLock[m]] = m
    BY <2>1 DEF HdLockOwned
  <2>3. hdLock[m] # t
    BY <1>c, <2>1, <2>2
  <2> QED BY <1>2, <2>1, <2>2, <2>3
<1>7. HdRefsMatch'
  <2>1. \A m \in HdBufs : HdHolders(m)' = HdHolders(m)
    BY <1>1, <1>2, HoldersMove DEF HdHolding
  <2> QED BY <1>1, <2>1, RefsMatchAs
<1>8. HdDirtyHeld'
  BY <1>1, <1>2 DEF HdDirtyHeld
<1>9. HdChosen' /\ HdCounts'
  <2>1. \A m \in HdBufs : m # hdb[t] => hdLock'[m] = hdLock[m]
    BY <1>c, <1>1 DEF HdShape
  <2>2. \A u \in DiskTasks \ {t} : hdPc[u] = "claim" => hdb[u] # hdb[t]
    BY <1>1, ChosenApart
  <2> QED BY <1>1, <1>2, <2>1, <2>2, ChosenKept, CountsKept
<1> QED BY <1>3, <1>4, <1>5, <1>6, <1>7, <1>8, <1>9

(* The invariant holds until a count is torn, and the types hold for ever.   *)
HdWhole == HdTypeOK /\ (~hdTorn => HdInv)

LEMMA HdInvStep ==
  ASSUME Cardinality(DiskTasks) <= MAX_HD_BUFS
  PROVE  HdWhole /\ [HdNext]_hdVars => HdWhole'
<1> SUFFICES ASSUME HdWhole, [HdNext]_hdVars PROVE HdWhole'
  OBVIOUS
<1>1. CASE HdNext
  <2>0. HdInv
    BY <1>1 DEF HdNext, HdWhole
  <2>1. HdInv' => HdWhole'
    <3>1. HdInv' => HdTypeOK'
      BY InvTypeOK, PTL
    <3> QED BY <3>1 DEF HdWhole
  <2>2. ASSUME NEW t \in DiskTasks, NEW b \in DiskBlocks, HdLookup(t, b) PROVE HdInv'
    BY <2>0, <2>2, LookupInv
  <2>3. ASSUME NEW t \in DiskTasks, NEW v \in DiskValues, HdModify(t, v) PROVE HdInv'
    BY <2>0, <2>3, ModifyInv
  <2>4. ASSUME NEW t \in DiskTasks,
               \/ HdReadRefs(t) \/ LockBuf(t) \/ HdClaim(t) \/ HdLockClaimed(t) \/ HdLoad(t)
               \/ HdPut(t) \/ HdFlush(t) \/ HdUnlock(t)
        PROVE  HdInv'
    BY <2>0, <2>4, ReadRefsInv, LockBufInv, ClaimInv, LockClaimedInv, LoadInv, PutInv, FlushInv,
       UnlockInv
  <2>5. ASSUME NEW t \in DiskTasks, HdReference(t) \/ HdReset(t) \/ HdDrop(t) PROVE HdWhole'
    BY <2>0, <2>5, ReferenceInv, ResetInv, DropInv DEF HdWhole
  <2> QED BY <1>1, <2>1, <2>2, <2>3, <2>4, <2>5 DEF HdNext
<1>2. CASE UNCHANGED hdVars
  BY <1>2 DEF hdVars, hdFields, HdWhole, HdTypeOK, HdInv, HdShape, HdPlaces, HdQueueLocked, HdExclusive,
     HdLockOwned, HdRefsMatch, HdDirtyHeld, HdChosen, HdCounts, HdInList
<1> QED BY <1>1, <1>2

(* With a buffer for every task that uses the file system, a buffer is used by
   one task at a time and its count is that of its users and waiters, whatever
   the order of lookups, claims, write-backs and releases: put_hd_buf does not
   panic, and nobody's buffer is claimed for another block.  This ends with the
   first write to a count that another task overwrites.                     *)
THEOREM BuffersAlwaysOwned ==
  ASSUME Cardinality(DiskTasks) <= MAX_HD_BUFS
  PROVE  HdSpec => []HdSafety
<1>1. HdWhole /\ [HdNext]_hdVars => HdWhole'
  BY HdInvStep
<1>2. HdInit => HdWhole
  BY HdInitInv, InvTypeOK DEF HdWhole
<1>3. HdWhole => HdSafety
  BY DEF HdWhole, HdSafety, HdInv
<1> QED BY <1>1, <1>2, <1>3, PTL DEF HdSpec

-----------------------------------------------------------------------------
(* Coherence.  As long as no two tasks meet between lookup and claim, a block
   has one buffer, which stays that of the tasks that found it; the disk is
   current unless that buffer is dirty, and the buffer is current unless it is
   being read.                                                              *)
HdRwModes ==
    \A t \in DiskTasks : /\ hdPc[t] \in {"claimed", "load"} => ~is_dirty[hdb[t]]
                         /\ hdPc[t] = "flush" => is_dirty[hdb[t]]

HdOneInWindow == \A t, u \in DiskTasks : InWindow(t) /\ InWindow(u) => t = u

HdMissed ==
    \A t \in DiskTasks : hdPc[t] \in {"miss", "claim"} =>
        \A n \in HdInList : block_no[n] # hdWant[t]

HdRight ==
    \A t \in DiskTasks : hdPc[t] \notin {"out", "miss", "claim"} => block_no[hdb[t]] = hdWant[t]

(* Nobody finds a buffer before the list is unlocked again.                 *)
HdAlone ==
    \A t, u \in DiskTasks : hdPc[t] = "claimed" /\ t # u /\ hdb[u] = hdb[t] =>
        hdPc[u] \in {"out", "miss"}

HdDiskCurrent ==
    \A b \in DiskBlocks : \/ hdDisk[b] = hdLatest[b]
                          \/ \E n \in HdInList : block_no[n] = b /\ is_dirty[n]

HdReading(n) == \E t \in DiskTasks : hdPc[t] \in {"claimed", "load"} /\ hdb[t] = n

HdBufCurrent ==
    \A n \in HdInList : hdBuf[n] = hdLatest[block_no[n]] \/ HdReading(n)

HdCalm ==
    /\ HdRwModes /\ HdOneInWindow /\ HdMissed /\ HdRight /\ HdAlone /\ OneBuffer
    /\ HdDiskCurrent /\ HdBufCurrent

LEMMA CalmCoherent == HdInv /\ HdCalm => OneBuffer /\ RightBlock /\ SeesLatest
<1> SUFFICES ASSUME HdInv, HdCalm PROVE OneBuffer /\ RightBlock /\ SeesLatest
  OBVIOUS
<1> USE DEF HdCalm
<1>1. RightBlock
  BY DEF RightBlock, HdRight
<1>2. ASSUME NEW t \in DiskTasks, hdPc[t] = "use" PROVE hdBuf[hdb[t]] = hdLatest[hdWant[t]]
  <2>1. hdb[t] \in HdInList /\ hdLock[hdb[t]] = t /\ block_no[hdb[t]] = hdWant[t]
    BY <1>2, BufOfTask DEF HdInv, HdExclusive, HdOwning, HdRight
  <2>2. ~HdReading(hdb[t])
    BY <1>2, <2>1 DEF HdInv, HdExclusive, HdOwning, HdReading, HdAlone
  <2> QED BY <2>1, <2>2 DEF HdBufCurrent
<1> QED BY <1>1, <1>2 DEF SeesLatest

LEMMA HdInitCalm == HdInit => HdCalm
<1> SUFFICES ASSUME HdInit PROVE HdCalm
  OBVIOUS
<1>1. HdRwModes /\ HdOneInWindow /\ HdMissed /\ HdRight /\ HdAlone
  BY DEF HdInit, HdRwModes, HdOneInWindow, InWindow, HdMissed, HdRight, HdAlone
<1>2. OneBuffer /\ HdBufCurrent /\ HdDiskCurrent
  BY DEF HdInit, OneBuffer, HdBufCurrent, HdDiskCurrent, HdInList
<1> QED BY <1>1, <1>2 DEF HdCalm

(* A task that owns a buffer shares it with nobody else who does.           *)
LEMMA OwnersDiffer ==
  ASSUME HdInv, NEW t \in DiskTasks, NEW u \in DiskTasks, t # u,
         hdPc[t] \in HdOwning, hdPc[u] \in HdOwning
  PROVE  hdb[t] # hdb[u]
BY DEF HdInv, HdExclusive

LEMMA LookupCalm ==
  ASSUME HdInv, HdCalm, NEW t \in DiskTasks, NEW b \in DiskBlocks, HdLookup(t, b), ~hdRaced'
  PROVE  HdCalm'
<1> USE DEF HdCalm
<1>1. /\ hdPc[t] = "out" /\ hdPc'[t] \in {"found", "miss"} /\ hdWant'[t] = b /\ qlock = NoTask
      /\ \A u \in DiskTasks \ {t} : hdb'[u] = hdb[u] /\ hdPc'[u] = hdPc[u] /\ hdWant'[u] = hdWant[u]
      /\ hdRaced' = (hdRaced \/ \E u \in DiskTasks \ {t} : InWindow(u))
  BY DEF HdLookup, HdAt, HdGoto, HdInv, HdShape
<1>2. UNCHANGED <<hdDisk, num_items, block_no, is_dirty, hdBuf, hdLatest, HdInList>>
  BY DEF HdLookup, hdFields, HdInList
<1>3. HdRwModes'
  BY <1>1, <1>2 DEF HdRwModes
<1>4. \A u \in DiskTasks \ {t} : ~InWindow(u)
  BY <1>1
<1>5. HdOneInWindow'
  BY <1>1, <1>4 DEF HdOneInWindow, InWindow
<1>6. IF Cached(b) = {} THEN hdPc'[t] = "miss"
      ELSE hdPc'[t] = "found" /\ hdb'[t] = FirstBuf(Cached(b))
  BY DEF HdLookup, HdGoto, HdInv, HdShape
<1>7. Cached(b) # {} => FirstBuf(Cached(b)) \in Cached(b)
  <2>1. Cached(b) \in SUBSET HdBufs
    BY DEF Cached, HdInList, HdInv, HdShape
  <2> QED BY <2>1, FirstBufFound
<1>8. HdMissed'
  BY <1>1, <1>2, <1>6 DEF HdMissed, Cached
<1>9. HdRight'
  BY <1>1, <1>2, <1>6, <1>7 DEF HdRight, Cached
<1>10. HdAlone'
  <2>1. \A u \in DiskTasks : hdPc'[u] # "claimed"
    BY <1>1 DEF HdInv, HdQueueLocked, HdShape
  <2> QED BY <2>1 DEF HdAlone
<1>11. OneBuffer' /\ HdDiskCurrent'
  BY <1>2 DEF OneBuffer, HdDiskCurrent
<1>12. HdBufCurrent'
  BY <1>1, <1>2 DEF HdBufCurrent, HdReading
<1> QED BY <1>3, <1>5, <1>8, <1>9, <1>10, <1>11, <1>12

(* The steps that change neither blocks nor contents.                       *)
LEMMA QuietCalm ==
  ASSUME HdCalm, NEW t \in DiskTasks,
         UNCHANGED <<hdDisk, num_items, block_no, is_dirty, hdBuf, hdLatest, hdWant>>,
         \A u \in DiskTasks \ {t} : hdb'[u] = hdb[u] /\ hdPc'[u] = hdPc[u],
         hdPc[t] \notin {"out", "miss", "claim", "load"},
         hdPc'[t] \notin {"found", "miss", "claim", "claimed"},
         hdPc'[t] = "incr" => hdPc[t] = "found",
         hdPc'[t] = "load" <=> hdPc[t] = "claimed",
         hdPc'[t] = "flush" => is_dirty[hdb'[t]],
         hdPc'[t] # "out" => hdb'[t] = hdb[t]
  PROVE  HdCalm'
<1> USE DEF HdCalm
<1>0. HdInList' = HdInList
  BY DEF HdInList
<1>1. HdRwModes'
  BY DEF HdRwModes
<1>2. HdOneInWindow' /\ HdMissed'
  BY <1>0 DEF HdOneInWindow, InWindow, HdMissed
<1>3. HdRight'
  BY DEF HdRight
<1>4. HdAlone'
  <2> SUFFICES ASSUME NEW v \in DiskTasks, NEW u \in DiskTasks, hdPc'[v] = "claimed", v # u,
                      hdb'[u] = hdb'[v]
               PROVE  hdPc'[u] \in {"out", "miss"}
    BY DEF HdAlone
  <2>1. v # t /\ hdPc[v] = "claimed" /\ hdb'[v] = hdb[v]
    OBVIOUS
  <2>2. CASE u = t
    BY <2>1, <2>2 DEF HdAlone
  <2>3. CASE u # t
    BY <2>1, <2>3 DEF HdAlone
  <2> QED BY <2>2, <2>3
<1>5. OneBuffer' /\ HdDiskCurrent'
  BY <1>0 DEF OneBuffer, HdDiskCurrent
<1>6. \A n : HdReading(n) => HdReading(n)'
  BY DEF HdReading
<1>7. HdBufCurrent'
  BY <1>0, <1>6 DEF HdBufCurrent
<1> QED BY <1>1, <1>2, <1>3, <1>4, <1>5, <1>7

LEMMA ClaimCalm ==
  ASSUME HdInv, HdCalm, NEW t \in DiskTasks, HdClaim(t) PROVE HdCalm'
<1> USE DEF HdCalm
<1>1. /\ hdPc[t] = "miss" /\ qlock = NoTask /\ hdPc'[t] = "claim"
      /\ \A u \in DiskTasks \ {t} : hdb'[u] = hdb[u] /\ hdPc'[u] = hdPc[u]
      /\ UNCHANGED <<hdDisk, num_items, block_no, is_dirty, hdBuf, hdWant, hdLatest>>
  BY DEF HdClaim, HdAt, HdGoto, hdFields, HdInv, HdShape
<1>2. HdInList' = HdInList
  BY <1>1 DEF HdInList
<1>3. HdRwModes' /\ HdRight'
  BY <1>1 DEF HdRwModes, HdRight
<1>4. HdOneInWindow' /\ HdMissed'
  BY <1>1, <1>2 DEF HdOneInWindow, InWindow, HdMissed
<1>5. HdAlone'
  <2>1. \A u \in DiskTasks : hdPc'[u] # "claimed"
    BY <1>1 DEF HdInv, HdQueueLocked, HdShape
  <2> QED BY <2>1 DEF HdAlone
<1>6. OneBuffer' /\ HdDiskCurrent'
  BY <1>1, <1>2 DEF OneBuffer, HdDiskCurrent
<1>7. \A n : HdReading(n) => HdReading(n)'
  BY <1>1 DEF HdReading
<1>8. HdBufCurrent'
  BY <1>1, <1>2, <1>7 DEF HdBufCurrent
<1> QED BY <1>3, <1>4, <1>5, <1>6, <1>8

LEMMA ResetCalm ==
  ASSUME HdInv, HdCalm, NEW t \in DiskTasks, HdReset(t) PROVE HdCalm'
<1> USE DEF HdCalm
<1>1. hdPc[t] = "claim"
  BY DEF HdReset, HdAt
<1>c. PICK n \in HdBufs : n = hdb[t]
  BY <1>1, ChosenFree
<1>2. /\ \A u \in DiskTasks \ {t} : hdb[u] = n => hdPc[u] \in {"out", "found", "incr", "miss"}
      /\ ~is_dirty[n] /\ qlock = t
      /\ n \in HdInList \/ n = num_items + 1
  BY <1>1, <1>c, ChosenFree
<1>3. /\ num_items' = IF n > num_items THEN n ELSE num_items
      /\ block_no' = [block_no EXCEPT ![n] = hdWant[t]]
      /\ is_dirty' = [is_dirty EXCEPT ![n] = FALSE]
      /\ hdPc' = [hdPc EXCEPT ![t] = "claimed"]
      /\ UNCHANGED <<hdDisk, hdBuf, hdWant, hdb, hdLatest>>
  BY <1>c DEF HdReset, HdGoto
<1>4. /\ HdInList' = HdInList \cup {n}
      /\ \A u \in DiskTasks \ {t} : hdPc'[u] = hdPc[u]
      /\ hdb'[t] = n /\ hdPc'[t] = "claimed"
      /\ block_no'[n] = hdWant[t] /\ ~is_dirty'[n]
      /\ \A m \in HdBufs \ {n} : block_no'[m] = block_no[m] /\ is_dirty'[m] = is_dirty[m]
  <2>1. HdInList' = HdInList \cup {n}
    BY <1>2, <1>3 DEF HdInv, HdShape, HdInList
  <2> QED BY <1>c, <1>3, <2>1 DEF HdInv, HdShape
<1>5. HdInList \subseteq HdBufs
  BY DEF HdInv, HdShape, HdInList
<1>6. \A u \in DiskTasks \ {t} : ~InWindow(u)
  BY <1>1 DEF HdOneInWindow, InWindow
<1>7. \A u \in DiskTasks \ {t} : hdPc[u] # "out" => hdb[u] \in HdBufs \ {n}
  BY <1>2, <1>6, BufOfTask DEF InWindow
<1>8. HdRwModes'
  BY <1>3, <1>4, <1>7 DEF HdRwModes
<1>9. HdOneInWindow' /\ HdMissed'
  BY <1>4, <1>6 DEF HdOneInWindow, InWindow, HdMissed
<1>10. HdRight'
  <2> SUFFICES ASSUME NEW u \in DiskTasks, hdPc'[u] \notin {"out", "miss", "claim"}
               PROVE  block_no'[hdb[u]] = hdWant[u]
    BY <1>3 DEF HdRight
  <2>1. CASE u = t
    BY <1>c, <1>4, <2>1
  <2>2. CASE u # t
    BY <1>4, <1>7, <2>2 DEF HdRight
  <2> QED BY <2>1, <2>2
<1>11. HdAlone'
  <2>1. \A u \in DiskTasks : hdPc'[u] = "claimed" => u = t
    BY <1>2, <1>4 DEF HdInv, HdQueueLocked
  <2> QED BY <1>c, <1>3, <1>4, <1>7, <2>1 DEF HdAlone
<1>12. \A m \in HdInList : block_no[m] # hdWant[t]
  BY <1>1 DEF HdMissed
<1>13. OneBuffer'
  BY <1>4, <1>5, <1>12 DEF OneBuffer
<1>14. HdDiskCurrent'
  <2> SUFFICES ASSUME NEW b \in DiskBlocks, hdDisk[b] # hdLatest[b]
               PROVE  \E m \in HdInList' : block_no'[m] = b /\ is_dirty'[m]
    BY <1>3 DEF HdDiskCurrent
  <2>1. PICK m \in HdInList : block_no[m] = b /\ is_dirty[m]
    BY DEF HdDiskCurrent
  <2>2. m \in HdBufs \ {n}
    BY <1>2, <1>5, <2>1
  <2> QED BY <1>4, <2>1, <2>2
<1>15. HdBufCurrent'
  <2> SUFFICES ASSUME NEW m \in HdInList'
               PROVE  hdBuf'[m] = hdLatest'[block_no'[m]] \/ HdReading(m)'
    BY DEF HdBufCurrent
  <2>1. CASE m = n
    BY <1>4, <2>1 DEF HdReading
  <2>2. CASE m # n
    <3>1. m \in HdInList /\ m \in HdBufs \ {n}
      BY <1>4, <1>5, <2>2
    <3>2. hdBuf[m] = hdLatest[block_no[m]] \/ HdReading(m)
      BY <3>1 DEF HdBufCurrent
    <3>3. HdReading(m) => HdReading(m)'
      BY <1>1, <1>3, <1>4 DEF HdReading
    <3> QED BY <1>3, <1>4, <3>1, <3>2, <3>3
  <2> QED BY <2>1, <2>2
<1> QED BY <1>8, <1>9, <1>10, <1>11, <1>13, <1>14, <1>15

LEMMA LoadCalm ==
  ASSUME HdInv, HdCalm, NEW t \in DiskTasks, HdLoad(t) PROVE HdCalm'
<1> USE DEF HdCalm
<1>1. /\ hdPc[t] = "load"
      /\ hdPc' = [hdPc EXCEPT ![t] = "use"]
      /\ UNCHANGED <<num_items, block_no, is_dirty, hdWant, hdb, hdLatest>>
  BY DEF HdLoad, HdAt, HdGoto
<1>b. hdb[t] \in HdBufs /\ hdb[t] \in HdInList
  BY <1>1, BufOfTask
<1>c. PICK n \in HdBufs : n = hdb[t]
  BY <1>b
<1>2. ~is_dirty[n]
  BY <1>1, <1>c DEF HdRwModes
<1>3. /\ hdBuf' = [hdBuf EXCEPT ![n] = hdDisk[block_no[n]]] /\ UNCHANGED hdDisk
  BY <1>2, <1>c DEF HdLoad, HdRw
<1>4. /\ HdInList' = HdInList /\ hdPc'[t] = "use"
      /\ \A u \in DiskTasks \ {t} : hdPc'[u] = hdPc[u]
  BY <1>1 DEF HdInList, HdInv, HdShape
<1>5. HdRwModes'
  BY <1>1, <1>4 DEF HdRwModes
<1>6. HdOneInWindow' /\ HdMissed' /\ HdRight' /\ HdAlone'
  BY <1>1, <1>4 DEF HdOneInWindow, InWindow, HdMissed, HdRight, HdAlone
<1>7. OneBuffer' /\ HdDiskCurrent'
  BY <1>1, <1>3, <1>4 DEF OneBuffer, HdDiskCurrent
<1>8. hdDisk[block_no[n]] = hdLatest[block_no[n]]
  <2>1. \A m \in HdInList : block_no[m] = block_no[n] => ~is_dirty[m]
    BY <1>2, <1>b, <1>c DEF OneBuffer
  <2>2. block_no[n] \in DiskBlocks
    BY DEF HdInv, HdShape
  <2> QED BY <2>1, <2>2 DEF HdDiskCurrent
<1>9. HdBufCurrent'
  <2> SUFFICES ASSUME NEW m \in HdInList
               PROVE  hdBuf'[m] = hdLatest[block_no[m]] \/ HdReading(m)'
    BY <1>1, <1>4 DEF HdBufCurrent
  <2>0. m \in HdBufs
    BY DEF HdInv, HdShape, HdInList
  <2>1. CASE m = n
    BY <1>3, <1>8, <2>1 DEF HdInv, HdShape
  <2>2. CASE m # n
    <3>1. hdBuf'[m] = hdBuf[m]
      BY <1>3, <2>0, <2>2 DEF HdInv, HdShape
    <3>2. hdBuf[m] = hdLatest[block_no[m]] \/ HdReading(m)
      BY DEF HdBufCurrent
    <3>3. HdReading(m) => HdReading(m)'
      BY <1>c, <1>1, <1>4, <2>2 DEF HdReading
    <3> QED BY <3>1, <3>2, <3>3
  <2> QED BY <2>1, <2>2
<1> QED BY <1>5, <1>6, <1>7, <1>9

LEMMA ModifyCalm ==
  ASSUME HdInv, HdCalm, NEW t \in DiskTasks, NEW v \in DiskValues, HdModify(t, v) PROVE HdCalm'
<1> USE DEF HdCalm
<1>1. /\ hdPc[t] = "use"
      /\ UNCHANGED <<hdDisk, num_items, block_no, hdPc, hdWant, hdb>>
  BY DEF HdModify, HdAt
<1>b. hdb[t] \in HdBufs /\ hdb[t] \in HdInList
  BY <1>1, BufOfTask
<1>c. PICK n \in HdBufs : n = hdb[t]
  BY <1>b
<1>2. /\ hdBuf' = [hdBuf EXCEPT ![n] = v] /\ is_dirty' = [is_dirty EXCEPT ![n] = TRUE]
      /\ hdLatest' = [hdLatest EXCEPT ![hdWant[t]] = v]
  BY <1>c DEF HdModify
<1>3. HdRwModes'
  <2>1. \A u \in DiskTasks : hdPc[u] = "load" => hdb[u] # n
    BY <1>1, <1>c, OwnersDiffer DEF HdOwning
  <2>2. \A u \in DiskTasks : hdPc[u] = "claimed" => hdb[u] # n
    BY <1>1, <1>c DEF HdAlone
  <2>3. \A u \in DiskTasks : hdPc[u] \in {"claimed", "load", "flush"} => hdb[u] \in HdBufs
    BY BufOfTask
  <2> QED BY <1>1, <1>2, <2>1, <2>2, <2>3 DEF HdRwModes, HdInv, HdShape
<1>4. HdInList' = HdInList /\ \A m : HdReading(m)' <=> HdReading(m)
  BY <1>1 DEF HdInList, HdReading
<1>5. HdOneInWindow' /\ HdMissed' /\ HdRight' /\ HdAlone' /\ OneBuffer'
  BY <1>1, <1>4 DEF HdOneInWindow, InWindow, HdMissed, HdRight, HdAlone, OneBuffer
<1>6. block_no[n] = hdWant[t] /\ hdWant[t] \in DiskBlocks
  BY <1>1, <1>c DEF HdRight, HdInv, HdShape
<1>7. HdDiskCurrent'
  <2> SUFFICES ASSUME NEW b \in DiskBlocks, hdDisk[b] # hdLatest'[b]
               PROVE  \E m \in HdInList : block_no[m] = b /\ is_dirty'[m]
    BY <1>1, <1>4 DEF HdDiskCurrent
  <2>1. CASE b = hdWant[t]
    BY <1>2, <1>b, <1>c, <1>6, <2>1 DEF HdInv, HdShape
  <2>2. CASE b # hdWant[t]
    <3>1. hdLatest'[b] = hdLatest[b]
      BY <1>2, <2>2 DEF HdInv, HdShape
    <3>2. PICK m \in HdInList : block_no[m] = b /\ is_dirty[m]
      BY <3>1 DEF HdDiskCurrent
    <3>3. m \in HdBufs
      BY DEF HdInv, HdShape, HdInList
    <3> QED BY <1>2, <3>2, <3>3 DEF HdInv, HdShape
  <2> QED BY <2>1, <2>2
<1>8. HdBufCurrent'
  <2> SUFFICES ASSUME NEW m \in HdInList
               PROVE  hdBuf'[m] = hdLatest'[block_no[m]] \/ HdReading(m)
    BY <1>1, <1>4 DEF HdBufCurrent
  <2>0. m \in HdBufs
    BY DEF HdInv, HdShape, HdInList
  <2>1. CASE m = n
    BY <1>2, <1>6, <2>1 DEF HdInv, HdShape
  <2>2. CASE m # n
    <3>1. block_no[m] # hdWant[t]
      BY <1>b, <1>c, <1>6, <2>2 DEF OneBuffer
    <3>2. hdBuf'[m] = hdBuf[m] /\ hdLatest'[block_no[m]] = hdLatest[block_no[m]]
      BY <1>2, <2>0, <2>2, <3>1 DEF HdInv, HdShape
    <3> QED BY <3>2 DEF HdBufCurrent
  <2> QED BY <2>1, <2>2
<1> QED BY <1>3, <1>5, <1>7, <1>8

LEMMA FlushCalm ==
  ASSUME HdInv, HdCalm, NEW t \in DiskTasks, HdFlush(t) PROVE HdCalm'
<1> USE DEF HdCalm
<1>1. /\ hdPc[t] = "flush"
      /\ hdPc' = [hdPc EXCEPT ![t] = "unlock"]
      /\ UNCHANGED <<num_items, block_no, hdWant, hdb, hdLatest>>
  BY DEF HdFlush, HdAt, HdGoto
<1>b. hdb[t] \in HdBufs /\ hdb[t] \in HdInList
  BY <1>1, BufOfTask
<1>c. PICK n \in HdBufs : n = hdb[t]
  BY <1>b
<1>2. is_dirty[n] /\ is_dirty' = [is_dirty EXCEPT ![n] = FALSE]
  BY <1>1, <1>c DEF HdRwModes, HdFlush
<1>3. /\ hdDisk' = [hdDisk EXCEPT ![block_no[n]] = hdBuf[n]] /\ UNCHANGED hdBuf
  BY <1>2, <1>c DEF HdFlush, HdRw
<1>4. /\ HdInList' = HdInList /\ hdPc'[t] = "unlock"
      /\ \A u \in DiskTasks \ {t} : hdPc'[u] = hdPc[u]
  BY <1>1 DEF HdInList, HdInv, HdShape
<1>5. HdRwModes'
  <2>1. \A u \in DiskTasks \ {t} : hdPc[u] \in {"load", "flush"} => hdb[u] # n /\ hdb[u] \in HdBufs
    BY <1>1, <1>c, OwnersDiffer, BufOfTask DEF HdOwning
  <2>2. \A u \in DiskTasks : hdPc[u] = "claimed" => hdb[u] # n /\ hdb[u] \in HdBufs
    BY <1>1, <1>c, BufOfTask DEF HdAlone
  <2> QED BY <1>1, <1>2, <1>4, <2>1, <2>2 DEF HdRwModes, HdInv, HdShape
<1>6. HdOneInWindow' /\ HdMissed' /\ HdRight' /\ HdAlone' /\ OneBuffer'
  BY <1>1, <1>4 DEF HdOneInWindow, InWindow, HdMissed, HdRight, HdAlone, OneBuffer
<1>7. hdBuf[n] = hdLatest[block_no[n]]
  <2>1. ~HdReading(n)
    BY <1>1, <1>c, OwnersDiffer DEF HdOwning, HdReading, HdAlone
  <2> QED BY <1>b, <1>c, <2>1 DEF HdBufCurrent
<1>8. HdDiskCurrent'
  <2> SUFFICES ASSUME NEW b \in DiskBlocks, hdDisk'[b] # hdLatest[b]
               PROVE  \E m \in HdInList : block_no[m] = b /\ is_dirty'[m]
    BY <1>1, <1>4 DEF HdDiskCurrent
  <2>1. b # block_no[n]
    BY <1>3, <1>7 DEF HdInv, HdShape
  <2>2. hdDisk'[b] = hdDisk[b]
    BY <1>3, <2>1 DEF HdInv, HdShape
  <2>3. PICK m \in HdInList : block_no[m] = b /\ is_dirty[m]
    BY <2>2 DEF HdDiskCurrent
  <2>4. m \in HdBufs /\ m # n
    BY <2>1, <2>3 DEF HdInv, HdShape, HdInList
  <2> QED BY <1>2, <2>3, <2>4 DEF HdInv, HdShape
<1>9. HdBufCurrent'
  <2>1. \A m : HdReading(m) => HdReading(m)'
    BY <1>1, <1>4 DEF HdReading
  <2> QED BY <1>1, <1>3, <1>4, <2>1 DEF HdBufCurrent
<1> QED BY <1>5, <1>6, <1>8, <1>9

(* The whole invariant of the coherent cache.                               *)
HdCoherentInv == HdWhole /\ (~hdTorn /\ ~hdRaced => HdCalm)

LEMMA HdCoherentStep ==
  ASSUME Cardinality(DiskTasks) <= MAX_HD_BUFS
  PROVE  HdCoherentInv /\ [HdNext]_hdVars => HdCoherentInv'
<1> SUFFICES ASSUME HdCoherentInv, [HdNext]_hdVars, ~hdTorn', ~hdRaced' PROVE HdCalm'
  BY HdInvStep DEF HdCoherentInv
<1>1. CASE HdNext
  <2>0. HdInv /\ HdShape
    BY <1>1 DEF HdNext, HdCoherentInv, HdWhole, HdInv
  <2>1. ~hdRaced
    BY <1>1 DEF HdNext, HdLookup, HdReadRefs, HdReference, LockBuf, HdClaim, HdReset, HdLockClaimed,
       HdLoad, HdModify, HdPut, HdDrop, HdFlush, HdUnlock
  <2>2. HdCalm
    BY <1>1, <2>1 DEF HdNext, HdCoherentInv
  <2>3. ASSUME NEW t \in DiskTasks, NEW b \in DiskBlocks, HdLookup(t, b) PROVE HdCalm'
    BY <2>0, <2>2, <2>3, LookupCalm
  <2>4. ASSUME NEW t \in DiskTasks, HdReadRefs(t) \/ HdReference(t) \/ LockBuf(t) PROVE HdCalm'
    BY <2>0, <2>2, <2>4, QuietCalm DEF HdReadRefs, HdReference, LockBuf, HdAt, HdGoto, HdShape, hdFields
  <2>5. ASSUME NEW t \in DiskTasks, HdClaim(t) PROVE HdCalm'
    BY <2>0, <2>2, <2>5, ClaimCalm
  <2>6. ASSUME NEW t \in DiskTasks, HdReset(t) PROVE HdCalm'
    BY <2>0, <2>2, <2>6, ResetCalm
  <2>7. ASSUME NEW t \in DiskTasks, HdLockClaimed(t) PROVE HdCalm'
    BY <2>0, <2>2, <2>7, QuietCalm DEF HdLockClaimed, HdAt, HdGoto, HdShape, hdFields
  <2>8. ASSUME NEW t \in DiskTasks, HdLoad(t) PROVE HdCalm'
    BY <2>0, <2>2, <2>8, LoadCalm
  <2>9. ASSUME NEW t \in DiskTasks, NEW v \in DiskValues, HdModify(t, v) PROVE HdCalm'
    BY <2>0, <2>2, <2>9, ModifyCalm
  <2>10. ASSUME NEW t \in DiskTasks, HdPut(t) PROVE HdCalm'
    BY <2>0, <2>2, <2>10, QuietCalm DEF HdPut, HdAt, HdGoto, HdShape, hdFields
  <2>11. ASSUME NEW t \in DiskTasks, HdDrop(t) PROVE HdCalm'
    BY <2>0, <2>2, <2>11, QuietCalm DEF HdDrop, MustFlush, HdAt, HdGoto, HdShape, hdFields
  <2>12. ASSUME NEW t \in DiskTasks, HdFlush(t) PROVE HdCalm'
    BY <2>0, <2>2, <2>12, FlushCalm
  <2>13. ASSUME NEW t \in DiskTasks, HdUnlock(t) PROVE HdCalm'
    BY <2>0, <2>2, <2>13, QuietCalm DEF HdUnlock, HdAt, HdGoto, HdShape, hdFields
  <2> QED BY <1>1, <2>3, <2>4, <2>5, <2>6, <2>7, <2>8, <2>9, <2>10, <2>11, <2>12, <2>13 DEF HdNext
<1>2. CASE UNCHANGED hdVars
  <2>1. HdCalm
    BY <1>2 DEF hdVars, HdCoherentInv
  <2> QED BY <1>2, <2>1 DEF hdVars, hdFields, HdCalm, HdRwModes, HdOneInWindow, HdAlone, HdReading,
     InWindow, HdMissed, HdRight, OneBuffer, HdDiskCurrent, HdBufCurrent, HdInList
<1> QED BY <1>1, <1>2

(* Blocks may be evicted, read again, written by several tasks and written back
   in any order: until two tasks meet in the window of get_hd_buf between its
   search of the list and its reference or claim, or a count is torn there, a
   block has one buffer, a task gets the block it asked for, and it reads what
   was written last.  So that window is the only thing that makes the cache
   incoherent.                                                              *)
THEOREM CacheCoherentUnlessRaced ==
  ASSUME Cardinality(DiskTasks) <= MAX_HD_BUFS
  PROVE  HdSpec => []HdCoherent
<1>1. HdCoherentInv /\ [HdNext]_hdVars => HdCoherentInv'
  BY HdCoherentStep
<1>2. HdInit => HdCoherentInv
  BY HdInitInv, HdInitCalm, InvTypeOK DEF HdCoherentInv, HdWhole
<1>3. HdCoherentInv => HdCoherent
  BY CalmCoherent DEF HdCoherentInv, HdWhole, HdCoherent
<1> QED BY <1>1, <1>2, <1>3, PTL DEF HdSpec
=============================================================================
