----------------------------- MODULE FilesProofs -----------------------------
(* Proofs about open files: the offsets of the structs that are open on one
   file, for every word size, block size and largest file; and the references
   to nodes that descriptors and calls hold, for every number of inodes, nodes
   and descriptors, all names and paths.                                    *)
EXTENDS FileOffsets, Files, NatLemmas, SequenceTheorems

-----------------------------------------------------------------------------
(* Offsets.                                                                 *)

(* Offsets are words, and cofs_write never makes a file larger than the largest. *)
OffsetsType ==
    /\ offs \in [OpenStructs -> 0..(Word - 1)]
    /\ size \in 0..MaxFileBytes
    /\ behind \subseteq OpenStructs

OffsetsInv == OffsetsType /\ OffsetsRight

LEMMA Sums ==
  ASSUME NEW a \in Nat, NEW b \in Nat
  PROVE  /\ Add(a, b) \in 0..(Word - 1)
         /\ a + b < Word => Add(a, b) = a + b
<1>1. PICK s \in Nat : s = a + b
  OBVIOUS
<1>2. PICK W \in Nat \ {0} : W = Word
  BY FileOffsetsAssumption
<1>3. s % W \in 0..(W - 1) /\ (s < W => s % W = s)
  BY Z3
<1> QED BY <1>1, <1>2, <1>3, Zenon DEF Add

LEMMA OffsetsStep == OffsetsInv /\ [OffsetsNext]_offsVars => OffsetsInv'
<1> SUFFICES ASSUME OffsetsInv, [OffsetsNext]_offsVars PROVE OffsetsInv'
  OBVIOUS
<1>w. \A a, b \in Nat : Add(a, b) \in 0..(Word - 1) /\ (a + b < Word => Add(a, b) = a + b)
  BY Sums
<1> USE FileOffsetsAssumption DEF OffsetsInv, OffsetsType, OffsetsRight
<1>1. ASSUME NEW f \in OpenStructs, NEW append \in BOOLEAN, OpenAt(f, append) PROVE OffsetsInv'
  BY <1>1 DEF OpenAt
<1>s. CASE OffsetsStop
  BY <1>s DEF OffsetsStop
<1>2. ASSUME NEW f \in OpenStructs, NEW n \in Counts, SysReadAt(f, n) PROVE OffsetsInv'
  <2>1. PICK a \in 0..(Word - 1) : a = offs[f]
    OBVIOUS
  <2>2. PICK m \in Nat : m = ReadBytes(a, n)
    <3>1. n \in Nat
      OBVIOUS
    <3> QED BY <2>1, <3>1 DEF ReadBytes
  <2>3. CASE m > 0 /\ LeavesFile(a, m)
    BY <1>2, <1>s, <2>1, <2>2, <2>3 DEF SysReadAt
  <2>4. CASE m = 0
    <3>1. offs' = [offs EXCEPT ![f] = a] /\ size' = size /\ behind' = behind
      BY <1>2, <2>1, <2>2, <2>4 DEF SysReadAt
    <3> QED BY <2>1, <3>1
  <2>5. CASE m > 0 /\ ~LeavesFile(a, m)
    <3>1. a + m <= MappedBytes /\ a + m < Word
      BY <2>1, <2>2, <2>5 DEF LeavesFile
    <3>2. Add(a, m) = a + m
      BY <2>1, <2>2, <3>1, <1>w
    <3>3. a < size /\ m = (IF Add(a, n) > size THEN size - a ELSE n)
      BY <2>1, <2>2, <2>5 DEF ReadBytes
    <3>4. a + m <= size
      BY <2>1, <2>2, <3>2, <3>3
    <3>5. offs' = [offs EXCEPT ![f] = a + m] /\ size' = size /\ behind' = behind
      BY <1>2, <2>1, <2>2, <2>5, <3>2 DEF SysReadAt
    <3> QED BY <2>1, <2>2, <3>1, <3>4, <3>5
  <2> QED BY <2>2, <2>3, <2>4, <2>5
<1>3. ASSUME NEW f \in OpenStructs, NEW n \in Counts, SysWriteAt(f, n) PROVE OffsetsInv'
  <2>1. PICK a \in 0..(Word - 1) : a = offs[f]
    OBVIOUS
  <2>2. PICK m \in Nat : m = WriteBytes(a, n) /\ (m > 0 => Add(a, m) <= MaxFileBytes /\ a <= size)
    <3>1. n \in Nat /\ Add(a, n) \in Nat
      BY <2>1, <1>w
    <3>2. CASE a > size \/ Add(a, n) > MaxFileBytes
      BY <3>2 DEF WriteBytes
    <3>3. CASE ~(a > size \/ Add(a, n) > MaxFileBytes)
      <4>1. WriteBytes(a, n) = n
        BY <3>3 DEF WriteBytes
      <4>2. a <= size /\ Add(a, n) <= MaxFileBytes
        BY <2>1, <3>1, <3>3
      <4> QED BY <3>1, <4>1, <4>2
    <3> QED BY <3>2, <3>3
  <2>3. CASE m > 0 /\ LeavesFile(a, m)
    BY <1>3, <1>s, <2>1, <2>2, <2>3 DEF SysWriteAt
  <2>4. CASE ~(m > 0 /\ LeavesFile(a, m))
    <3>1. Add(a, m) = a + m
      <4>1. a + m < Word
        BY <2>1, <2>2, <2>4 DEF LeavesFile
      <4> QED BY <2>1, <2>2, <4>1, <1>w
    <3>2. m > 0 => a + m <= MaxFileBytes
      BY <2>2, <3>1
    <3>3. /\ offs' = [offs EXCEPT ![f] = a + m]
          /\ size' = IF m > 0 /\ a + m > size THEN a + m ELSE size
          /\ behind' = {g \in behind : offs'[g] > size'}
      BY <1>3, <2>1, <2>2, <2>4, <3>1, Zenon DEF SysWriteAt
    <3> QED BY <2>1, <2>2, <3>2, <3>3
  <2> QED BY <2>3, <2>4
<1>4. ASSUME NEW f \in OpenStructs, NEW n \in Counts, NEW whence \in {"SEEK_SET", "SEEK_CUR", "SEEK_END"},
             SysLseek(f, n, whence)
      PROVE  OffsetsInv'
  <2>1. PICK a \in 0..(Word - 1) : a = offs[f]
    OBVIOUS
  <2>2. PICK c \in 0..(Word - 1) : c = SeekCur(a, n) /\ (c = a \/ c <= size)
    <3>1. n + a = a + n
      BY <2>1
    <3>2. Add(n, a) \in 0..(Word - 1)
      BY <2>1, <1>w
    <3>3. Add(a, n) = Add(n, a)
      BY <3>1, Zenon DEF Add
    <3> QED BY <3>2, <3>3 DEF SeekCur
  <2>3. PICK b \in 0..(Word - 1) :
            /\ offs' = [offs EXCEPT ![f] = b]
            /\ b = a \/ b <= size \/ whence = "SEEK_END"
    <3>1. CASE whence = "SEEK_SET"
      <4>1. PICK b \in 0..(Word - 1) : b = IF n > size THEN a ELSE n
        OBVIOUS
      <4>2. offs' = [offs EXCEPT ![f] = b] /\ (b = a \/ b <= size)
        BY <1>4, <2>1, <3>1, <4>1 DEF SysLseek
      <4> QED BY <4>2
    <3>2. CASE whence = "SEEK_CUR"
      BY <1>4, <2>1, <2>2, <3>2 DEF SysLseek
    <3>3. CASE whence = "SEEK_END"
      BY <1>4, <2>1, <3>3 DEF SysLseek
    <3> QED BY <3>1, <3>2, <3>3
  <2> QED BY <1>4, <2>1, <2>3 DEF SysLseek
<1>5. ASSUME NEW n \in Counts, SysFtruncate(n) PROVE OffsetsInv'
  BY <1>5 DEF SysFtruncate
<1>6. CASE UNCHANGED offsVars
  BY <1>6 DEF offsVars
<1> QED BY <1>1, <1>2, <1>3, <1>4, <1>5, <1>6 DEF OffsetsNext

(* An offset comes behind the end of the file only by a cut, through whichever struct,
   or by SEEK_END: read, write, open and the other seeks that return keep it inside,
   and the file no larger than the largest, although they add words that wrap. *)
THEOREM OffsetsStayInFile == OffsetsSpec => []OffsetsRight
<1>1. OffsetsInit => OffsetsInv
  BY FileOffsetsAssumption DEF OffsetsInit, OffsetsInv, OffsetsType, OffsetsRight
<1>2. OffsetsInv => OffsetsRight
  BY DEF OffsetsInv
<1> QED BY <1>1, <1>2, OffsetsStep, PTL DEF OffsetsSpec

-----------------------------------------------------------------------------
(* Names and descriptors: what every call keeps true of the inodes on disk and
   of the node cache, with any number of references held by the call itself. *)

Entry == {Hole} \cup [name : Names, inode : Inodes \ {ROOT}]
DiskInode == [type : {"none", "file", "dir"}, mask : Nat, links : Nat, ents : Seq(Entry)]
Disks == [Inodes -> DiskInode]

(* The places of the entries that lead to an inode.                         *)
Refs(disk, i) ==
    UNION {{d} \X {k \in 1..Len(disk[d].ents) : disk[d].ents[k].inode = i} : d \in Inodes}

(* No inode has more names than links, and one that is free has none.       *)
Linked(disk, i) ==
    /\ IsFiniteSet(Refs(disk, i)) /\ Cardinality(Refs(disk, i)) <= disk[i].links
    /\ disk[i].type = "none" => Refs(disk, i) = {}

DiskOk(disk) ==
    /\ disk \in Disks
    /\ disk[ROOT].type = "dir" /\ disk[ROOT].links >= 1
    /\ \A i \in Inodes \ {ROOT} : Linked(disk, i)

(* The first node is the root's, no inode has two, and a node in use has the type
   of its inode.                                                            *)
Typed(disk, c) ==
    c.type \in {"none", disk[c.inode].type} /\ (c.ref > 0 => c.type # "none")

CacheOk(disk, cache) ==
    /\ cache \in Seq(CofsNode) /\ Len(cache) \in 1..MAX_CACHED_NODES
    /\ cache[1].inode = ROOT /\ cache[1].ref >= 1
    /\ \A n, m \in 1..Len(cache) : cache[n].inode = cache[m].inode => n = m
    /\ \A n \in 1..Len(cache) : Typed(disk, cache[n])

(* How many references to each node are held by descriptors and by the call.
   Those of the root do not count.  The inodes of the nodes in pin, which are
   held until the end of the call, stay what they are.                      *)
Nodes == 1..MAX_CACHED_NODES
Holds == [Nodes -> Nat]
Inc(H, n) == [H EXCEPT ![n] = @ + 1]
Holding(H, pin) == H \in Holds /\ DOMAIN pin \subseteq Nodes /\ \A n \in DOMAIN pin : H[n] > 0

HoldOk(cache, H, pin) ==
    /\ \A n \in 2..Len(cache) : cache[n].ref = H[n] + cache[n].leak
    /\ \A n \in Nodes \ {1} : H[n] > 0 => n <= Len(cache)
    /\ \A n \in DOMAIN pin : cache[n].inode = pin[n]

Halts == {"panic", "hang", "wild"}
IsCofs(s) ==
    /\ s = [disk |-> s.disk, cache |-> s.cache, failed |-> s.failed, halt |-> s.halt]
    /\ s.halt = "no" \/ s.halt \in Halts

Good(s, H, pin) ==
    /\ IsCofs(s) /\ s.halt = "no"
    /\ DiskOk(s.disk) /\ CacheOk(s.disk, s.cache) /\ HoldOk(s.cache, H, pin)

Done(s, H, pin) == IsCofs(s) /\ (~Stopped(s) => Good(s, H, pin))

(* The result of a search: a node, which is held, or 0.                     *)
Found(r, H, pin) ==
    /\ IsCofs(r.s) /\ r.n \in {0} \cup Nodes
    /\ ~Stopped(r.s) => Good(r.s, IF r.n = 0 THEN H ELSE Inc(H, r.n), pin)

-----------------------------------------------------------------------------
(* The first node is the root's, and there are inodes and nodes.            *)
LEMMA Consts ==
  /\ ROOT \in Inodes /\ ROOT = 1 /\ NUM_INODES \in Nat /\ MAX_CACHED_NODES \in Nat
  /\ 1 \in Nodes /\ IsFiniteSet(Inodes)
<1>1. NUM_INODES \in Nat /\ NUM_INODES > 1 /\ MAX_CACHED_NODES \in Nat /\ MAX_CACHED_NODES > 0
  <2>1. NUM_INODES \in Nat \ {0, 1} /\ MAX_CACHED_NODES \in Nat \ {0}
    BY FilesAssumption, Zenon
  <2> QED BY <2>1
<1>2. NUM_INODES - 1 \in Int /\ 1 \in Int
  BY <1>1
<1>3. IsFiniteSet(1..(NUM_INODES - 1))
  BY <1>2, FS_Interval
<1> QED BY <1>1, <1>3 DEF ROOT, Inodes, Nodes

(* The first and the last of a set of places.                               *)
LEMMA MinPlace ==
  ASSUME NEW N \in Nat, NEW T \in SUBSET (1..N), T # {}
  PROVE  Min(T) \in T /\ \A m \in T : Min(T) <= m
<1>1. T \in SUBSET Nat
  OBVIOUS
<1>2. \E n \in T : \A m \in T : n <= m
  BY <1>1, LeastExists
<1> QED BY <1>2, Zenon DEF Min

LEMMA MaxPlace ==
  ASSUME NEW N \in Nat, NEW T \in SUBSET (1..N), T # {}
  PROVE  Max(T) \in T
<1> DEFINE U == {N - n : n \in T}
<1>0. \A n \in T : n \in Nat /\ n <= N /\ N - n \in Nat
  OBVIOUS
<1>1. U \in SUBSET Nat /\ U # {}
  BY <1>0
<1>2. PICK u \in U : \A v \in U : u <= v
  BY <1>1, LeastExists
<1>3. PICK n \in T : u = N - n
  BY <1>2
<1>4. \A m \in T : n >= m
  <2> TAKE m \in T
  <2>1. N - m \in U
    OBVIOUS
  <2>2. N - n <= N - m
    BY <1>2, <1>3, <2>1
  <2> HIDE DEF U
  <2> QED BY <1>0, <2>2
<1> QED BY <1>3, <1>4, Zenon DEF Max

LEMMA RefsAre ==
  ASSUME NEW disk, NEW i
  PROVE  /\ \A d, k : <<d, k>> \in Refs(disk, i)
                        <=> d \in Inodes /\ k \in 1..Len(disk[d].ents) /\ disk[d].ents[k].inode = i
         /\ \A p \in Refs(disk, i) : p = <<p[1], p[2]>>
BY DEF Refs

LEMMA NodesTyped ==
  ASSUME NEW disk, NEW cache, CacheOk(disk, cache)
  PROVE  \A n \in 1..Len(cache) : cache[n] \in CofsNode /\ cache[n].inode \in Inodes
<1>1. \A n \in 1..Len(cache) : cache[n] \in CofsNode
  BY ElementOfSeq DEF CacheOk
<1>2. \A c \in CofsNode : c.inode \in Inodes
  BY DEF CofsNode
<1> QED BY <1>1, <1>2

(* Only a write of an entry changes what leads where.                       *)
SameDirs(disk, e) ==
    /\ e \in Disks
    /\ \A i \in Inodes : e[i].type = disk[i].type /\ e[i].links = disk[i].links /\ e[i].ents = disk[i].ents

LEMMA SameRefs ==
  ASSUME NEW disk, NEW e, \A d \in Inodes : e[d].ents = disk[d].ents, NEW i
  PROVE  Refs(e, i) = Refs(disk, i)
BY DEF Refs

(* Nodes are typed by the types of inodes alone.                            *)
LEMMA SameTypes ==
  ASSUME NEW disk, NEW e, NEW cache, CacheOk(disk, cache), \A i \in Inodes : e[i].type = disk[i].type
  PROVE  CacheOk(e, cache)
<1>1. \A n \in 1..Len(cache) : cache[n].inode \in Inodes
  BY NodesTyped
<1>2. \A n \in 1..Len(cache) : Typed(e, cache[n])
  BY <1>1 DEF CacheOk, Typed
<1> QED BY <1>2 DEF CacheOk

LEMMA SameDirsOk ==
  ASSUME NEW disk, NEW e, DiskOk(disk), SameDirs(disk, e)
  PROVE  DiskOk(e) /\ (\A i : Refs(e, i) = Refs(disk, i))
         /\ \A cache : CacheOk(disk, cache) => CacheOk(e, cache)
<1>1. \A i : Refs(e, i) = Refs(disk, i)
  BY SameRefs DEF SameDirs
<1>2. \A i \in Inodes \ {ROOT} : Linked(e, i)
  BY <1>1 DEF Linked, DiskOk, SameDirs
<1>3. DiskOk(e)
  BY <1>2, Consts DEF DiskOk, SameDirs
<1>4. \A cache : CacheOk(disk, cache) => CacheOk(e, cache)
  BY SameTypes DEF SameDirs
<1> QED BY <1>1, <1>3, <1>4

(* Entry k of directory d becomes x; k may be the place behind the last.    *)
Written(disk, e, d, k, x) ==
    /\ e \in Disks
    /\ k \in 1..Len(e[d].ents) /\ e[d].ents[k] = x
    /\ \A j \in 1..Len(disk[d].ents) : j \in 1..Len(e[d].ents)
    /\ \A j \in 1..Len(e[d].ents) : j # k => j \in 1..Len(disk[d].ents) /\ e[d].ents[j] = disk[d].ents[j]
    /\ \A i \in Inodes \ {d} : e[i].ents = disk[i].ents
    /\ \A i \in Inodes : e[i].type = disk[i].type

(* Writing an entry adds the place to one inode, takes it from another.     *)
LEMMA WrittenRefs ==
  ASSUME NEW disk \in Disks, NEW e, NEW d \in Inodes, NEW k, NEW x, Written(disk, e, d, k, x), NEW i
  PROVE  Refs(e, i) = IF x.inode = i THEN Refs(disk, i) \cup {<<d, k>>} ELSE Refs(disk, i) \ {<<d, k>>}
<1>1. \A b, j : b \in Inodes /\ j \in 1..Len(e[b].ents) /\ <<b, j>> # <<d, k>> =>
                   j \in 1..Len(disk[b].ents) /\ e[b].ents[j] = disk[b].ents[j]
  BY DEF Written
<1>2. \A b, j : b \in Inodes /\ j \in 1..Len(disk[b].ents) => j \in 1..Len(e[b].ents)
  BY DEF Written
<1>3. \A b, j : <<b, j>> # <<d, k>> => (<<b, j>> \in Refs(e, i) <=> <<b, j>> \in Refs(disk, i))
  BY <1>1, <1>2, RefsAre
<1>4. <<d, k>> \in Refs(e, i) <=> x.inode = i
  BY RefsAre DEF Written
<1>5. \A p : p \in Refs(e, i) => \E b, j : p = <<b, j>>
  BY RefsAre
<1>6. \A p : p \in Refs(disk, i) => \E b, j : p = <<b, j>>
  BY RefsAre
<1>7. \A p : p # <<d, k>> => (p \in Refs(e, i) <=> p \in Refs(disk, i))
  BY <1>3, <1>5, <1>6
<1> QED BY <1>4, <1>7

(* An entry that leads to i is added, where there was none.                 *)
Spare(disk, i) ==
    i \in Inodes \ {ROOT} /\ disk[i].type # "none" /\ Cardinality(Refs(disk, i)) + 1 <= disk[i].links

(* The fields of inodes.                                                    *)
LEMMA LinksTyped ==
  ASSUME NEW disk \in Disks
  PROVE  \A i \in Inodes : /\ disk[i] \in DiskInode /\ disk[i].links \in Nat /\ disk[i].ents \in Seq(Entry)
                            /\ disk[i].type \in {"none", "file", "dir"} /\ disk[i].mask \in Nat
<1>1. \A i \in Inodes : disk[i] \in DiskInode
  BY DEF Disks
<1>2. \A x \in DiskInode : /\ x.links \in Nat /\ x.ents \in Seq(Entry)
                            /\ x.type \in {"none", "file", "dir"} /\ x.mask \in Nat
  BY DEF DiskInode
<1> QED BY <1>1, <1>2

(* An entry for an inode that has more links than names.                    *)
LEMMA EntryAdded ==
  ASSUME NEW disk, NEW e, NEW d \in Inodes, NEW k, NEW x, DiskOk(disk), Written(disk, e, d, k, x),
         Spare(disk, x.inode), k \in 1..Len(disk[d].ents) => disk[d].ents[k].inode = 0,
         \A j \in Inodes : e[j].links = disk[j].links
  PROVE  DiskOk(e)
<1>t. \A j \in Inodes : disk[j].links \in Nat /\ disk \in Disks
  BY LinksTyped DEF DiskOk
<1>r. \A j : Refs(e, j) = IF x.inode = j THEN Refs(disk, j) \cup {<<d, k>>} ELSE Refs(disk, j) \ {<<d, k>>}
  BY <1>t, WrittenRefs
<1>1. ASSUME NEW j \in Inodes \ {ROOT} PROVE Linked(e, j)
  <2>1. Linked(disk, j) /\ j # 0
    BY <1>1, Consts DEF DiskOk, Inodes
  <2>2. <<d, k>> \notin Refs(disk, j)
    BY <2>1, RefsAre
  <2>3. CASE j = x.inode
    <3>1. Refs(e, j) = Refs(disk, j) \cup {<<d, k>>}
      BY <1>r, <2>3
    <3>2. IsFiniteSet(Refs(e, j)) /\ Cardinality(Refs(e, j)) = Cardinality(Refs(disk, j)) + 1
      <4>1. IsFiniteSet(Refs(disk, j))
        BY <2>1 DEF Linked
      <4>2. /\ IsFiniteSet(Refs(disk, j) \cup {<<d, k>>})
            /\ Cardinality(Refs(disk, j) \cup {<<d, k>>}) = Cardinality(Refs(disk, j)) + 1
        BY <2>2, <4>1, FS_AddElement, Zenon
      <4> QED BY <3>1, <4>2
    <3> QED BY <2>3, <3>2 DEF Linked, Spare, Written
  <2>4. CASE j # x.inode
    <3>1. Refs(e, j) = Refs(disk, j) \ {<<d, k>>}
      BY <1>r, <2>4, Zenon
    <3>2. Refs(e, j) = Refs(disk, j)
      BY <2>2, <3>1, Zenon
    <3> QED BY <2>1, <3>2 DEF Linked, Written
  <2> QED BY <2>3, <2>4
<1> QED BY <1>1, Consts DEF DiskOk, Written

LEMMA EntryTyped ==
  /\ Hole.inode = 0
  /\ \A x \in Entry : x.inode = 0 \/ x.inode \in Inodes \ {ROOT}
  /\ \A x \in Entry : x # Hole => x.name \in Names /\ x.inode \in Inodes \ {ROOT}
  /\ Hole.name \notin Names
  /\ \A j \in Inodes : j # 0
<1>1. Hole.inode = 0 /\ Hole.name = ""
  BY DEF Hole
<1>4. Hole.name \notin Names
  BY <1>1, FilesAssumption, Zenon
<1>2. \A x \in [name : Names, inode : Inodes \ {ROOT}] : x.name \in Names /\ x.inode \in Inodes \ {ROOT}
  OBVIOUS
<1>3. \A j \in Inodes : j # 0
  BY DEF Inodes
<1> QED BY <1>1, <1>2, <1>3, <1>4, Zenon DEF Entry

(* An entry that leads to i becomes a hole, and i loses a link.             *)
LEMMA NamedLinked ==
  ASSUME NEW disk, DiskOk(disk), NEW d \in Inodes, NEW k \in 1..Len(disk[d].ents), NEW i,
         i = disk[d].ents[k].inode, i # 0
  PROVE  /\ i \in Inodes \ {ROOT} /\ <<d, k>> \in Refs(disk, i)
         /\ disk[i].links >= 1 /\ disk[i].type # "none"
<1>1. disk[d].ents[k] \in Entry
  BY LinksTyped, ElementOfSeq DEF DiskOk
<1>2. i \in Inodes \ {ROOT}
  BY <1>1, EntryTyped, Zenon
<1>3. <<d, k>> \in Refs(disk, i)
  BY RefsAre
<1>4. Linked(disk, i) /\ disk[i].links \in Nat
  BY <1>2, LinksTyped DEF DiskOk
<1>5. Cardinality(Refs(disk, i)) # 0 /\ Cardinality(Refs(disk, i)) \in Nat
  BY <1>3, <1>4, FS_EmptySet, FS_CardinalityType DEF Linked
<1> QED BY <1>2, <1>3, <1>4, <1>5 DEF Linked

(* An entry becomes a hole and its inode loses a link.                      *)
LEMMA EntryRemoved ==
  ASSUME NEW disk, NEW e, NEW d \in Inodes, NEW k \in 1..Len(disk[d].ents), NEW i,
         DiskOk(disk), Written(disk, e, d, k, Hole), i = disk[d].ents[k].inode, i # 0,
         \A j \in Inodes : e[j].links = IF j = i THEN disk[j].links - 1 ELSE disk[j].links
  PROVE  DiskOk(e)
<1>t. \A j \in Inodes : disk[j].links \in Nat /\ disk \in Disks
  BY LinksTyped DEF DiskOk
<1>i. i \in Inodes \ {ROOT} /\ <<d, k>> \in Refs(disk, i)
  BY NamedLinked
<1>r. \A j \in Inodes : Refs(e, j) = Refs(disk, j) \ {<<d, k>>}
  <2> TAKE j \in Inodes
  <2>1. Hole.inode # j
    BY EntryTyped, Zenon
  <2> QED BY <1>t, <2>1, WrittenRefs
<1>1. ASSUME NEW j \in Inodes \ {ROOT} PROVE Linked(e, j)
  <2>1. Linked(disk, j)
    BY <1>1 DEF DiskOk
  <2>2. /\ IsFiniteSet(Refs(e, j))
        /\ Cardinality(Refs(e, j)) = IF <<d, k>> \in Refs(disk, j) THEN Cardinality(Refs(disk, j)) - 1
                                      ELSE Cardinality(Refs(disk, j))
    BY <1>r, <2>1, FS_RemoveElement DEF Linked
  <2>3. Cardinality(Refs(disk, j)) \in Nat
    BY <2>1, FS_CardinalityType DEF Linked
  <2>4. Cardinality(Refs(e, j)) <= e[j].links
    <3>1. CASE j = i
      <4>1. e[j].links = disk[j].links - 1 /\ disk[j].links \in Nat
        BY <1>i, <1>t, <3>1
      <4>2. Cardinality(Refs(e, j)) = Cardinality(Refs(disk, j)) - 1 /\ Cardinality(Refs(disk, j)) <= disk[j].links
        BY <1>i, <2>1, <2>2, <3>1, Zenon DEF Linked
      <4> QED BY <2>3, <4>1, <4>2
    <3>2. CASE j # i
      BY <1>t, <2>1, <2>2, <2>3, <3>2 DEF Linked
    <3> QED BY <3>1, <3>2
  <2>5. e[j].type = "none" => Refs(e, j) = {}
    BY <1>r, <2>1 DEF Linked, Written
  <2> QED BY <2>2, <2>4, <2>5 DEF Linked
<1>2. e[ROOT].links = disk[ROOT].links /\ e[ROOT].type = disk[ROOT].type
  BY <1>i, Consts DEF Written
<1> QED BY <1>1, <1>2 DEF DiskOk, Written

(* An inode without names loses its content, and may become free or be taken.  *)
LEMMA Emptied ==
  ASSUME NEW disk, NEW e \in Disks, NEW i \in Inodes \ {ROOT}, DiskOk(disk), Refs(disk, i) = {},
         e[i].ents = <<>>, \A j \in Inodes \ {i} : e[j] = disk[j]
  PROVE  DiskOk(e) /\ Refs(e, i) = {}
<1>1. \A j : \A p \in Refs(e, j) : p \in Refs(disk, j)
  <2> TAKE j
  <2> TAKE p \in Refs(e, j)
  <2>1. p = <<p[1], p[2]>> /\ <<p[1], p[2]>> \in Refs(e, j)
    BY RefsAre, Zenon
  <2>2. p[1] \in Inodes /\ p[2] \in 1..Len(e[p[1]].ents) /\ e[p[1]].ents[p[2]].inode = j
    BY <2>1, RefsAre
  <2>3. p[1] # i
    BY <2>2, EmptySeq
  <2>4. e[p[1]] = disk[p[1]]
    BY <2>2, <2>3
  <2>5. <<p[1], p[2]>> \in Refs(disk, j)
    BY <2>2, <2>4, RefsAre
  <2> QED BY <2>1, <2>5, Zenon
<1>2. Refs(e, i) = {}
  BY <1>1
<1>3. ASSUME NEW j \in Inodes \ {ROOT} PROVE Linked(e, j)
  <2>1. Linked(disk, j) /\ disk[j].links \in Nat
    BY LinksTyped DEF DiskOk
  <2>2. IsFiniteSet(Refs(e, j)) /\ Cardinality(Refs(e, j)) <= Cardinality(Refs(disk, j))
    BY <1>1, <2>1, FS_Subset DEF Linked
  <2>3. Cardinality(Refs(e, j)) \in Nat /\ Cardinality(Refs(disk, j)) \in Nat
    BY <2>1, <2>2, FS_CardinalityType DEF Linked
  <2>4. CASE j = i
    <3>1. Cardinality(Refs(e, j)) = 0
      BY <1>2, <2>4, FS_EmptySet
    <3>2. e[j].links \in Nat
      BY LinksTyped
    <3> QED BY <1>2, <2>2, <2>4, <3>1, <3>2 DEF Linked
  <2>5. CASE j # i
    BY <1>1, <2>1, <2>2, <2>3, <2>5 DEF Linked
  <2> QED BY <2>4, <2>5
<1> QED BY <1>2, <1>3, Consts DEF DiskOk

(* The count of links is set, to no less than there are names.              *)
LEMMA LinksSet ==
  ASSUME NEW disk, NEW e \in Disks, NEW i \in Inodes \ {ROOT}, DiskOk(disk),
         Cardinality(Refs(disk, i)) <= e[i].links,
         \A j \in Inodes : e[j].type = disk[j].type /\ e[j].ents = disk[j].ents,
         \A j \in Inodes \ {i} : e[j].links = disk[j].links
  PROVE  DiskOk(e) /\ Refs(e, i) = Refs(disk, i)
<1>1. \A j : Refs(e, j) = Refs(disk, j)
  BY SameRefs
<1>2. ASSUME NEW j \in Inodes \ {ROOT} PROVE Linked(e, j)
  <2>1. Linked(disk, j)
    BY DEF DiskOk
  <2> QED BY <1>1, <2>1 DEF Linked
<1> QED BY <1>1, <1>2, Consts DEF DiskOk

-----------------------------------------------------------------------------
(* What the operations on nodes do to the parts of the state.               *)
LEMMA SetParts ==
  ASSUME NEW s, IsCofs(s), NEW v
  PROVE  /\ [s EXCEPT !.disk = v] = [disk |-> v, cache |-> s.cache, failed |-> s.failed, halt |-> s.halt]
         /\ [s EXCEPT !.cache = v] = [disk |-> s.disk, cache |-> v, failed |-> s.failed, halt |-> s.halt]
         /\ [s EXCEPT !.failed = v] = [disk |-> s.disk, cache |-> s.cache, failed |-> v, halt |-> s.halt]
         /\ [s EXCEPT !.halt = v] = [disk |-> s.disk, cache |-> s.cache, failed |-> s.failed, halt |-> v]
BY DEF IsCofs

(* A part that is set, the others being what they were.                     *)
DiskSet(s, t, d) == IsCofs(t) /\ t.disk = d /\ t.cache = s.cache /\ t.halt = s.halt
CacheSet(s, t, c) == IsCofs(t) /\ t.disk = s.disk /\ t.cache = c /\ t.halt = s.halt

LEMMA PartsSet ==
  ASSUME NEW s, IsCofs(s), NEW v
  PROVE  /\ DiskSet(s, [s EXCEPT !.disk = v], v)
         /\ CacheSet(s, [s EXCEPT !.cache = v], v)
         /\ DiskSet(s, [s EXCEPT !.failed = v], s.disk)
<1>s. s.halt = "no" \/ s.halt \in Halts
  BY DEF IsCofs
<1>2. DiskSet(s, [s EXCEPT !.disk = v], v)
  <2>1. PICK t : t = [s EXCEPT !.disk = v]
    OBVIOUS
  <2>2. t = [disk |-> v, cache |-> s.cache, failed |-> s.failed, halt |-> s.halt]
    BY <2>1, SetParts
  <2>3. DiskSet(s, t, v)
    BY <1>s, <2>2 DEF DiskSet, IsCofs
  <2> QED BY <2>1, <2>3, Zenon
<1>3. CacheSet(s, [s EXCEPT !.cache = v], v)
  <2>1. PICK t : t = [s EXCEPT !.cache = v]
    OBVIOUS
  <2>2. t = [disk |-> s.disk, cache |-> v, failed |-> s.failed, halt |-> s.halt]
    BY <2>1, SetParts
  <2>3. CacheSet(s, t, v)
    BY <1>s, <2>2 DEF CacheSet, IsCofs
  <2> QED BY <2>1, <2>3, Zenon
<1>4. DiskSet(s, [s EXCEPT !.failed = v], s.disk)
  <2>1. PICK t : t = [s EXCEPT !.failed = v]
    OBVIOUS
  <2>2. t = [disk |-> s.disk, cache |-> s.cache, failed |-> v, halt |-> s.halt]
    BY <2>1, SetParts
  <2>3. DiskSet(s, t, s.disk)
    BY <1>s, <2>2 DEF DiskSet, IsCofs
  <2> QED BY <2>1, <2>3, Zenon
<1> QED BY <1>2, <1>3, <1>4

(* cofs_update_node writes the type and the permissions of an inode.        *)
LEMMA UpdateParts ==
  ASSUME NEW s, IsCofs(s), s.disk \in Disks, NEW n, s.cache[n] \in CofsNode
  PROVE  LET t == CofsUpdateNode(s, n)
             i == s.cache[n].inode
         IN /\ IsCofs(t) /\ t.cache = s.cache /\ t.halt = s.halt /\ t.disk \in Disks
            /\ t.disk[i].type = s.cache[n].type
            /\ t.disk[i].links = s.disk[i].links /\ t.disk[i].ents = s.disk[i].ents
            /\ \A j \in Inodes \ {i} : t.disk[j] = s.disk[j]
<1>1. PICK i, ty, m : i = s.cache[n].inode /\ ty = s.cache[n].type /\ m = s.cache[n].mask
  OBVIOUS
<1>2. i \in Inodes /\ ty \in {"none", "file", "dir"} /\ m \in Nat
  BY <1>1 DEF CofsNode
<1>3. i \in DOMAIN s.disk /\ s.disk[i] \in DiskInode
  BY <1>2 DEF Disks
<1>4. PICK y : y = [[s.disk[i] EXCEPT !.type = ty] EXCEPT !.mask = m]
  OBVIOUS
<1>5. PICK d : d = [s.disk EXCEPT ![i] = y]
  OBVIOUS
<1>6. CofsUpdateNode(s, n) = [s EXCEPT !.disk = d]
  <2>1. CofsUpdateNode(s, n) = [s EXCEPT !.disk[i].type = ty, !.disk[i].mask = m]
    BY <1>1 DEF CofsUpdateNode
  <2>2. [s EXCEPT !.disk[i].type = ty, !.disk[i].mask = m] = [s EXCEPT !.disk = d]
    BY <1>3, <1>4, <1>5 DEF IsCofs
  <2> QED BY <2>1, <2>2
<1>7. DiskSet(s, CofsUpdateNode(s, n), d)
  BY <1>6, PartsSet, Zenon
<1>8. y \in DiskInode /\ y.type = ty /\ y.links = s.disk[i].links /\ y.ents = s.disk[i].ents
  BY <1>2, <1>3, <1>4 DEF DiskInode
<1>9. d \in Disks /\ d[i] = y /\ \A j \in Inodes \ {i} : d[j] = s.disk[j]
  BY <1>2, <1>5, <1>8 DEF Disks
<1> QED BY <1>1, <1>7, <1>8, <1>9 DEF DiskSet

(* Node n becomes v.                                                        *)
NodeSet(cache, c, n, v) ==
    /\ c \in Seq(CofsNode) /\ Len(c) = Len(cache) /\ v \in CofsNode
    /\ \A m \in 1..Len(cache) : c[m] = IF m = n THEN v ELSE cache[m]

(* A node with another count, or what else a call sets in one.              *)
WithRef(c, r) == [c EXCEPT !.ref = r]
WithLeak(c, r) == [c EXCEPT !.leak = r]
WithMask(c, m) == [c EXCEPT !.mask = m]
WithType(c, x, m) == [c EXCEPT !.type = x, !.mask = m]

LEMMA NodeFields ==
  ASSUME NEW c \in CofsNode
  PROVE  /\ c.inode \in Inodes /\ c.ref \in Nat /\ c.type \in {"none", "file", "dir"}
         /\ c.mask \in Nat /\ c.leak \in Nat
BY DEF CofsNode

LEMMA WithFields ==
  ASSUME NEW c \in CofsNode, NEW r \in Nat
  PROVE  /\ WithRef(c, r) \in CofsNode /\ WithRef(c, r).inode = c.inode /\ WithRef(c, r).ref = r
         /\ WithRef(c, r).type = c.type /\ WithRef(c, r).leak = c.leak
         /\ WithLeak(c, r) \in CofsNode /\ WithLeak(c, r).inode = c.inode /\ WithLeak(c, r).ref = c.ref
         /\ WithLeak(c, r).type = c.type /\ WithLeak(c, r).leak = r
         /\ WithMask(c, r) \in CofsNode /\ WithMask(c, r).inode = c.inode /\ WithMask(c, r).ref = c.ref
         /\ WithMask(c, r).type = c.type /\ WithMask(c, r).leak = c.leak
<1>1. /\ WithRef(c, r) \in CofsNode /\ WithRef(c, r).inode = c.inode /\ WithRef(c, r).ref = r
      /\ WithRef(c, r).type = c.type /\ WithRef(c, r).leak = c.leak
  BY DEF CofsNode, WithRef
<1>2. /\ WithLeak(c, r) \in CofsNode /\ WithLeak(c, r).inode = c.inode /\ WithLeak(c, r).ref = c.ref
      /\ WithLeak(c, r).type = c.type /\ WithLeak(c, r).leak = r
  BY DEF CofsNode, WithLeak
<1>3. /\ WithMask(c, r) \in CofsNode /\ WithMask(c, r).inode = c.inode /\ WithMask(c, r).ref = c.ref
      /\ WithMask(c, r).type = c.type /\ WithMask(c, r).leak = c.leak
  BY DEF CofsNode, WithMask
<1> QED BY <1>1, <1>2, <1>3, Zenon

Types == {"none", "file", "dir"}

LEMMA WithTypeFields ==
  ASSUME NEW c \in CofsNode, NEW x \in Types, NEW m \in Nat
  PROVE  /\ WithType(c, x, m) \in CofsNode /\ WithType(c, x, m).inode = c.inode
         /\ WithType(c, x, m).ref = c.ref /\ WithType(c, x, m).leak = c.leak
         /\ WithType(c, x, m).type = x
BY DEF CofsNode, WithType, Types

(* A node that is set.                                                      *)
LEMMA CacheExcept ==
  ASSUME NEW cache \in Seq(CofsNode), NEW n \in 1..Len(cache), NEW v \in CofsNode
  PROVE  NodeSet(cache, [cache EXCEPT ![n] = v], n, v)
<1>1. /\ [cache EXCEPT ![n] = v] \in Seq(CofsNode)
      /\ Len([cache EXCEPT ![n] = v]) = Len(cache)
      /\ \A j \in 1..Len(cache) : [cache EXCEPT ![n] = v][j] = IF j = n THEN v ELSE cache[j]
  BY ExceptSeq
<1> QED BY <1>1 DEF NodeSet

(* Such a node leaves the cache right, and what is held of it.              *)
LEMMA NodeSetOk ==
  ASSUME NEW disk, NEW cache, CacheOk(disk, cache), NEW c, NEW n \in 1..Len(cache), NEW v,
         NodeSet(cache, c, n, v), v.inode = cache[n].inode, Typed(disk, v), n = 1 => v.ref >= 1
  PROVE  CacheOk(disk, c)
<1>1. \A m \in 1..Len(c) : c[m].inode = cache[m].inode /\ Typed(disk, c[m])
  BY DEF NodeSet, CacheOk
<1>2. 1 \in 1..Len(cache) /\ c[1] = IF n = 1 THEN v ELSE cache[1]
  BY DEF NodeSet, CacheOk
<1>3. c[1].inode = ROOT /\ c[1].ref >= 1
  BY <1>2 DEF CacheOk
<1> QED BY <1>1, <1>3 DEF NodeSet, CacheOk

LEMMA NodeSetHold ==
  ASSUME NEW cache, NEW H, NEW G \in Holds, NEW pin, NEW c, NEW n \in 1..Len(cache), NEW v,
         HoldOk(cache, H, pin), Holding(H, pin), NodeSet(cache, c, n, v), v.inode = cache[n].inode,
         Len(cache) \in 1..MAX_CACHED_NODES, \A m \in Nodes \ {n, 1} : G[m] = H[m], n # 1 => v.ref = G[n] + v.leak
  PROVE  HoldOk(c, G, pin)
<1>1. \A m \in 2..Len(c) : c[m].ref = G[m] + c[m].leak
  <2> TAKE m \in 2..Len(c)
  <2>1. m \in 1..Len(cache) /\ m # 1 /\ m \in 2..Len(cache) /\ m \in Nodes
    <3>1. Len(c) = Len(cache)
      BY DEF NodeSet
    <3> QED BY <3>1, Consts DEF Nodes
  <2>2. CASE m = n
    BY <2>1, <2>2 DEF NodeSet
  <2>3. CASE m # n
    <3>1. c[m] = cache[m] /\ cache[m].ref = H[m] + cache[m].leak
      BY <2>1, <2>3 DEF NodeSet, HoldOk
    <3> QED BY <2>1, <2>3, <3>1
  <2> QED BY <2>2, <2>3
<1>2. \A m \in Nodes \ {1} : G[m] > 0 => m <= Len(c)
  BY DEF NodeSet, HoldOk
<1>3. \A m \in DOMAIN pin : c[m].inode = pin[m]
  <2> TAKE m \in DOMAIN pin
  <2>1. m \in Nodes /\ H[m] > 0 /\ cache[m].inode = pin[m]
    BY DEF Holding, HoldOk
  <2>2. m \in 1..Len(cache)
    BY <2>1 DEF HoldOk, Nodes
  <2> QED BY <2>1, <2>2 DEF NodeSet
<1> QED BY <1>1, <1>2, <1>3 DEF HoldOk

(* A call sets a field of a node.                                           *)
Renoded(s, t, n, v) ==
    IsCofs(t) /\ t.disk = s.disk /\ t.halt = s.halt /\ NodeSet(s.cache, t.cache, n, v)

LEMMA RenodedBy ==
  ASSUME NEW s, IsCofs(s), s.cache \in Seq(CofsNode), NEW n \in 1..Len(s.cache), NEW r \in Nat
  PROVE  /\ Renoded(s, [s EXCEPT !.cache[n].ref = r], n, WithRef(s.cache[n], r))
         /\ Renoded(s, [s EXCEPT !.cache[n].leak = r], n, WithLeak(s.cache[n], r))
         /\ Renoded(s, [s EXCEPT !.cache[n].mask = r], n, WithMask(s.cache[n], r))
         /\ \A x \in Types :
                Renoded(s, [s EXCEPT !.cache[n].type = x, !.cache[n].mask = r], n, WithType(s.cache[n], x, r))
<1>1. s.cache[n] \in CofsNode
  BY ElementOfSeq
<1>2. ASSUME NEW v \in CofsNode, NEW t, t = [s EXCEPT !.cache = [s.cache EXCEPT ![n] = v]]
      PROVE  Renoded(s, t, n, v)
  <2>1. CacheSet(s, t, [s.cache EXCEPT ![n] = v])
    BY <1>2, PartsSet, Zenon
  <2>2. NodeSet(s.cache, [s.cache EXCEPT ![n] = v], n, v)
    BY <1>2, CacheExcept, Zenon
  <2> QED BY <2>1, <2>2, Zenon DEF CacheSet, Renoded
<1>3. Renoded(s, [s EXCEPT !.cache[n].ref = r], n, WithRef(s.cache[n], r))
  <2>1. WithRef(s.cache[n], r) \in CofsNode
    BY <1>1, WithFields, Zenon
  <2>2. [s EXCEPT !.cache[n].ref = r] = [s EXCEPT !.cache = [s.cache EXCEPT ![n] = WithRef(s.cache[n], r)]]
    BY DEF WithRef
  <2> QED BY <1>2, <2>1, <2>2, Zenon
<1>4. Renoded(s, [s EXCEPT !.cache[n].leak = r], n, WithLeak(s.cache[n], r))
  <2>1. WithLeak(s.cache[n], r) \in CofsNode
    BY <1>1, WithFields, Zenon
  <2>2. [s EXCEPT !.cache[n].leak = r] = [s EXCEPT !.cache = [s.cache EXCEPT ![n] = WithLeak(s.cache[n], r)]]
    BY DEF WithLeak
  <2> QED BY <1>2, <2>1, <2>2, Zenon
<1>5. Renoded(s, [s EXCEPT !.cache[n].mask = r], n, WithMask(s.cache[n], r))
  <2>1. WithMask(s.cache[n], r) \in CofsNode
    BY <1>1, WithFields, Zenon
  <2>2. [s EXCEPT !.cache[n].mask = r] = [s EXCEPT !.cache = [s.cache EXCEPT ![n] = WithMask(s.cache[n], r)]]
    BY DEF WithMask
  <2> QED BY <1>2, <2>1, <2>2, Zenon
<1>6. ASSUME NEW x \in Types
      PROVE  Renoded(s, [s EXCEPT !.cache[n].type = x, !.cache[n].mask = r], n, WithType(s.cache[n], x, r))
  <2>1. WithType(s.cache[n], x, r) \in CofsNode
    BY <1>1, WithTypeFields, Zenon
  <2>2. n \in DOMAIN s.cache
    BY LenProperties
  <2>3. [s EXCEPT !.cache[n].type = x, !.cache[n].mask = r]
           = [s EXCEPT !.cache = [s.cache EXCEPT ![n] = WithType(s.cache[n], x, r)]]
    BY <2>2 DEF IsCofs, WithType
  <2> QED BY <1>2, <2>1, <2>3, Zenon
<1> QED BY <1>3, <1>4, <1>5, <1>6, Zenon

-----------------------------------------------------------------------------
(* One more reference is held.                                              *)
LEMMA IncHolding ==
  ASSUME NEW H, NEW pin, Holding(H, pin), NEW n \in Nodes
  PROVE  /\ Holding(Inc(H, n), pin) /\ Inc(H, n)[n] = H[n] + 1
         /\ \A m \in Nodes \ {n} : Inc(H, n)[m] = H[m]
<1>1. Inc(H, n) \in Holds /\ Inc(H, n)[n] = H[n] + 1 /\ \A m \in Nodes \ {n} : Inc(H, n)[m] = H[m]
  BY DEF Holding, Holds, Inc
<1>2. \A m \in DOMAIN pin : Inc(H, n)[m] > 0
  <2> TAKE m \in DOMAIN pin
  <2>1. m \in Nodes /\ H[m] > 0 /\ H[m] \in Nat
    BY DEF Holding, Holds
  <2> QED BY <1>1, <2>1
<1> QED BY <1>1, <1>2 DEF Holding

(* A node that is held is there, typed, with that many references.          *)
LEMMA HeldNode ==
  ASSUME NEW s, NEW H, NEW pin, Good(s, H, pin), NEW n \in Nodes, n = 1 \/ H[n] > 0, H \in Holds
  PROVE  /\ n \in 1..Len(s.cache) /\ s.cache \in Seq(CofsNode) /\ Len(s.cache) \in 1..MAX_CACHED_NODES
         /\ s.cache[n] \in CofsNode /\ s.cache[n].inode \in Inodes
         /\ s.cache[n].ref > 0 /\ s.cache[n].ref \in Nat /\ s.cache[n].type # "none"
         /\ s.cache[n].type = s.disk[s.cache[n].inode].type
         /\ n # 1 => s.cache[n].ref = H[n] + s.cache[n].leak /\ s.cache[n].inode # ROOT
         /\ s.disk \in Disks /\ s.disk[s.cache[n].inode] \in DiskInode
<1>1. CacheOk(s.disk, s.cache) /\ HoldOk(s.cache, H, pin) /\ DiskOk(s.disk)
  BY DEF Good
<1>2. s.cache \in Seq(CofsNode) /\ Len(s.cache) \in 1..MAX_CACHED_NODES
  BY <1>1 DEF CacheOk
<1>3. n \in 1..Len(s.cache) /\ 1 \in 1..Len(s.cache)
  BY <1>1, <1>2, Consts DEF HoldOk, Nodes
<1>4. s.cache[n] \in CofsNode
  BY <1>2, <1>3, ElementOfSeq
<1>5. s.cache[n].inode \in Inodes /\ s.cache[n].ref \in Nat /\ s.cache[n].leak \in Nat
  BY <1>4, NodeFields
<1>6. n # 1 => s.cache[n].ref = H[n] + s.cache[n].leak /\ s.cache[n].inode # ROOT
  BY <1>1, <1>3 DEF HoldOk, CacheOk
<1>7. s.cache[n].ref > 0
  BY <1>1, <1>5, <1>6 DEF CacheOk, Holds
<1>8. Typed(s.disk, s.cache[n])
  BY <1>1, <1>3 DEF CacheOk
<1>9. s.disk \in Disks /\ s.disk[s.cache[n].inode] \in DiskInode
  BY <1>1, <1>5 DEF DiskOk, Disks
<1> QED BY <1>2, <1>3, <1>4, <1>5, <1>6, <1>7, <1>8, <1>9 DEF Typed

(* A node changes, and with it what is held of it.                          *)
LEMMA GoodNode ==
  ASSUME NEW s, NEW H, NEW pin, NEW G \in Holds, NEW t, NEW n \in 1..Len(s.cache), NEW v,
         Good(s, H, pin), Holding(H, pin), Renoded(s, t, n, v), v.inode = s.cache[n].inode,
         Typed(s.disk, v), n = 1 => v.ref >= 1, n # 1 => v.ref = G[n] + v.leak,
         \A m \in Nodes \ {n} : G[m] = H[m]
  PROVE  Good(t, G, pin)
<1>1. CacheOk(s.disk, s.cache) /\ HoldOk(s.cache, H, pin) /\ NodeSet(s.cache, t.cache, n, v)
  BY DEF Good, Renoded
<1>2. CacheOk(s.disk, t.cache)
  BY <1>1, NodeSetOk
<1>3. HoldOk(t.cache, G, pin)
  <2>1. Len(s.cache) \in 1..MAX_CACHED_NODES /\ \A m \in Nodes \ {n, 1} : G[m] = H[m]
    BY <1>1 DEF CacheOk
  <2> QED BY <1>1, <2>1, NodeSetHold, Zenon
<1> QED BY <1>2, <1>3 DEF Good, Renoded

(* References to the root do not count.                                     *)
LEMMA RootFree ==
  ASSUME NEW s, NEW H, NEW pin, NEW G, Good(s, H, pin), \A m \in Nodes \ {1} : G[m] = H[m]
  PROVE  Good(s, G, pin)
<1>1. HoldOk(s.cache, H, pin) /\ Len(s.cache) \in 1..MAX_CACHED_NODES
  BY DEF Good, CacheOk
<1>2. \A m \in 2..Len(s.cache) : m \in Nodes \ {1}
  BY <1>1, Consts DEF Nodes
<1>3. HoldOk(s.cache, G, pin)
  BY <1>1, <1>2 DEF HoldOk
<1> QED BY <1>3 DEF Good

(* A count of references is set to what is held.                            *)
LEMMA RefSet ==
  ASSUME NEW s, NEW H, NEW pin, NEW G \in Holds, NEW n \in 1..Len(s.cache), NEW r \in Nat,
         Good(s, H, pin), Holding(H, pin), s.cache[n].type # "none", \A m \in Nodes \ {n} : G[m] = H[m],
         n = 1 => r >= 1, n # 1 => r = G[n] + s.cache[n].leak
  PROVE  Good([s EXCEPT !.cache[n].ref = r], G, pin)
<1>1. IsCofs(s) /\ CacheOk(s.disk, s.cache) /\ s.cache \in Seq(CofsNode)
  BY DEF Good, CacheOk
<1>2. PICK c, v, t : c = s.cache[n] /\ v = WithRef(c, r) /\ t = [s EXCEPT !.cache[n].ref = r]
  OBVIOUS
<1>3. c \in CofsNode /\ Typed(s.disk, c)
  BY <1>1, <1>2, NodesTyped DEF CacheOk
<1>4. Renoded(s, t, n, v)
  BY <1>1, <1>2, RenodedBy, Zenon
<1>5. v.inode = c.inode /\ v.ref = r /\ v.type = c.type /\ v.leak = c.leak
  <2>1. /\ WithRef(c, r).inode = c.inode /\ WithRef(c, r).ref = r
        /\ WithRef(c, r).type = c.type /\ WithRef(c, r).leak = c.leak
    BY <1>3, WithFields, Zenon
  <2> QED BY <1>2, <2>1
<1>6. Typed(s.disk, v)
  BY <1>2, <1>3, <1>5 DEF Typed
<1>7. v.inode = s.cache[n].inode /\ (n = 1 => v.ref >= 1) /\ (n # 1 => v.ref = G[n] + v.leak)
  BY <1>2, <1>5
<1>8. Good(t, G, pin)
  BY <1>4, <1>6, <1>7, GoodNode, Zenon
<1> QED BY <1>2, <1>8

(* A reference that nobody gives back.                                      *)
LEMMA LeakGood ==
  ASSUME NEW s, NEW H, NEW pin, Holding(H, pin), NEW n \in Nodes, Good(s, Inc(H, n), pin)
  PROVE  Good(Leak(s, n), H, pin)
<1>h. /\ Holding(Inc(H, n), pin) /\ Inc(H, n)[n] = H[n] + 1 /\ H[n] \in Nat /\ H \in Holds
      /\ \A m \in Nodes \ {n} : H[m] = Inc(H, n)[m]
  BY IncHolding DEF Holding, Holds
<1>g. Inc(H, n)[n] > 0 /\ Inc(H, n) \in Holds
  BY <1>h DEF Holding
<1>1. PICK c : c = s.cache[n]
  OBVIOUS
<1>2. /\ n \in 1..Len(s.cache) /\ s.cache \in Seq(CofsNode) /\ c \in CofsNode
      /\ n # 1 => c.ref = Inc(H, n)[n] + c.leak /\ c.inode # ROOT
  BY <1>g, <1>1, HeldNode
<1>3. IsCofs(s) /\ CacheOk(s.disk, s.cache)
  BY DEF Good
<1>4. CASE c.inode = ROOT
  <2>1. n = 1
    BY <1>2, <1>4
  <2>2. Good(s, H, pin)
    BY <1>h, <2>1, RootFree
  <2> QED BY <1>1, <1>4, <2>2 DEF Leak
<1>5. CASE c.inode # ROOT
  <2>1. c.leak + 1 \in Nat /\ c.leak \in Nat /\ c.ref \in Nat
    BY <1>2, NodeFields
  <2>2. Leak(s, n) = [s EXCEPT !.cache[n].leak = c.leak + 1]
    BY <1>1, <1>5 DEF Leak
  <2>3. PICK q \in Nat : q = c.leak + 1
    BY <2>1
  <2> DEFINE v == WithLeak(c, q)
  <2>4. Renoded(s, Leak(s, n), n, v)
    <3>1. Renoded(s, [s EXCEPT !.cache[n].leak = q], n, WithLeak(s.cache[n], q))
      BY <1>2, <1>3, RenodedBy, Zenon
    <3> QED BY <1>1, <2>2, <2>3, <3>1
  <2>5. v.inode = c.inode /\ v.ref = c.ref /\ v.type = c.type /\ v.leak = q
    BY <1>2, WithFields, Zenon
  <2> HIDE DEF v
  <2>6. n # 1
    BY <1>1, <1>3, <1>5 DEF CacheOk
  <2>7. v.ref = H[n] + v.leak
    BY <1>2, <1>h, <2>1, <2>3, <2>5, <2>6
  <2>8. Typed(s.disk, c)
    BY <1>1, <1>2, <1>3 DEF CacheOk
  <2>9. Typed(s.disk, v) /\ v.inode = s.cache[n].inode
    BY <1>1, <2>5, <2>8 DEF Typed
  <2> QED BY <1>h, <1>2, <2>4, <2>6, <2>7, <2>9, GoodNode, Zenon
<1> QED BY <1>4, <1>5

(* A kernel that stopped keeps the first reason.                            *)
LEMMA StoppedStays ==
  ASSUME NEW s, IsCofs(s)
  PROVE  \A how \in Halts : IsCofs(Stop(s, how)) /\ Stopped(Stop(s, how))
<1> TAKE how \in Halts
<1>1. how # "no"
  BY DEF Halts
<1>2. CASE s.halt = "no"
  <2>1. PICK t : t = [s EXCEPT !.halt = how]
    OBVIOUS
  <2>2. t = [disk |-> s.disk, cache |-> s.cache, failed |-> s.failed, halt |-> how]
    BY <2>1, SetParts, Zenon
  <2>3. IsCofs(t) /\ t.halt # "no"
    BY <1>1, <2>2 DEF IsCofs
  <2> QED BY <1>2, <2>1, <2>3 DEF Stop, Stopped
<1>3. CASE s.halt # "no"
  BY <1>3 DEF Stop, Stopped
<1> QED BY <1>2, <1>3

(* An inode that is freed, and its node.                                    *)
LEMMA FreedParts ==
  ASSUME NEW s, IsCofs(s), s.disk \in Disks, s.cache \in Seq(CofsNode), NEW n \in 1..Len(s.cache)
  PROVE  LET t == Freed(s, n)
             i == s.cache[n].inode
         IN /\ IsCofs(t) /\ t.halt = s.halt /\ t.disk \in Disks
            /\ NodeSet(s.cache, t.cache, n, WithType(s.cache[n], "none", s.cache[n].mask))
            /\ t.disk[i].type = "none" /\ t.disk[i].ents = <<>>
            /\ \A j \in Inodes \ {i} : t.disk[j] = s.disk[j]
<1>1. PICK c, i : c = s.cache[n] /\ i = c.inode
  OBVIOUS
<1>2. c \in CofsNode /\ i \in Inodes /\ c.mask \in Nat
  BY <1>1, ElementOfSeq, NodeFields
<1>3. s.disk[i] \in DiskInode /\ i \in DOMAIN s.disk
  BY <1>2 DEF Disks
<1>4. PICK d : d = [s.disk EXCEPT ![i] = [s.disk[i] EXCEPT !.ents = <<>>]]
  OBVIOUS
<1>5. PICK v : v = WithType(c, "none", c.mask)
  OBVIOUS
<1>6. v \in CofsNode /\ v.inode = c.inode /\ v.type = "none" /\ v = [c EXCEPT !.type = "none"]
  <2>1. "none" \in Types
    BY DEF Types
  <2>2. /\ WithType(c, "none", c.mask) \in CofsNode /\ WithType(c, "none", c.mask).inode = c.inode
        /\ WithType(c, "none", c.mask).type = "none"
    BY <1>2, <2>1, WithTypeFields, Zenon
  <2>3. [c EXCEPT !.type = "none"] = WithType(c, "none", c.mask)
    BY <1>2 DEF CofsNode, WithType
  <2> QED BY <1>5, <2>2, <2>3, Zenon
<1>7. PICK a : a = [s.cache EXCEPT ![n] = v]
  OBVIOUS
<1>8. PICK u : u = [[s EXCEPT !.disk = d] EXCEPT !.cache = a]
  OBVIOUS
<1>9. Freed(s, n) = CofsUpdateNode(u, n)
  <2>1. u = [s EXCEPT !.disk[i].ents = <<>>, !.cache[n].type = "none"]
    BY <1>1, <1>3, <1>4, <1>6, <1>7, <1>8 DEF IsCofs
  <2> QED BY <1>1, <2>1 DEF Freed
<1>10. IsCofs(u) /\ u.disk = d /\ u.cache = a /\ u.halt = s.halt
  <2>1. PICK w : w = [s EXCEPT !.disk = d]
    OBVIOUS
  <2>2. DiskSet(s, w, d)
    BY <2>1, PartsSet, Zenon
  <2>3. CacheSet(w, u, a)
    BY <1>8, <2>1, <2>2, PartsSet, Zenon DEF DiskSet
  <2> QED BY <2>2, <2>3 DEF DiskSet, CacheSet
<1>11. NodeSet(s.cache, a, n, v) /\ a[n] = v
  <2>1. NodeSet(s.cache, a, n, v)
    BY <1>6, <1>7, CacheExcept, Zenon
  <2> QED BY <2>1 DEF NodeSet
<1>12. d \in Disks /\ d[i].ents = <<>> /\ \A j \in Inodes \ {i} : d[j] = s.disk[j]
  <2>1. PICK y : y = [s.disk[i] EXCEPT !.ents = <<>>]
    OBVIOUS
  <2>2. <<>> \in Seq(Entry)
    BY EmptySeq
  <2>3. y \in DiskInode /\ y.ents = <<>>
    BY <1>3, <2>1, <2>2 DEF DiskInode
  <2>4. d = [s.disk EXCEPT ![i] = y]
    BY <1>4, <2>1
  <2> QED BY <1>2, <2>3, <2>4 DEF Disks
<1>13. LET t == CofsUpdateNode(u, n) IN
          /\ IsCofs(t) /\ t.cache = u.cache /\ t.halt = u.halt /\ t.disk \in Disks
          /\ t.disk[i].type = v.type
          /\ t.disk[i].ents = u.disk[i].ents
          /\ \A j \in Inodes \ {i} : t.disk[j] = u.disk[j]
  <2>1. u.disk \in Disks /\ u.cache[n] = v /\ u.cache[n] \in CofsNode /\ u.cache[n].inode = i
    BY <1>1, <1>6, <1>10, <1>11, <1>12
  <2> QED BY <1>10, <2>1, UpdateParts
<1> QED BY <1>1, <1>5, <1>6, <1>9, <1>10, <1>11, <1>12, <1>13

(* cofs_put_node gives back one reference; the inode of a node that others hold
   stays, and so does one that has names.                                   *)
LEMMA PutGood ==
  ASSUME NEW s, NEW H, NEW pin, Holding(H, pin), NEW n \in Nodes, Good(s, Inc(H, n), pin)
  PROVE  Good(CofsPutNode(s, n), H, pin)
<1> DEFINE c == s.cache[n]
           i == c.inode
<1>h. /\ Holding(Inc(H, n), pin) /\ Inc(H, n)[n] = H[n] + 1 /\ H[n] \in Nat /\ H \in Holds /\ Inc(H, n) \in Holds
      /\ \A m \in Nodes \ {n} : H[m] = Inc(H, n)[m]
  <2>1. H \in Holds /\ H[n] \in Nat
    BY DEF Holding, Holds
  <2>2. Holding(Inc(H, n), pin) /\ Inc(H, n)[n] = H[n] + 1 /\ \A m \in Nodes \ {n} : H[m] = Inc(H, n)[m]
    BY IncHolding
  <2>3. Inc(H, n) \in Holds
    BY <2>2 DEF Holding
  <2> QED BY <2>1, <2>2, <2>3
<1>c. /\ n \in 1..Len(s.cache) /\ s.cache \in Seq(CofsNode) /\ c \in CofsNode /\ i \in Inodes
      /\ c.ref > 0 /\ c.ref \in Nat /\ c.type # "none" /\ c.type = s.disk[i].type
      /\ n # 1 => c.ref = Inc(H, n)[n] + c.leak /\ i # ROOT
      /\ s.disk \in Disks /\ s.disk[i] \in DiskInode
  <2>1. Inc(H, n)[n] > 0
    BY <1>h
  <2> QED BY <1>h, <2>1, HeldNode
<1>s. IsCofs(s) /\ s.halt = "no" /\ ~Stopped(s) /\ DiskOk(s.disk) /\ CacheOk(s.disk, s.cache)
  BY DEF Good, Stopped
<1>l. c.leak \in Nat
  BY <1>c, NodeFields
<1>1. CASE ~LastUse(s, n)
  <2>1. CASE i = ROOT /\ c.ref = 1
    <3>1. CofsPutNode(s, n) = s
      BY <1>1, <1>s, <1>c, <2>1 DEF CofsPutNode, Dropped
    <3>2. n = 1
      BY <1>c, <2>1
    <3>3. Good(s, H, pin)
      BY <1>h, <3>2, RootFree
    <3> QED BY <3>1, <3>3
  <2>2. CASE ~(i = ROOT /\ c.ref = 1)
    <3>1. CofsPutNode(s, n) = [s EXCEPT !.cache[n].ref = c.ref - 1]
      <4>1. CofsPutNode(s, n) = Dropped(s, n)
        BY <1>1, <1>s, <1>c DEF CofsPutNode
      <4> QED BY <2>2, <4>1 DEF Dropped
    <3>2. /\ n = 1 => c.ref - 1 >= 1
          /\ n # 1 => c.ref - 1 = H[n] + c.leak
          /\ c.ref - 1 \in Nat
      <4>1. n = 1 => i = ROOT
        BY <1>s DEF CacheOk
      <4>2. PICK x, l, a : x = c.ref /\ l = c.leak /\ a = H[n]
        OBVIOUS
      <4>3. /\ x \in Nat /\ l \in Nat /\ a \in Nat /\ x > 0 /\ (n # 1 => x = a + 1 + l)
            /\ n = 1 => x # 1
        BY <1>c, <1>h, <1>l, <2>2, <4>1, <4>2
      <4> HIDE DEF c, i
      <4> QED BY <4>2, <4>3
    <3>3. Good([s EXCEPT !.cache[n].ref = c.ref - 1], H, pin)
      BY <1>c, <1>h, <3>2, RefSet
    <3> QED BY <3>1, <3>3
  <2> QED BY <2>1, <2>2
<1>2. CASE LastUse(s, n)
  <2> DEFINE t == Freed(s, n)
             v == WithType(c, "none", c.mask)
             w == WithRef(v, 0)
  <2>1. /\ IsCofs(t) /\ t.halt = s.halt /\ t.disk \in Disks /\ NodeSet(s.cache, t.cache, n, v)
        /\ t.disk[i].type = "none" /\ t.disk[i].ents = <<>>
        /\ \A j \in Inodes \ {i} : t.disk[j] = s.disk[j]
    BY <1>c, <1>s, FreedParts
  <2>2. c.ref = 1 /\ s.disk[i].links = 0
    BY <1>2 DEF LastUse, InodeOf
  <2>3. i # ROOT /\ n # 1
    BY <1>s, <2>2 DEF DiskOk, CacheOk
  <2>4. Refs(s.disk, i) = {}
    <3>1. Linked(s.disk, i)
      BY <1>c, <1>s, <2>3 DEF DiskOk
    <3>2. Cardinality(Refs(s.disk, i)) \in Nat
      BY <3>1, FS_CardinalityType DEF Linked
    <3>3. Cardinality(Refs(s.disk, i)) = 0
      BY <2>2, <3>1, <3>2 DEF Linked
    <3> QED BY <3>1, <3>3, FS_EmptySet DEF Linked
  <2>5. DiskOk(t.disk)
    BY <1>c, <1>s, <2>1, <2>3, <2>4, Emptied
  <2>6. CofsPutNode(s, n) = Dropped(t, n)
    BY <1>2, <1>s, <1>c DEF CofsPutNode
  <2>7. t.cache[n] = v /\ v \in CofsNode /\ v.inode = i /\ v.ref = 1 /\ v.leak = c.leak /\ v.type = "none"
    <3>1. t.cache[n] = v
      BY <1>c, <2>1 DEF NodeSet
    <3>2. PICK x, m : x = c /\ m = c.mask
      OBVIOUS
    <3>3. x \in CofsNode /\ m \in Nat /\ "none" \in Types
      BY <1>c, <3>2, NodeFields DEF Types
    <3>4. /\ WithType(x, "none", m) \in CofsNode /\ WithType(x, "none", m).inode = x.inode
          /\ WithType(x, "none", m).ref = x.ref /\ WithType(x, "none", m).leak = x.leak
          /\ WithType(x, "none", m).type = "none"
      BY <3>3, WithTypeFields, Zenon
    <3> QED BY <2>2, <3>1, <3>2, <3>4
  <2>8. CofsPutNode(s, n) = [t EXCEPT !.cache[n].ref = 0]
    BY <2>3, <2>6, <2>7 DEF Dropped
  <2> HIDE DEF t, v
  <2>9. w \in CofsNode /\ w.inode = i /\ w.ref = 0 /\ w.leak = c.leak /\ w.type = "none"
    <3>1. 0 \in Nat
      OBVIOUS
    <3>2. /\ WithRef(v, 0) \in CofsNode /\ WithRef(v, 0).inode = v.inode /\ WithRef(v, 0).ref = 0
          /\ WithRef(v, 0).type = v.type /\ WithRef(v, 0).leak = v.leak
      BY <2>7, <3>1, WithFields, Zenon
    <3> QED BY <2>7, <3>2
  <2> DEFINE p == CofsPutNode(s, n)
  <2>10. Renoded(t, p, n, w)
    <3>1. t.cache \in Seq(CofsNode) /\ n \in 1..Len(t.cache) /\ 0 \in Nat
      BY <1>c, <2>1 DEF NodeSet
    <3>2. Renoded(t, [t EXCEPT !.cache[n].ref = 0], n, WithRef(t.cache[n], 0))
      BY <2>1, <3>1, RenodedBy, Zenon
    <3> QED BY <2>7, <2>8, <3>2
  <2> HIDE DEF w, p
  <2>11. IsCofs(p) /\ p.disk = t.disk /\ p.halt = "no" /\ NodeSet(s.cache, p.cache, n, w)
    <3>1. NodeSet(t.cache, p.cache, n, w) /\ IsCofs(p) /\ p.disk = t.disk /\ p.halt = "no"
      BY <1>s, <2>1, <2>10 DEF Renoded
    <3> QED BY <2>1, <3>1 DEF NodeSet
  <2>12. Len(s.cache) \in 1..MAX_CACHED_NODES /\ 1 \in 1..Len(s.cache)
    BY <1>s DEF CacheOk
  <2>13. CacheOk(p.disk, p.cache)
    <3>1. ASSUME NEW m \in 1..Len(p.cache)
          PROVE  m \in 1..Len(s.cache) /\ p.cache[m].inode = s.cache[m].inode /\ Typed(p.disk, p.cache[m])
      <4>1. m \in 1..Len(s.cache) /\ p.cache[m] = IF m = n THEN w ELSE s.cache[m]
        BY <2>11 DEF NodeSet
      <4>2. CASE m = n
        BY <2>9, <2>11, <4>1, <4>2 DEF Typed
      <4>3. CASE m # n
        <5>1. s.cache[m].inode \in Inodes \ {i} /\ Typed(s.disk, s.cache[m])
          BY <1>c, <1>s, <4>1, <4>3, NodesTyped DEF CacheOk
        <5> QED BY <2>1, <2>11, <4>1, <4>3, <5>1 DEF Typed
      <4> QED BY <4>2, <4>3
    <3>2. Len(p.cache) = Len(s.cache) /\ p.cache \in Seq(CofsNode)
      BY <2>11 DEF NodeSet
    <3>3. p.cache[1] = s.cache[1]
      BY <2>3, <2>11, <2>12 DEF NodeSet
    <3> QED BY <1>s, <2>12, <3>1, <3>2, <3>3 DEF CacheOk
  <2>14. HoldOk(p.cache, H, pin)
    <3>1. HoldOk(s.cache, Inc(H, n), pin) /\ \A m \in Nodes \ {n, 1} : H[m] = Inc(H, n)[m]
      BY <1>h DEF Good
    <3>2. w.ref = H[n] + w.leak /\ w.inode = s.cache[n].inode
      BY <1>c, <1>h, <1>l, <2>2, <2>3, <2>9
    <3>3. n \in 1..Len(s.cache) /\ Holding(Inc(H, n), pin) /\ H \in Holds
      BY <1>c, <1>h
    <3> QED BY <2>11, <2>12, <3>1, <3>2, <3>3, NodeSetHold, ZenonT(60)
  <2> QED BY <2>5, <2>11, <2>13, <2>14 DEF Good, p
<1> QED BY <1>1, <1>2

(* The same for a kernel that may have stopped.                             *)
LEMMA PutDone ==
  ASSUME NEW s, NEW H, NEW pin, Holding(H, pin), NEW n \in Nodes, Done(s, Inc(H, n), pin)
  PROVE  Done(CofsPutNode(s, n), H, pin)
<1>1. CASE Stopped(s)
  BY <1>1 DEF CofsPutNode, Done
<1>2. CASE ~Stopped(s)
  <2>1. Good(CofsPutNode(s, n), H, pin)
    BY <1>2, PutGood DEF Done
  <2> QED BY <2>1 DEF Done, Good
<1> QED BY <1>1, <1>2

LEMMA LeakDone ==
  ASSUME NEW s, NEW H, NEW pin, Holding(H, pin), NEW n \in Nodes, Done(s, Inc(H, n), pin)
  PROVE  Done(Leak(s, n), H, pin)
<1>1. CASE Stopped(s)
  <2>1. PICK a : a = [s.cache EXCEPT ![n].leak = s.cache[n].leak + 1]
    OBVIOUS
  <2>2. Leak(s, n) = s \/ Leak(s, n) = [s EXCEPT !.cache = a]
    BY <2>1 DEF Leak
  <2>3. CacheSet(s, [s EXCEPT !.cache = a], a)
    BY PartsSet, Zenon DEF Done
  <2>4. IsCofs(s) /\ IsCofs(Leak(s, n)) /\ Stopped(Leak(s, n))
    BY <1>1, <2>2, <2>3 DEF Done, CacheSet, Stopped
  <2> QED BY <2>4 DEF Done
<1>2. CASE ~Stopped(s)
  <2>1. Good(Leak(s, n), H, pin)
    BY <1>2, LeakGood DEF Done
  <2> QED BY <2>1 DEF Done, Good
<1> QED BY <1>1, <1>2

(* One more reference to a node that is held.                               *)
LEMMA AddRef ==
  ASSUME NEW s, NEW H, NEW pin, Holding(H, pin), NEW n \in Nodes, Good(s, H, pin), n = 1 \/ H[n] > 0
  PROVE  Good([s EXCEPT !.cache[n].ref = s.cache[n].ref + 1], Inc(H, n), pin)
<1>1. /\ Holding(Inc(H, n), pin) /\ Inc(H, n)[n] = H[n] + 1 /\ H[n] \in Nat /\ H \in Holds
      /\ \A m \in Nodes \ {n} : Inc(H, n)[m] = H[m]
  BY IncHolding DEF Holding, Holds
<1>2. PICK c : c = s.cache[n]
  OBVIOUS
<1>3. /\ n \in 1..Len(s.cache) /\ c \in CofsNode /\ c.ref > 0 /\ c.ref \in Nat /\ c.type # "none"
      /\ n # 1 => c.ref = H[n] + c.leak
  BY <1>1, <1>2, HeldNode
<1>4. c.leak \in Nat
  BY <1>3, NodeFields
<1>5. /\ c.ref + 1 \in Nat /\ (n = 1 => c.ref + 1 >= 1)
      /\ n # 1 => c.ref + 1 = Inc(H, n)[n] + c.leak
  BY <1>1, <1>3, <1>4
<1>6. Inc(H, n) \in Holds
  BY <1>1 DEF Holding
<1> QED BY <1>1, <1>2, <1>3, <1>5, <1>6, RefSet

(* The walk along a path gives a directory back without looking at it.      *)
LEMMA DropRef ==
  ASSUME NEW s, NEW H, NEW pin, Holding(H, pin), NEW n \in Nodes, Good(s, Inc(H, n), pin), n # 1
  PROVE  Good([s EXCEPT !.cache[n].ref = s.cache[n].ref - 1], H, pin)
<1>1. /\ Holding(Inc(H, n), pin) /\ Inc(H, n)[n] = H[n] + 1 /\ H[n] \in Nat /\ H \in Holds
      /\ \A m \in Nodes \ {n} : H[m] = Inc(H, n)[m]
  BY IncHolding DEF Holding, Holds
<1>g. Inc(H, n)[n] > 0 /\ Inc(H, n) \in Holds
  BY <1>1 DEF Holding
<1>2. PICK c : c = s.cache[n]
  OBVIOUS
<1>3. /\ n \in 1..Len(s.cache) /\ c \in CofsNode /\ c.ref > 0 /\ c.ref \in Nat /\ c.type # "none"
      /\ c.ref = Inc(H, n)[n] + c.leak
  BY <1>g, <1>2, HeldNode
<1>4. c.leak \in Nat
  BY <1>3, NodeFields
<1>5. c.ref - 1 \in Nat /\ c.ref - 1 = H[n] + c.leak
  BY <1>1, <1>3, <1>4
<1> QED BY <1>1, <1>2, <1>3, <1>5, RefSet

-----------------------------------------------------------------------------
(* cofs_lock gives a node that has no type that of its inode.               *)
LEMMA LoadedParts ==
  ASSUME NEW u, IsCofs(u), u.disk \in Disks, u.cache \in Seq(CofsNode), NEW n \in 1..Len(u.cache),
         u.disk[u.cache[n].inode].type # "none", u.cache[n].type \in {"none", u.disk[u.cache[n].inode].type}
  PROVE  \E v : /\ Renoded(u, Loaded(u, n), n, v)
                /\ v.inode = u.cache[n].inode /\ v.ref = u.cache[n].ref /\ v.leak = u.cache[n].leak
                /\ v.type = u.disk[u.cache[n].inode].type
<1>1. PICK c, i : c = u.cache[n] /\ i = c.inode
  OBVIOUS
<1>2. c \in CofsNode /\ i \in Inodes
  BY <1>1, ElementOfSeq, NodeFields
<1>3. PICK x, m : x = u.disk[i].type /\ m = u.disk[i].mask
  OBVIOUS
<1>4. x \in Types /\ m \in Nat
  BY <1>2, <1>3, LinksTyped DEF Types
<1>5. CASE c.type # "none"
  <2>1. Loaded(u, n) = u
    BY <1>1, <1>5 DEF Loaded
  <2>2. NodeSet(u.cache, u.cache, n, c)
    BY <1>1, <1>2 DEF NodeSet
  <2>3. Renoded(u, Loaded(u, n), n, c)
    BY <2>1, <2>2 DEF Renoded
  <2> QED BY <1>1, <1>5, <2>3
<1>6. CASE c.type = "none"
  <2>1. Loaded(u, n) = [u EXCEPT !.cache[n].type = x, !.cache[n].mask = m]
    BY <1>1, <1>3, <1>6 DEF Loaded
  <2>2. Renoded(u, [u EXCEPT !.cache[n].type = x, !.cache[n].mask = m], n, WithType(u.cache[n], x, m))
    BY <1>4, RenodedBy, Zenon
  <2>3. /\ WithType(c, x, m).inode = c.inode /\ WithType(c, x, m).ref = c.ref
        /\ WithType(c, x, m).leak = c.leak /\ WithType(c, x, m).type = x
    BY <1>2, <1>4, WithTypeFields, Zenon
  <2>4. PICK v : v = WithType(c, x, m)
    OBVIOUS
  <2>5. Renoded(u, Loaded(u, n), n, v)
    BY <1>1, <2>1, <2>2, <2>4
  <2>6. v.inode = c.inode /\ v.ref = c.ref /\ v.leak = c.leak /\ v.type = x
    BY <2>3, <2>4
  <2> QED BY <1>1, <1>3, <2>5, <2>6
<1> QED BY <1>5, <1>6

(* A node that nobody uses, or a new one, becomes w, of an inode without node.  *)
Recycled(cache, c, n, w) ==
    /\ c \in Seq(CofsNode) /\ Len(c) \in 1..MAX_CACHED_NODES /\ Len(cache) <= Len(c)
    /\ n \in 2..Len(c) /\ c[n] = w
    /\ \A m \in 1..Len(c) : m # n => m \in 1..Len(cache) /\ c[m] = cache[m]
    /\ n \in 1..Len(cache) => cache[n].ref = 0

(* A free node, or a new one, for an inode that has none.                   *)
LEMMA RecycledGood ==
  ASSUME NEW s, NEW H, NEW pin, Good(s, H, pin), Holding(H, pin), NEW t, NEW n, NEW w,
         IsCofs(t), t.disk = s.disk, t.halt = s.halt, Recycled(s.cache, t.cache, n, w),
         Typed(s.disk, w), w.ref = 1, w.leak = 0, \A m \in 1..Len(s.cache) : s.cache[m].inode # w.inode
  PROVE  /\ n \in Nodes \ {1} /\ Good(t, Inc(H, n), pin)
         /\ \A m \in Nodes : m = 1 \/ H[m] > 0 => t.cache[m].inode = s.cache[m].inode
<1>c. CacheOk(s.disk, s.cache) /\ HoldOk(s.cache, H, pin) /\ H \in Holds /\ s.cache \in Seq(CofsNode)
  BY DEF Good, Holding, CacheOk
<1>1. n \in Nodes \ {1} /\ n \in 1..Len(t.cache)
  BY Consts DEF Recycled, Nodes
<1>2. H[n] = 0
  <2>1. CASE n \in 1..Len(s.cache)
    <3>1. s.cache[n].ref = 0 /\ s.cache[n].ref = H[n] + s.cache[n].leak
      BY <1>c, <1>1, <2>1 DEF Recycled, HoldOk, Nodes
    <3>2. s.cache[n].leak \in Nat
      BY <1>c, <2>1, NodesTyped, NodeFields
    <3>3. H[n] \in Nat
      BY <1>c, <1>1 DEF Holds
    <3> QED BY <3>1, <3>2, <3>3
  <2>2. CASE n \notin 1..Len(s.cache)
    <3>1. ~(n <= Len(s.cache)) /\ H[n] \in Nat
      BY <1>1, <1>c, <2>2 DEF Nodes, Holds, CacheOk
    <3> QED BY <1>1, <1>c, <3>1 DEF HoldOk
  <2> QED BY <2>1, <2>2
<1>3. /\ Holding(Inc(H, n), pin) /\ Inc(H, n)[n] = 1 /\ \A m \in Nodes \ {n} : Inc(H, n)[m] = H[m]
  BY <1>1, <1>2, IncHolding
<1>4. \A m \in 1..Len(t.cache) : m # n => m \in 1..Len(s.cache) /\ t.cache[m] = s.cache[m]
  BY DEF Recycled
<1>5. CacheOk(s.disk, t.cache)
  <2>1. \A m \in 1..Len(t.cache) : Typed(s.disk, t.cache[m])
    BY <1>c, <1>4 DEF Recycled, CacheOk
  <2>2. \A m, k \in 1..Len(t.cache) : t.cache[m].inode = t.cache[k].inode => m = k
    <3>1. t.cache[n] = w
      BY DEF Recycled
    <3>2. \A m, k \in 1..Len(s.cache) : s.cache[m].inode = s.cache[k].inode => m = k
      BY <1>c, Zenon DEF CacheOk
    <3>3. \A m \in 1..Len(t.cache) : m # n => t.cache[m].inode # w.inode
      BY <1>4, Zenon
    <3> SUFFICES ASSUME NEW m \in 1..Len(t.cache), NEW k \in 1..Len(t.cache),
                        t.cache[m].inode = t.cache[k].inode
                 PROVE  m = k
      BY Zenon
    <3>4. CASE m # n /\ k # n
      <4>1. /\ m \in 1..Len(s.cache) /\ t.cache[m] = s.cache[m]
            /\ k \in 1..Len(s.cache) /\ t.cache[k] = s.cache[k]
        BY <1>4, <3>4, Zenon
      <4> QED BY <3>2, <4>1, Zenon
    <3> QED BY <3>1, <3>3, <3>4, Zenon
  <2>3. 1 # n /\ 1 \in 1..Len(t.cache)
    BY <1>1 DEF Recycled
  <2>4. t.cache[1] = s.cache[1]
    BY <1>4, <2>3
  <2> QED BY <1>c, <2>1, <2>2, <2>4 DEF CacheOk, Recycled
<1>6. HoldOk(t.cache, Inc(H, n), pin)
  <2>1. \A m \in 2..Len(t.cache) : t.cache[m].ref = Inc(H, n)[m] + t.cache[m].leak
    <3> TAKE m \in 2..Len(t.cache)
    <3>1. CASE m = n
      BY <1>3, <3>1 DEF Recycled
    <3>2. CASE m # n
      <4>1. m \in 2..Len(s.cache) /\ t.cache[m] = s.cache[m] /\ m \in Nodes \ {n}
        <5>1. m \in 1..Len(t.cache) /\ m # 1 /\ Len(t.cache) \in 1..MAX_CACHED_NODES
          BY <1>1 DEF Recycled
        <5>2. m \in 1..Len(s.cache) /\ t.cache[m] = s.cache[m]
          BY <1>4, <3>2, <5>1
        <5> QED BY <3>2, <5>1, <5>2, Consts DEF Nodes
      <4> QED BY <1>c, <1>3, <4>1 DEF HoldOk
    <3> QED BY <3>1, <3>2
  <2>2. \A m \in Nodes \ {1} : Inc(H, n)[m] > 0 => m <= Len(t.cache)
    <3> TAKE m \in Nodes \ {1}
    <3>1. CASE m = n
      BY <1>1, <3>1
    <3>2. CASE m # n
      <4>1. Inc(H, n)[m] > 0 => m <= Len(s.cache)
        BY <1>3, <1>c, <3>2 DEF HoldOk
      <4>2. m \in Nat /\ Len(s.cache) \in Nat /\ Len(t.cache) \in Nat /\ Len(s.cache) <= Len(t.cache)
        BY <1>c DEF CacheOk, Recycled, Nodes
      <4> QED BY <4>1, <4>2
    <3> QED BY <3>1, <3>2
  <2>3. \A m \in DOMAIN pin : t.cache[m].inode = pin[m]
    <3> TAKE m \in DOMAIN pin
    <3>1. m \in Nodes /\ H[m] > 0 /\ s.cache[m].inode = pin[m] /\ m # n
      BY <1>2, <1>c DEF Holding, HoldOk
    <3>2. m \in 1..Len(t.cache)
      BY <1>c, <3>1 DEF HoldOk, Nodes, CacheOk, Recycled
    <3> QED BY <1>4, <3>1, <3>2
  <2> QED BY <2>1, <2>2, <2>3 DEF HoldOk
<1>7. Good(t, Inc(H, n), pin)
  BY <1>5, <1>6 DEF Good
<1>8. \A m \in Nodes : m = 1 \/ H[m] > 0 => t.cache[m].inode = s.cache[m].inode
  <2> SUFFICES ASSUME NEW m \in Nodes, m = 1 \/ H[m] > 0 PROVE t.cache[m].inode = s.cache[m].inode
    OBVIOUS
  <2>1. m # n /\ m \in 1..Len(t.cache)
    BY <1>1, <1>2, <1>c DEF HoldOk, Nodes, CacheOk, Recycled
  <2> QED BY <1>4, <2>1
<1> QED BY <1>1, <1>7, <1>8

(* cofs_get_node gives the node of an inode, with one more reference, and leaves
   the nodes that are in use what they are.                                 *)
Got(s, r, i, H, pin) ==
    /\ IsCofs(r.s) /\ r.n \in {0} \cup Nodes
    /\ r.n = 0 => Stopped(r.s)
    /\ r.n # 0 =>
          /\ r.n \in Nodes \ {1} /\ Good(r.s, Inc(H, r.n), pin)
          /\ r.s.disk = s.disk /\ r.s.cache[r.n].inode = i
          /\ \A m \in Nodes : m = 1 \/ H[m] > 0 => r.s.cache[m].inode = s.cache[m].inode

FreshNode(i) == [inode |-> i, ref |-> 1, type |-> "none", mask |-> 0, leak |-> 0]

LEMMA FreshTyped ==
  ASSUME NEW i \in Inodes
  PROVE  /\ FreshNode(i) \in CofsNode /\ FreshNode(i).inode = i /\ FreshNode(i).ref = 1
         /\ FreshNode(i).type = "none" /\ FreshNode(i).leak = 0
BY DEF FreshNode, CofsNode

(* An inode that has a node: it gets a reference more.                      *)
LEMMA HitGood ==
  ASSUME NEW s, NEW H, NEW pin, Good(s, H, pin), Holding(H, pin), NEW i \in Inodes \ {ROOT},
         s.disk[i].type # "none", NEW n \in 1..Len(s.cache), s.cache[n].inode = i
  PROVE  Got(s, [s |-> Loaded([s EXCEPT !.cache[n].ref = s.cache[n].ref + 1], n), n |-> n], i, H, pin)
<1>c. /\ CacheOk(s.disk, s.cache) /\ HoldOk(s.cache, H, pin) /\ H \in Holds /\ s.cache \in Seq(CofsNode)
      /\ IsCofs(s) /\ s.disk \in Disks /\ s.halt = "no" /\ Len(s.cache) \in 1..MAX_CACHED_NODES
  BY DEF Good, Holding, CacheOk, DiskOk
<1>1. n \in Nodes \ {1} /\ n \in 2..Len(s.cache) /\ n \in Nodes
  BY <1>c, Consts DEF CacheOk, Nodes
<1>2. PICK c, k : c = s.cache[n] /\ k = c.ref + 1
  OBVIOUS
<1>3. c \in CofsNode /\ c.ref \in Nat /\ c.leak \in Nat /\ k \in Nat /\ c.inode = i /\ Typed(s.disk, c)
  BY <1>c, <1>2, NodesTyped, NodeFields DEF CacheOk
<1>4. PICK u, x : u = [s EXCEPT !.cache[n].ref = k] /\ x = WithRef(c, k)
  OBVIOUS
<1>5. Renoded(s, u, n, x)
  BY <1>c, <1>2, <1>3, <1>4, RenodedBy, Zenon
<1>6. x.inode = i /\ x.ref = k /\ x.leak = c.leak /\ x.type = c.type /\ x \in CofsNode
  <2>1. /\ WithRef(c, k).inode = c.inode /\ WithRef(c, k).ref = k /\ WithRef(c, k).leak = c.leak
        /\ WithRef(c, k).type = c.type /\ WithRef(c, k) \in CofsNode
    BY <1>3, WithFields, Zenon
  <2> QED BY <1>3, <1>4, <2>1
<1>7. /\ IsCofs(u) /\ u.disk = s.disk /\ u.halt = "no" /\ u.cache \in Seq(CofsNode) /\ Len(u.cache) = Len(s.cache)
      /\ u.cache[n] = x /\ n \in 1..Len(u.cache) /\ \A m \in 1..Len(s.cache) : m # n => u.cache[m] = s.cache[m]
  BY <1>c, <1>5 DEF Renoded, NodeSet
<1>8. u.disk[u.cache[n].inode].type # "none" /\ u.cache[n].type \in {"none", u.disk[u.cache[n].inode].type}
  BY <1>3, <1>6, <1>7 DEF Typed
<1>9. PICK v : /\ Renoded(u, Loaded(u, n), n, v) /\ v.inode = i /\ v.ref = k /\ v.leak = c.leak
               /\ v.type = s.disk[i].type
  <2>1. \E v : /\ Renoded(u, Loaded(u, n), n, v)
               /\ v.inode = u.cache[n].inode /\ v.ref = u.cache[n].ref /\ v.leak = u.cache[n].leak
               /\ v.type = u.disk[u.cache[n].inode].type
    <3>1. u.disk \in Disks
      BY <1>c, <1>7
    <3> QED BY <1>7, <1>8, <3>1, LoadedParts, Zenon
  <2> QED BY <1>6, <1>7, <2>1
<1> DEFINE t == Loaded(u, n)
<1> HIDE DEF t
<1>10. Renoded(u, t, n, v)
  BY <1>9 DEF t
<1>11. Renoded(s, t, n, v)
  <2>1. NodeSet(u.cache, t.cache, n, v) /\ IsCofs(t) /\ t.disk = s.disk /\ t.halt = s.halt
    BY <1>c, <1>7, <1>10 DEF Renoded
  <2>2. NodeSet(s.cache, t.cache, n, v)
    BY <1>7, <2>1 DEF NodeSet
  <2> QED BY <2>1, <2>2 DEF Renoded
<1>h. /\ Holding(Inc(H, n), pin) /\ Inc(H, n)[n] = H[n] + 1 /\ \A m \in Nodes \ {n} : Inc(H, n)[m] = H[m]
  BY <1>1, IncHolding
<1>12. v.ref = Inc(H, n)[n] + v.leak
  <2>1. c.ref = H[n] + c.leak /\ H[n] \in Nat
    BY <1>1, <1>2, <1>c DEF HoldOk, Holds
  <2> QED BY <1>2, <1>3, <1>9, <1>h, <2>1
<1>13. Good(t, Inc(H, n), pin)
  <2>1. Typed(s.disk, v) /\ v.inode = s.cache[n].inode /\ n # 1 /\ Inc(H, n) \in Holds
    BY <1>1, <1>9, <1>h DEF Typed, Holding
  <2> QED BY <1>11, <1>12, <1>h, <2>1, GoodNode, Zenon
<1>14. /\ t.disk = s.disk /\ t.cache[n].inode = i /\ IsCofs(t)
       /\ \A m \in 1..Len(s.cache) : t.cache[m].inode = s.cache[m].inode
  BY <1>9, <1>11 DEF Renoded, NodeSet
<1>15. \A m \in Nodes : m = 1 \/ H[m] > 0 => t.cache[m].inode = s.cache[m].inode
  BY <1>14, <1>c DEF HoldOk, Nodes
<1>16. t = Loaded([s EXCEPT !.cache[n].ref = s.cache[n].ref + 1], n)
  BY <1>2, <1>4 DEF t
<1>17. n # 0
  BY <1>1 DEF Nodes
<1> QED BY <1>1, <1>13, <1>14, <1>15, <1>16, <1>17 DEF Got

(* An inode that has no node.                                               *)
LEMMA FreshGood ==
  ASSUME NEW s, NEW H, NEW pin, Good(s, H, pin), Holding(H, pin), NEW i \in Inodes \ {ROOT},
         s.disk[i].type # "none", \A m \in 1..Len(s.cache) : s.cache[m].inode # i,
         NEW n, NEW u, IsCofs(u), u.disk = s.disk, u.halt = s.halt,
         Recycled(s.cache, u.cache, n, FreshNode(i))
  PROVE  Got(s, [s |-> Loaded(u, n), n |-> n], i, H, pin)
<1>c. s.disk \in Disks /\ s.halt = "no"
  BY DEF Good, DiskOk
<1>1. /\ FreshNode(i) \in CofsNode /\ FreshNode(i).inode = i /\ FreshNode(i).ref = 1
      /\ FreshNode(i).type = "none" /\ FreshNode(i).leak = 0
  BY FreshTyped
<1>2. /\ u.cache \in Seq(CofsNode) /\ n \in 2..Len(u.cache) /\ n \in 1..Len(u.cache)
      /\ u.cache[n] = FreshNode(i) /\ Len(u.cache) \in 1..MAX_CACHED_NODES
  BY DEF Recycled
<1>3. u.disk[u.cache[n].inode].type # "none" /\ u.cache[n].type \in {"none", u.disk[u.cache[n].inode].type}
  BY <1>1, <1>2
<1>4. PICK v : /\ Renoded(u, Loaded(u, n), n, v) /\ v.inode = i /\ v.ref = 1 /\ v.leak = 0
               /\ v.type = s.disk[i].type
  <2>1. \E v : /\ Renoded(u, Loaded(u, n), n, v)
               /\ v.inode = u.cache[n].inode /\ v.ref = u.cache[n].ref /\ v.leak = u.cache[n].leak
               /\ v.type = u.disk[u.cache[n].inode].type
    <3>1. u.disk \in Disks
      BY <1>c
    <3> QED BY <1>2, <1>3, <3>1, LoadedParts, Zenon
  <2> QED BY <1>1, <1>2, <2>1
<1> DEFINE t == Loaded(u, n)
<1> HIDE DEF t
<1>5. IsCofs(t) /\ t.disk = s.disk /\ t.halt = s.halt /\ NodeSet(u.cache, t.cache, n, v)
  BY <1>4 DEF t, Renoded
<1>6. Recycled(s.cache, t.cache, n, v)
  <2>1. Len(t.cache) = Len(u.cache) /\ t.cache \in Seq(CofsNode)
    BY <1>5 DEF NodeSet
  <2>2. t.cache[n] = v
    BY <1>2, <1>5 DEF NodeSet
  <2>3. \A m \in 1..Len(t.cache) : m # n => m \in 1..Len(s.cache) /\ t.cache[m] = s.cache[m]
    <3> TAKE m \in 1..Len(t.cache)
    <3>1. m \in 1..Len(u.cache) /\ (m # n => t.cache[m] = u.cache[m])
      BY <1>5, <2>1 DEF NodeSet
    <3> QED BY <3>1 DEF Recycled
  <2> QED BY <2>1, <2>2, <2>3 DEF Recycled
<1>7. Typed(s.disk, v)
  BY <1>4 DEF Typed
<1>8. /\ n \in Nodes \ {1} /\ Good(t, Inc(H, n), pin)
      /\ \A m \in Nodes : m = 1 \/ H[m] > 0 => t.cache[m].inode = s.cache[m].inode
  BY <1>4, <1>5, <1>6, <1>7, RecycledGood, Zenon
<1>9. t.cache[n].inode = i
  BY <1>4, <1>6 DEF Recycled
<1>10. n # 0
  BY <1>8 DEF Nodes
<1> QED BY <1>5, <1>8, <1>9, <1>10 DEF Got, t

(* cofs_get_node, whichever way.                                            *)
LEMMA GetNodeGood ==
  ASSUME NEW s, NEW H, NEW pin, Good(s, H, pin), Holding(H, pin), NEW i \in Inodes \ {ROOT},
         s.disk[i].type # "none"
  PROVE  Got(s, CofsGetNode(s, i), i, H, pin)
<1> DEFINE hits == {n \in 1..Len(s.cache) : s.cache[n].inode = i}
           L == Len(s.cache)
<1>c. /\ CacheOk(s.disk, s.cache) /\ s.cache \in Seq(CofsNode) /\ IsCofs(s) /\ s.halt = "no"
      /\ L \in 1..MAX_CACHED_NODES /\ L \in Nat /\ s.cache[1].ref >= 1
  BY DEF Good, CacheOk
<1>1. CASE hits # {}
  <2>1. Min(hits) \in hits
    BY <1>1, <1>c, MinPlace
  <2>2. CofsGetNode(s, i)
          = [s |-> Loaded([s EXCEPT !.cache[Min(hits)].ref = s.cache[Min(hits)].ref + 1], Min(hits)), n |-> Min(hits)]
    BY <1>1 DEF CofsGetNode
  <2>3. PICK n \in 1..L : n = Min(hits) /\ s.cache[n].inode = i
    BY <2>1
  <2> HIDE DEF hits
  <2>4. Got(s, [s |-> Loaded([s EXCEPT !.cache[n].ref = s.cache[n].ref + 1], n), n |-> n], i, H, pin)
    BY <2>3, HitGood
  <2> QED BY <2>2, <2>3, <2>4
<1>2. CASE hits = {} /\ FreeNodes(s) # {}
  <2>1. Max(FreeNodes(s)) \in FreeNodes(s)
    <3>1. FreeNodes(s) \in SUBSET (1..L)
      BY DEF FreeNodes
    <3> QED BY <1>2, <1>c, <3>1, MaxPlace
  <2>2. PICK n, u : n = Max(FreeNodes(s)) /\ u = [s EXCEPT !.cache = [s.cache EXCEPT ![n] = FreshNode(i)]]
    OBVIOUS
  <2>3. CofsGetNode(s, i) = [s |-> Loaded(u, n), n |-> n]
    BY <1>2, <2>2 DEF CofsGetNode, FreshNode
  <2>4. n \in 1..L /\ s.cache[n].ref = 0 /\ n # 1
    <3>1. n \in FreeNodes(s)
      BY <2>1, <2>2
    <3>2. n \in 1..L /\ s.cache[n].ref = 0
      BY <3>1 DEF FreeNodes
    <3>3. n # 1
      BY <1>c, <3>2
    <3> QED BY <3>2, <3>3
  <2>5. CacheSet(s, u, [s.cache EXCEPT ![n] = FreshNode(i)])
    BY <1>c, <2>2, PartsSet, Zenon
  <2>6. NodeSet(s.cache, [s.cache EXCEPT ![n] = FreshNode(i)], n, FreshNode(i))
    BY <1>c, <2>4, CacheExcept, FreshTyped, Zenon
  <2>7. NodeSet(s.cache, u.cache, n, FreshNode(i)) /\ IsCofs(u) /\ u.disk = s.disk /\ u.halt = s.halt
    BY <2>5, <2>6 DEF CacheSet
  <2>8. Recycled(s.cache, u.cache, n, FreshNode(i))
    BY <1>c, <2>4, <2>7 DEF NodeSet, Recycled
  <2>9. \A m \in 1..Len(s.cache) : s.cache[m].inode # i
    BY <1>2
  <2> QED BY <2>3, <2>7, <2>8, <2>9, FreshGood, Zenon
<1>3. CASE hits = {} /\ FreeNodes(s) = {} /\ L >= MAX_CACHED_NODES
  <2>1. CofsGetNode(s, i) = [s |-> Stop(s, "panic"), n |-> 0]
    BY <1>3 DEF CofsGetNode
  <2>2. IsCofs(Stop(s, "panic")) /\ Stopped(Stop(s, "panic"))
    BY <1>c, StoppedStays DEF Halts
  <2> QED BY <2>1, <2>2 DEF Got
<1>4. CASE hits = {} /\ FreeNodes(s) = {} /\ ~(L >= MAX_CACHED_NODES)
  <2>1. PICK u : u = [s EXCEPT !.cache = Append(s.cache, FreshNode(i))]
    OBVIOUS
  <2>2. CofsGetNode(s, i) = [s |-> Loaded(u, L + 1), n |-> L + 1]
    BY <1>4, <2>1 DEF CofsGetNode, FreshNode
  <2>3. CacheSet(s, u, Append(s.cache, FreshNode(i)))
    BY <1>c, <2>1, PartsSet, Zenon
  <2>4. PICK a : a = Append(s.cache, FreshNode(i))
    OBVIOUS
  <2>5. /\ a \in Seq(CofsNode) /\ Len(a) = L + 1
        /\ \A m \in 1..L : a[m] = s.cache[m]
        /\ a[L + 1] = FreshNode(i)
    BY <1>c, <2>4, FreshTyped, AppendProperties
  <2>6. u.cache = a /\ IsCofs(u) /\ u.disk = s.disk /\ u.halt = s.halt
    BY <2>3, <2>4 DEF CacheSet
  <2>7. Recycled(s.cache, u.cache, L + 1, FreshNode(i))
    <3>1. L + 1 \in 1..MAX_CACHED_NODES /\ L <= L + 1 /\ L + 1 \in 2..(L + 1) /\ L + 1 \notin 1..L
      BY <1>c, <1>4, Consts
    <3>2. \A m \in 1..(L + 1) : m # L + 1 => m \in 1..L
      BY <1>c
    <3> QED BY <2>5, <2>6, <3>1, <3>2 DEF Recycled
  <2>8. \A m \in 1..Len(s.cache) : s.cache[m].inode # i
    BY <1>4
  <2> QED BY <2>2, <2>6, <2>7, <2>8, FreshGood, Zenon
<1> QED BY <1>1, <1>2, <1>3, <1>4

(* A search in a directory.                                                 *)
FoundIn(s, d, name, r, H, pin) ==
    /\ IsCofs(r.s) /\ r.n \in {0} \cup Nodes
    /\ r.n = 0 => r.s = s \/ Stopped(r.s)
    /\ r.n # 0 =>
          /\ r.n # 1 /\ Good(r.s, Inc(H, r.n), pin) /\ r.s.disk = s.disk
          /\ EntsNamed(r.s, d, name) # {} /\ r.s.cache[d].inode = s.cache[d].inode
          /\ r.s.cache[r.n].inode = InodeOf(r.s, d).ents[Min(EntsNamed(r.s, d, name))].inode

(* A name that is found leads to an inode that is not the root.             *)
LEMMA EntsNamedAre ==
  ASSUME NEW s, NEW H, NEW pin, Good(s, H, pin), NEW d \in 1..Len(s.cache),
         NEW name \in Names, EntsNamed(s, d, name) # {}
  PROVE  LET i == s.cache[d].inode
             k == Min(EntsNamed(s, d, name))
         IN /\ i \in Inodes /\ k \in 1..Len(s.disk[i].ents)
            /\ s.disk[i].ents[k].inode \in Inodes \ {ROOT}
            /\ s.disk[s.disk[i].ents[k].inode].type # "none"
            /\ s.disk[s.disk[i].ents[k].inode].links >= 1
<1> DEFINE i == s.cache[d].inode
           E == s.disk[i].ents
           k == Min(EntsNamed(s, d, name))
<1>1. i \in Inodes /\ s.disk \in Disks /\ DiskOk(s.disk)
  BY NodesTyped DEF DiskOk, Good
<1>2. E \in Seq(Entry) /\ Len(E) \in Nat
  BY <1>1, LinksTyped, LenProperties
<1>3. EntsNamed(s, d, name) = {j \in 1..Len(E) : E[j].name = name}
  BY DEF EntsNamed, InodeOf
<1> HIDE DEF E
<1>4. k \in EntsNamed(s, d, name)
  BY <1>2, <1>3, MinPlace
<1> HIDE DEF k, i
<1>5. k \in 1..Len(E) /\ E[k].name = name
  BY <1>3, <1>4
<1>6. E[k] \in Entry
  BY <1>2, <1>5, ElementOfSeq
<1>7. E[k] # Hole
  BY <1>5, EntryTyped
<1>8. E[k].inode \in Inodes \ {ROOT}
  BY <1>6, <1>7, EntryTyped
<1>9. E[k].inode # 0
  BY <1>8, EntryTyped
<1>10. /\ s.disk[E[k].inode].links >= 1 /\ s.disk[E[k].inode].type # "none"
  BY <1>1, <1>5, <1>9, NamedLinked DEF E
<1> QED BY <1>1, <1>5, <1>8, <1>10 DEF E, i, k

(* The result of a walk along a path.                                       *)
Walked(r, H, pin) ==
    /\ r.n \in {0} \cup Nodes
    /\ r.n # 0 => Good(r.s, Inc(H, r.n), pin)
    /\ r.n = 0 => Done(r.s, H, pin)

(* The directory need not be held any more.                                 *)
LEMMA FindDirWalked ==
  ASSUME NEW s, NEW H, NEW pin, Good(s, H, pin), Holding(H, pin), NEW d \in 1..Len(s.cache),
         NEW name \in Names
  PROVE  /\ Walked(FindDir(s, d, name), H, pin) /\ FindDir(s, d, name).n # 1
         /\ \/ FindDir(s, d, name) = [s |-> s, n |-> 0]
            \/ /\ EntsNamed(s, d, name) # {}
               /\ Got(s, FindDir(s, d, name), InodeOf(s, d).ents[Min(EntsNamed(s, d, name))].inode, H, pin)
<1>c. IsCofs(s) /\ ~Stopped(s)
  BY DEF Good, Stopped
<1>1. CASE ~IsDir(s, d) \/ EntsNamed(s, d, name) = {}
  <2>1. FindDir(s, d, name) = [s |-> s, n |-> 0]
    BY <1>1 DEF FindDir
  <2> QED BY <1>c, <2>1 DEF Walked, Done
<1>2. CASE IsDir(s, d) /\ EntsNamed(s, d, name) # {}
  <2>1. PICK k, i, j : k = Min(EntsNamed(s, d, name)) /\ j = s.cache[d].inode /\ i = s.disk[j].ents[k].inode
    OBVIOUS
  <2>2. i \in Inodes \ {ROOT} /\ s.disk[i].type # "none"
    BY <1>2, <2>1, EntsNamedAre
  <2>3. PICK r : r = CofsGetNode(s, i)
    OBVIOUS
  <2>4. FindDir(s, d, name) = r /\ i = InodeOf(s, d).ents[Min(EntsNamed(s, d, name))].inode
    BY <1>2, <1>c, <2>1, <2>3 DEF FindDir, InodeOf
  <2>5. Got(s, r, i, H, pin)
    BY <2>2, <2>3, GetNodeGood
  <2>6. r.n = 0 => IsCofs(r.s) /\ Stopped(r.s)
    BY <2>5 DEF Got
  <2>7. Walked(r, H, pin) /\ r.n # 1
    BY <2>5, <2>6 DEF Got, Walked, Done
  <2> QED BY <1>2, <2>4, <2>5, <2>7
<1> QED BY <1>1, <1>2

(* A search in a directory that is held.                                    *)
LEMMA FindDirFound ==
  ASSUME NEW s, NEW H, NEW pin, Good(s, H, pin), Holding(H, pin), NEW d \in Nodes, d = 1 \/ H[d] > 0,
         NEW name \in Names
  PROVE  FoundIn(s, d, name, FindDir(s, d, name), H, pin)
<1>c. IsCofs(s) /\ ~Stopped(s) /\ d \in 1..Len(s.cache)
  BY HeldNode DEF Good, Stopped, Holding
<1>d. PICK r : r = FindDir(s, d, name)
  OBVIOUS
<1>1. CASE r = [s |-> s, n |-> 0]
  BY <1>1, <1>c, <1>d DEF FoundIn
<1>2. CASE r # [s |-> s, n |-> 0]
  <2>1. PICK k, i, j : k = Min(EntsNamed(s, d, name)) /\ j = s.cache[d].inode /\ i = s.disk[j].ents[k].inode
    OBVIOUS
  <2>2. EntsNamed(s, d, name) # {} /\ Got(s, r, i, H, pin)
    <3>1. i = InodeOf(s, d).ents[Min(EntsNamed(s, d, name))].inode
      BY <2>1 DEF InodeOf
    <3> QED BY <1>2, <1>c, <1>d, <3>1, FindDirWalked
  <2>6. ASSUME r.n # 0
        PROVE  /\ r.n \in Nodes /\ r.n # 1 /\ Good(r.s, Inc(H, r.n), pin) /\ r.s.disk = s.disk
               /\ EntsNamed(r.s, d, name) # {} /\ r.s.cache[d].inode = s.cache[d].inode
               /\ r.s.cache[r.n].inode = InodeOf(r.s, d).ents[Min(EntsNamed(r.s, d, name))].inode
    <3>1. /\ r.n \in Nodes \ {1} /\ Good(r.s, Inc(H, r.n), pin) /\ r.s.disk = s.disk
          /\ r.s.cache[r.n].inode = i /\ r.s.cache[d].inode = j
      BY <2>1, <2>2, <2>6 DEF Got
    <3>2. InodeOf(r.s, d) = s.disk[j] /\ InodeOf(s, d) = s.disk[j]
      BY <2>1, <3>1 DEF InodeOf
    <3>3. EntsNamed(r.s, d, name) = EntsNamed(s, d, name)
      BY <3>2 DEF EntsNamed
    <3> QED BY <2>1, <2>2, <3>1, <3>2, <3>3
  <2>7. IsCofs(r.s) /\ r.n \in {0} \cup Nodes /\ (r.n = 0 => Stopped(r.s))
    BY <2>2 DEF Got
  <2> QED BY <1>d, <2>6, <2>7 DEF FoundIn
<1> QED BY <1>1, <1>2

-----------------------------------------------------------------------------
(* The inode of a node that is held is written.                             *)
LEMMA UpdateGood ==
  ASSUME NEW s, NEW H, NEW pin, Good(s, H, pin), Holding(H, pin), NEW n \in Nodes, n = 1 \/ H[n] > 0
  PROVE  /\ Good(CofsUpdateNode(s, n), H, pin) /\ CofsUpdateNode(s, n).cache = s.cache
         /\ SameDirs(s.disk, CofsUpdateNode(s, n).disk)
<1>1. PICK i, t : i = s.cache[n].inode /\ t = CofsUpdateNode(s, n)
  OBVIOUS
<1>2. /\ s.cache[n] \in CofsNode /\ i \in Inodes /\ s.disk \in Disks
      /\ s.cache[n].type = s.disk[i].type
  BY <1>1, HeldNode DEF Holding
<1>3. IsCofs(s) /\ s.halt = "no" /\ DiskOk(s.disk) /\ CacheOk(s.disk, s.cache) /\ HoldOk(s.cache, H, pin)
  BY DEF Good
<1>4. /\ IsCofs(t) /\ t.cache = s.cache /\ t.halt = s.halt /\ t.disk \in Disks
      /\ t.disk[i].type = s.cache[n].type
      /\ t.disk[i].links = s.disk[i].links /\ t.disk[i].ents = s.disk[i].ents
      /\ \A j \in Inodes \ {i} : t.disk[j] = s.disk[j]
  BY <1>1, <1>2, <1>3, UpdateParts, SMTT(30)
<1>5. SameDirs(s.disk, t.disk)
  BY <1>2, <1>4 DEF SameDirs
<1>6. DiskOk(t.disk) /\ CacheOk(t.disk, s.cache)
  BY <1>3, <1>5, SameDirsOk
<1>7. Good(t, H, pin)
  BY <1>3, <1>4, <1>6 DEF Good
<1> QED BY <1>1, <1>4, <1>5, <1>7

(* The entries, or the count of links, of an inode are set.                 *)
WithEnts(s, d, E) == [s EXCEPT !.disk[d].ents = E]
WithLinks(s, i, l) == [s EXCEPT !.disk[i].links = l]

Inoded(s, t, i, E, l) ==
    /\ IsCofs(t) /\ t.cache = s.cache /\ t.halt = s.halt /\ t.disk \in Disks
    /\ t.disk[i].ents = E /\ t.disk[i].links = l /\ t.disk[i].type = s.disk[i].type
    /\ \A m \in Inodes \ {i} : t.disk[m] = s.disk[m]

LEMMA EntsSet ==
  ASSUME NEW s, IsCofs(s), s.disk \in Disks, NEW d \in Inodes, NEW E \in Seq(Entry)
  PROVE  Inoded(s, WithEnts(s, d, E), d, E, s.disk[d].links)
<1>1. s.disk[d] \in DiskInode /\ d \in DOMAIN s.disk
  BY DEF Disks
<1>2. PICK y, t : y = [s.disk[d] EXCEPT !.ents = E] /\ t = WithEnts(s, d, E)
  OBVIOUS
<1>3. y \in DiskInode /\ y.ents = E /\ y.type = s.disk[d].type /\ y.links = s.disk[d].links
  BY <1>1, <1>2 DEF DiskInode
<1>4. PICK e : e = [s.disk EXCEPT ![d] = y]
  OBVIOUS
<1>5. t = [s EXCEPT !.disk = e]
  BY <1>1, <1>2, <1>4 DEF IsCofs, WithEnts
<1>6. DiskSet(s, t, e)
  BY <1>5, PartsSet, Zenon
<1>7. e \in Disks /\ e[d] = y /\ \A j \in Inodes \ {d} : e[j] = s.disk[j]
  BY <1>3, <1>4 DEF Disks
<1>8. Inoded(s, t, d, E, s.disk[d].links)
  BY <1>3, <1>6, <1>7 DEF DiskSet, Inoded
<1> QED BY <1>2, <1>8, Zenon

LEMMA LinksAre ==
  ASSUME NEW s, IsCofs(s), s.disk \in Disks, NEW i \in Inodes, NEW l \in Nat
  PROVE  Inoded(s, WithLinks(s, i, l), i, s.disk[i].ents, l)
<1>1. s.disk[i] \in DiskInode /\ i \in DOMAIN s.disk
  BY DEF Disks
<1>2. PICK y, t : y = [s.disk[i] EXCEPT !.links = l] /\ t = WithLinks(s, i, l)
  OBVIOUS
<1>3. y \in DiskInode /\ y.links = l /\ y.type = s.disk[i].type /\ y.ents = s.disk[i].ents
  BY <1>1, <1>2 DEF DiskInode
<1>4. PICK e : e = [s.disk EXCEPT ![i] = y]
  OBVIOUS
<1>5. t = [s EXCEPT !.disk = e]
  BY <1>1, <1>2, <1>4 DEF IsCofs, WithLinks
<1>6. DiskSet(s, t, e)
  BY <1>5, PartsSet, Zenon
<1>7. e \in Disks /\ e[i] = y /\ \A j \in Inodes \ {i} : e[j] = s.disk[j]
  BY <1>3, <1>4 DEF Disks
<1>8. Inoded(s, t, i, s.disk[i].ents, l)
  BY <1>3, <1>6, <1>7 DEF DiskSet, Inoded
<1> QED BY <1>2, <1>8, Zenon

(* With another disk, of the same types, the nodes stay what they are.      *)
LEMMA DiskGood ==
  ASSUME NEW s, NEW H, NEW pin, Good(s, H, pin), NEW t, IsCofs(t), t.cache = s.cache, t.halt = s.halt,
         DiskOk(t.disk), \A i \in Inodes : t.disk[i].type = s.disk[i].type
  PROVE  Good(t, H, pin)
<1>1. CacheOk(t.disk, s.cache)
  BY SameTypes DEF Good
<1> QED BY <1>1 DEF Good

(* cofs_dirlink: the new entry leads to an inode that has a link to spare.  *)
LEMMA DirlinkDone ==
  ASSUME NEW s, NEW H, NEW pin, Good(s, H, pin), Holding(H, pin), NEW d \in Nodes, d = 1 \/ H[d] > 0,
         NEW name \in Names, NEW i, Spare(s.disk, i)
  PROVE  Done(CofsDirlink(s, d, name, i).s, H, pin)
<1> DEFINE j == s.cache[d].inode
           E == s.disk[j].ents
           holes == {k \in 1..Len(E) : E[k].inode = 0}
           e == [name |-> name, inode |-> i]
           f == FindDir(s, d, name)
<1>c. IsCofs(s) /\ DiskOk(s.disk) /\ s.disk \in Disks /\ j \in Inodes /\ s.halt = "no"
  BY HeldNode DEF Good, Holding
<1>e. E \in Seq(Entry) /\ Len(E) \in Nat
  BY <1>c, LinksTyped, LenProperties
<1>i. i \in Inodes \ {ROOT}
  BY DEF Spare
<1>x. e \in Entry /\ e.inode = i
  BY <1>i DEF Entry
<1>w. ASSUME NEW t, NEW k, NEW F \in Seq(Entry), t = WithEnts(s, j, F),
             k \in 1..Len(F), F[k] = e, \A m \in 1..Len(E) : m \in 1..Len(F),
             \A m \in 1..Len(F) : m # k => m \in 1..Len(E) /\ F[m] = E[m],
             k \in 1..Len(E) => E[k].inode = 0
      PROVE  Good(t, H, pin)
  <2>0. Inoded(s, t, j, F, s.disk[j].links)
    <3> HIDE DEF j, E, e
    <3>1. t = WithEnts(s, j, F)
      BY <1>w
    <3>2. Inoded(s, WithEnts(s, j, F), j, F, s.disk[j].links)
      BY <1>c, EntsSet, Zenon
    <3> QED BY <3>1, <3>2
  <2>1. /\ IsCofs(t) /\ t.cache = s.cache /\ t.halt = s.halt /\ t.disk \in Disks /\ t.disk[j].ents = F
        /\ t.disk[j].type = s.disk[j].type /\ t.disk[j].links = s.disk[j].links
        /\ \A m \in Inodes \ {j} : t.disk[m] = s.disk[m]
    BY <2>0 DEF Inoded
  <2>2. \A m \in Inodes : t.disk[m].type = s.disk[m].type /\ t.disk[m].links = s.disk[m].links
    BY <2>1
  <2>3. Written(s.disk, t.disk, j, k, e)
    BY <1>w, <2>1, <2>2 DEF Written
  <2>4. Spare(s.disk, e.inode)
    BY <1>x
  <2>5. k \in 1..Len(s.disk[j].ents) => s.disk[j].ents[k].inode = 0
    BY <1>w
  <2>6. \A m \in Inodes : t.disk[m].links = s.disk[m].links
    BY <2>2
  <2> HIDE DEF j, E, e
  <2>7. DiskOk(t.disk)
    BY <1>c, <2>3, <2>4, <2>5, <2>6, EntryAdded, Zenon DEF E
  <2> QED BY <2>1, <2>2, <2>7, DiskGood
<1>1. CASE ~IsDir(s, d)
  <2>1. CofsDirlink(s, d, name, i).s = Stop(s, "panic")
    BY <1>1 DEF CofsDirlink
  <2>2. "panic" \in Halts
    BY DEF Halts
  <2>3. IsCofs(Stop(s, "panic")) /\ Stopped(Stop(s, "panic"))
    BY <1>c, <2>2, StoppedStays
  <2> QED BY <2>1, <2>3 DEF Done
<1>2. CASE IsDir(s, d) /\ NameTaken(s, d, name)
  <2>1. PICK r, u : r = f /\ u = [r.s EXCEPT !.failed = r.s.failed \cup {i}]
    OBVIOUS
  <2>2. CofsDirlink(s, d, name, i).s = CofsPutNode(u, r.n)
    BY <1>2, <2>1 DEF CofsDirlink
  <2>3. FoundIn(s, d, name, r, H, pin)
    BY <2>1, FindDirFound
  <2>4. IsCofs(r.s)
    BY <2>3 DEF FoundIn
  <2>5. DiskSet(r.s, u, r.s.disk)
    BY <2>1, <2>4, PartsSet, Zenon
  <2>6. CASE Stopped(r.s)
    <3>1. Stopped(u) /\ IsCofs(u)
      BY <2>5, <2>6 DEF DiskSet, Stopped
    <3>2. CofsPutNode(u, r.n) = u
      BY <3>1 DEF CofsPutNode
    <3> QED BY <2>2, <3>1, <3>2 DEF Done
  <2>7. CASE ~Stopped(r.s)
    <3>1. r.n # 0
      <4>1. \/ r = [s |-> s, n |-> 0] /\ ~NameTaken(s, d, name)
            \/ r # [s |-> s, n |-> 0] /\ \E y : Got(s, r, y, H, pin)
        <5>1. d \in 1..Len(s.cache)
          BY HeldNode DEF Holding
        <5>2. EntsNamed(s, d, name) # {} /\ IsDir(s, d) /\ ~Stopped(s)
          BY <1>2, <1>c DEF NameTaken, Stopped
        <5>3. r = CofsGetNode(s, InodeOf(s, d).ents[Min(EntsNamed(s, d, name))].inode)
          BY <2>1, <5>2 DEF FindDir
        <5>4. PICK y : y = InodeOf(s, d).ents[Min(EntsNamed(s, d, name))].inode
          OBVIOUS
        <5>5. y \in Inodes \ {ROOT} /\ s.disk[y].type # "none"
          BY <5>1, <5>2, <5>4, EntsNamedAre DEF InodeOf
        <5>6. Got(s, r, y, H, pin)
          BY <5>3, <5>4, <5>5, GetNodeGood
        <5> QED BY <2>7, <5>6 DEF Got, Stopped
      <4> QED BY <1>2, <2>7, <4>1 DEF Got
    <3>2. Good(r.s, Inc(H, r.n), pin) /\ r.n \in Nodes
      BY <2>3, <3>1 DEF FoundIn
    <3>3. Good(u, Inc(H, r.n), pin)
      BY <2>5, <3>2 DEF DiskSet, Good
    <3>4. Good(CofsPutNode(u, r.n), H, pin)
      BY <3>2, <3>3, PutGood
    <3> QED BY <2>2, <3>4 DEF Done, Good
  <2> QED BY <2>6, <2>7
<1>3. CASE IsDir(s, d) /\ ~NameTaken(s, d, name) /\ holes # {}
  <2>1. Min(holes) \in holes
    BY <1>3, <1>e, MinPlace
  <2>2. PICK k, F, t : /\ k = Min(holes) /\ F = [E EXCEPT ![k] = e]
                       /\ t = WithEnts(s, j, F)
    OBVIOUS
  <2>3. k \in 1..Len(E) /\ E[k].inode = 0
    BY <2>1, <2>2
  <2>4. CofsDirlink(s, d, name, i).s = t
    <3>1. CofsDirlink(s, d, name, i).s = [s EXCEPT !.disk[j].ents[Min(holes)] = e]
      BY <1>3 DEF CofsDirlink
    <3>2. [s EXCEPT !.disk[j].ents[k] = e] = WithEnts(s, j, F)
      BY <2>2 DEF WithEnts
    <3> QED BY <2>2, <3>1, <3>2
  <2> HIDE DEF E, holes, e
  <2>5. F \in Seq(Entry) /\ Len(F) = Len(E) /\ \A m \in 1..Len(E) : F[m] = IF m = k THEN e ELSE E[m]
    BY <1>e, <1>x, <2>2, <2>3, ExceptSeq
  <2>6. Good(t, H, pin)
    BY <1>w, <2>2, <2>3, <2>5
  <2> QED BY <2>4, <2>6 DEF Done, Good
<1>4. CASE IsDir(s, d) /\ ~NameTaken(s, d, name) /\ holes = {}
  <2>1. PICK F, t : F = Append(E, e) /\ t = WithEnts(s, j, F)
    OBVIOUS
  <2>2. CofsDirlink(s, d, name, i).s = CofsUpdateNode(t, d)
    <3>1. CofsDirlink(s, d, name, i).s = CofsUpdateNode([s EXCEPT !.disk[j].ents = Append(E, e)], d)
      BY <1>4 DEF CofsDirlink
    <3> QED BY <2>1, <3>1 DEF WithEnts
  <2> HIDE DEF E, holes, e
  <2>3. /\ F \in Seq(Entry) /\ Len(F) = Len(E) + 1 /\ F[Len(E) + 1] = e
        /\ \A m \in 1..Len(E) : F[m] = E[m]
    BY <1>e, <1>x, <2>1, AppendProperties
  <2>4. PICK k : k = Len(E) + 1
    OBVIOUS
  <2>5. /\ k \in 1..Len(F) /\ k \notin 1..Len(E) /\ \A m \in 1..Len(E) : m \in 1..Len(F)
        /\ \A m \in 1..Len(F) : m # k => m \in 1..Len(E)
    BY <1>e, <2>3, <2>4
  <2>6. Good(t, H, pin)
    BY <1>w, <2>1, <2>3, <2>4, <2>5
  <2>7. Good(CofsUpdateNode(t, d), H, pin)
    BY <2>6, UpdateGood
  <2> QED BY <2>2, <2>7 DEF Done, Good
<1> QED BY <1>1, <1>2, <1>3, <1>4

(* The inode of a node that is held gets a count of links.                  *)
LEMMA LinksGood ==
  ASSUME NEW s, NEW H, NEW pin, Good(s, H, pin), NEW i \in Inodes \ {ROOT}, NEW l \in Nat,
         Cardinality(Refs(s.disk, i)) <= l
  PROVE  /\ Good(WithLinks(s, i, l), H, pin) /\ WithLinks(s, i, l).cache = s.cache
         /\ Refs(WithLinks(s, i, l).disk, i) = Refs(s.disk, i) /\ WithLinks(s, i, l).disk[i].links = l
         /\ WithLinks(s, i, l).disk[i].type = s.disk[i].type
<1>c. IsCofs(s) /\ DiskOk(s.disk) /\ s.disk \in Disks /\ i \in Inodes
  BY DEF Good, DiskOk
<1>1. Inoded(s, WithLinks(s, i, l), i, s.disk[i].ents, l)
  BY <1>c, LinksAre, Zenon
<1>2. PICK t : t = WithLinks(s, i, l)
  OBVIOUS
<1>3. /\ IsCofs(t) /\ t.cache = s.cache /\ t.halt = s.halt /\ t.disk \in Disks
      /\ t.disk[i].links = l /\ t.disk[i].type = s.disk[i].type
      /\ \A j \in Inodes : t.disk[j].type = s.disk[j].type /\ t.disk[j].ents = s.disk[j].ents
      /\ \A j \in Inodes \ {i} : t.disk[j].links = s.disk[j].links
  BY <1>1, <1>2 DEF Inoded
<1>4. Cardinality(Refs(s.disk, i)) <= t.disk[i].links
  BY <1>3
<1>5. DiskOk(t.disk) /\ Refs(t.disk, i) = Refs(s.disk, i)
  BY <1>c, <1>3, <1>4, LinksSet
<1>6. Good(t, H, pin)
  BY <1>3, <1>5, DiskGood
<1> QED BY <1>2, <1>3, <1>5, <1>6

LEMMA SpareKept ==
  ASSUME NEW disk, NEW e, NEW i, DiskOk(disk), SameDirs(disk, e), Spare(disk, i)
  PROVE  Spare(e, i)
BY SameDirsOk DEF Spare, SameDirs

(* The permissions of a node that is held are set.                          *)
LEMMA MaskGood ==
  ASSUME NEW s, NEW H, NEW pin, Good(s, H, pin), Holding(H, pin), NEW n \in Nodes, n = 1 \/ H[n] > 0,
         NEW m \in Nat, NEW t, t = [s EXCEPT !.cache[n].mask = m]
  PROVE  /\ Good(t, H, pin) /\ t.disk = s.disk /\ t.cache[n].inode = s.cache[n].inode
<1>1. PICK c : c = s.cache[n]
  OBVIOUS
<1>2. /\ n \in 1..Len(s.cache) /\ s.cache \in Seq(CofsNode) /\ c \in CofsNode /\ c.ref > 0
      /\ n # 1 => c.ref = H[n] + c.leak
      /\ H \in Holds /\ IsCofs(s) /\ CacheOk(s.disk, s.cache)
  BY <1>1, HeldNode DEF Holding, Good
<1>3. Renoded(s, t, n, WithMask(c, m))
  BY <1>1, <1>2, RenodedBy, Zenon
<1>4. PICK v : v = WithMask(c, m)
  OBVIOUS
<1>5. v.inode = c.inode /\ v.ref = c.ref /\ v.type = c.type /\ v.leak = c.leak
  <2>1. /\ WithMask(c, m).inode = c.inode /\ WithMask(c, m).ref = c.ref
        /\ WithMask(c, m).type = c.type /\ WithMask(c, m).leak = c.leak
    BY <1>2, WithFields, Zenon
  <2> QED BY <1>4, <2>1
<1>6. Typed(s.disk, c)
  BY <1>1, <1>2 DEF CacheOk
<1>7. /\ Typed(s.disk, v) /\ v.inode = s.cache[n].inode /\ (n = 1 => v.ref >= 1)
      /\ n # 1 => v.ref = H[n] + v.leak
  <2>1. c.ref \in Nat
    BY <1>2, NodeFields
  <2> QED BY <1>1, <1>2, <1>5, <1>6, <2>1 DEF Typed
<1>8. Renoded(s, t, n, v) /\ \A k \in Nodes \ {n} : H[k] = H[k]
  BY <1>3, <1>4
<1>9. Good(t, H, pin)
  BY <1>2, <1>7, <1>8, GoodNode, Zenon
<1>10. t.disk = s.disk /\ t.cache[n] = v
  BY <1>2, <1>8 DEF Renoded, NodeSet
<1> QED BY <1>7, <1>9, <1>10

(* cofs_link: one more name for an inode, which is not that of the root.    *)
LEMMA LinkDone ==
  ASSUME NEW s, NEW H, NEW pin, Done(s, H, pin), Holding(H, pin), NEW d \in Nodes, d = 1 \/ H[d] > 0,
         NEW n \in {0} \cup Nodes, n # 0 => n # 1 /\ H[n] > 0, NEW name \in Names
  PROVE  Done(CofsLink(s, d, n, name).s, H, pin)
<1>1. CASE Stopped(s)
  BY <1>1 DEF CofsLink
<1>2. CASE ~Stopped(s) /\ (n = 0 \/ LocksTwice(s, d, n, name))
  <2>1. \E how \in Halts : CofsLink(s, d, n, name).s = Stop(s, how)
    BY <1>2 DEF CofsLink, Halts
  <2>2. IsCofs(s)
    BY DEF Done
  <2>3. IsCofs(CofsLink(s, d, n, name).s) /\ Stopped(CofsLink(s, d, n, name).s)
    BY <2>1, <2>2, StoppedStays
  <2> QED BY <2>3 DEF Done
<1>3. CASE ~Stopped(s) /\ n # 0 /\ ~LocksTwice(s, d, n, name)
  <2>1. Good(s, H, pin) /\ n \in Nodes /\ n # 1 /\ H[n] > 0
    BY <1>3 DEF Done
  <2>2. PICK i, l : i = s.cache[n].inode /\ l = s.disk[i].links
    OBVIOUS
  <2>3. /\ i \in Inodes \ {ROOT} /\ s.cache[n].type # "none" /\ s.cache[n].type = s.disk[i].type
        /\ s.disk \in Disks /\ l \in Nat
    <3>1. /\ i \in Inodes \ {ROOT} /\ s.cache[n].type # "none" /\ s.cache[n].type = s.disk[i].type
          /\ s.disk \in Disks
      BY <2>1, <2>2, HeldNode DEF Holding
    <3> QED BY <2>2, <3>1, LinksTyped
  <2>4. Linked(s.disk, i)
    BY <2>1, <2>3 DEF Good, DiskOk
  <2>5. Cardinality(Refs(s.disk, i)) \in Nat /\ Cardinality(Refs(s.disk, i)) <= l
    BY <2>2, <2>4, FS_CardinalityType DEF Linked
  <2>6. PICK q \in Nat : q = l + 1
    BY <2>3
  <2>7. Cardinality(Refs(s.disk, i)) <= q /\ Cardinality(Refs(s.disk, i)) + 1 <= q
    BY <2>3, <2>5, <2>6
  <2>8. PICK t : t = WithLinks(s, i, q)
    OBVIOUS
  <2>9. /\ Good(t, H, pin) /\ t.cache = s.cache /\ Refs(t.disk, i) = Refs(s.disk, i)
        /\ t.disk[i].links = q /\ t.disk[i].type = s.disk[i].type
    BY <2>1, <2>3, <2>7, <2>8, LinksGood
  <2>10. Spare(t.disk, i)
    BY <2>3, <2>7, <2>9 DEF Spare
  <2>11. PICK u : u = CofsUpdateNode(t, n)
    OBVIOUS
  <2>12. Good(u, H, pin) /\ SameDirs(t.disk, u.disk)
    BY <2>1, <2>9, <2>11, UpdateGood
  <2>13. Spare(u.disk, i)
    BY <2>9, <2>10, <2>12, SpareKept DEF Good
  <2>14. CofsLink(s, d, n, name) = CofsDirlink(u, d, name, i)
    <3>1. [s EXCEPT !.disk[i].links = @ + 1] = t
      BY <2>2, <2>6, <2>8 DEF WithLinks
    <3> QED BY <1>3, <2>2, <2>11, <3>1 DEF CofsLink
  <2> QED BY <2>12, <2>13, <2>14, DirlinkDone
<1> QED BY <1>1, <1>2, <1>3

(* inode_alloc: an inode that no entry leads to.                            *)
Alloced(r, H, pin) ==
    /\ IsCofs(r.s) /\ r.n \in {0} \cup Nodes
    /\ r.n = 0 => Stopped(r.s)
    /\ r.n # 0 => /\ r.n # 1 /\ Good(r.s, Inc(H, r.n), pin) /\ r.s.cache[r.n].inode \in Inodes \ {ROOT}
                  /\ Refs(r.s.disk, r.s.cache[r.n].inode) = {}

(* inode_alloc gives an inode that no name leads to, with its node.         *)
LEMMA AllocGood ==
  ASSUME NEW s, NEW H, NEW pin, Good(s, H, pin), Holding(H, pin), NEW type \in {"file", "dir"}
  PROVE  Alloced(InodeAlloc(s, type), H, pin)
<1>c. /\ IsCofs(s) /\ DiskOk(s.disk) /\ s.disk \in Disks /\ s.halt = "no" /\ CacheOk(s.disk, s.cache)
      /\ HoldOk(s.cache, H, pin)
  BY DEF Good, DiskOk
<1>1. CASE UnusedInodes(s) = {}
  <2>1. InodeAlloc(s, type) = [s |-> Stop(s, "panic"), n |-> 0]
    BY <1>1 DEF InodeAlloc
  <2>2. IsCofs(Stop(s, "panic")) /\ Stopped(Stop(s, "panic"))
    BY <1>c, StoppedStays DEF Halts
  <2> QED BY <2>1, <2>2 DEF Alloced
<1>2. CASE UnusedInodes(s) # {}
  <2>1. PICK i, x : i = Min(UnusedInodes(s)) /\ x = [FreeInode EXCEPT !.type = type]
    OBVIOUS
  <2>2. i \in UnusedInodes(s)
    <3>1. UnusedInodes(s) \in SUBSET (1..(NUM_INODES - 1)) /\ NUM_INODES - 1 \in Nat
      BY Consts DEF UnusedInodes, Inodes
    <3>2. PICK N \in Nat : N = NUM_INODES - 1
      BY <3>1
    <3> QED BY <1>2, <2>1, <3>1, <3>2, MinPlace
  <2>3. i \in Inodes \ {ROOT} /\ s.disk[i].type = "none"
    <3>1. i \in Inodes /\ s.disk[i].type = "none"
      BY <2>2 DEF UnusedInodes
    <3>2. s.disk[ROOT].type = "dir"
      BY <1>c DEF DiskOk
    <3> QED BY <3>1, <3>2
  <2>4. x \in DiskInode /\ x.type = type /\ x.ents = <<>>
    <3>1. <<>> \in Seq(Entry)
      BY EmptySeq
    <3> QED BY <2>1, <3>1 DEF FreeInode, DiskInode
  <2>5. PICK e, t : e = [s.disk EXCEPT ![i] = x] /\ t = [s EXCEPT !.disk = e]
    OBVIOUS
  <2>6. InodeAlloc(s, type) = CofsGetNode(t, i)
    BY <1>2, <2>1, <2>5 DEF InodeAlloc
  <2>7. DiskSet(s, t, e)
    BY <1>c, <2>5, PartsSet, Zenon
  <2>8. e \in Disks /\ e[i] = x /\ \A j \in Inodes \ {i} : e[j] = s.disk[j]
    BY <1>c, <2>3, <2>4, <2>5 DEF Disks
  <2>9. Refs(s.disk, i) = {}
    BY <1>c, <2>3 DEF DiskOk, Linked
  <2>10. DiskOk(e) /\ Refs(e, i) = {}
    BY <1>c, <2>3, <2>4, <2>8, <2>9, Emptied
  <2>11. CacheOk(e, s.cache)
    <3>1. ASSUME NEW n \in 1..Len(s.cache) PROVE Typed(e, s.cache[n])
      <4>1. Typed(s.disk, s.cache[n]) /\ s.cache[n].inode \in Inodes
        BY <1>c, NodesTyped DEF CacheOk
      <4>2. CASE s.cache[n].inode = i
        BY <2>3, <4>1, <4>2 DEF Typed
      <4>3. CASE s.cache[n].inode # i
        BY <2>8, <4>1, <4>3 DEF Typed
      <4> QED BY <4>2, <4>3
    <3> QED BY <1>c, <3>1 DEF CacheOk
  <2>12. Good(t, H, pin) /\ t.disk = e
    BY <1>c, <2>7, <2>10, <2>11 DEF DiskSet, Good
  <2>13. t.disk[i].type # "none"
    BY <2>4, <2>8, <2>12
  <2>14. PICK r : r = CofsGetNode(t, i)
    OBVIOUS
  <2>15. Got(t, r, i, H, pin)
    BY <2>3, <2>12, <2>13, <2>14, GetNodeGood
  <2>16. Alloced(r, H, pin)
    BY <2>3, <2>10, <2>12, <2>15 DEF Got, Alloced
  <2> QED BY <2>6, <2>14, <2>16
<1> QED BY <1>1, <1>2

(* cofs_creat and cofs_mkdir.                                               *)
LEMMA CreatFound ==
  ASSUME NEW s, NEW H, NEW pin, Good(s, H, pin), Holding(H, pin), NEW d \in Nodes, d = 1 \/ H[d] > 0,
         NEW name \in Names, NEW mode \in Nat, NEW type \in {"file", "dir"}
  PROVE  /\ Found(CofsCreat(s, d, name, mode, type), H, pin)
         /\ CofsCreat(s, d, name, mode, type).n = 0 => Stopped(CofsCreat(s, d, name, mode, type).s)
<1>1. PICK a : a = InodeAlloc(s, type)
  OBVIOUS
<1>2. Alloced(a, H, pin)
  BY <1>1, AllocGood
<1>3. CASE a.n = 0
  <2>1. IsCofs(a.s) /\ Stopped(a.s)
    BY <1>2, <1>3 DEF Alloced
  <2>2. CofsCreat(s, d, name, mode, type) = a
    BY <1>1, <2>1 DEF CofsCreat, FirstName
  <2> QED BY <1>3, <2>1, <2>2 DEF Found
<1>4. CASE a.n # 0
  <2>1. PICK n, b, i : n = a.n /\ b = a.s /\ i = b.cache[n].inode
    OBVIOUS
  <2>2. n \in Nodes /\ n # 1 /\ Good(b, Inc(H, n), pin) /\ i \in Inodes \ {ROOT} /\ Refs(b.disk, i) = {}
    BY <1>2, <1>4, <2>1 DEF Alloced
  <2>3. /\ Holding(Inc(H, n), pin) /\ Inc(H, n)[n] > 0 /\ (d = 1 \/ Inc(H, n)[d] > 0)
    <3>1. Holding(Inc(H, n), pin) /\ Inc(H, n)[n] = H[n] + 1 /\ \A m \in Nodes \ {n} : Inc(H, n)[m] = H[m]
      BY <2>2, IncHolding
    <3>2. H[n] \in Nat
      BY <2>2 DEF Holding, Holds
    <3> QED BY <3>1, <3>2
  <2>4. Cardinality(Refs(b.disk, i)) = 0 /\ 0 <= 1 /\ 1 \in Nat
    BY <2>2, FS_EmptySet
  <2>5. PICK t : t = WithLinks(b, i, 1)
    OBVIOUS
  <2>6. /\ Good(t, Inc(H, n), pin) /\ t.cache = b.cache /\ Refs(t.disk, i) = Refs(b.disk, i)
        /\ t.disk[i].links = 1 /\ t.disk[i].type = b.disk[i].type
    <3>1. Cardinality(Refs(b.disk, i)) <= 1 /\ 1 \in Nat
      BY <2>4
    <3>2. /\ Good(WithLinks(b, i, 1), Inc(H, n), pin) /\ WithLinks(b, i, 1).cache = b.cache
          /\ Refs(WithLinks(b, i, 1).disk, i) = Refs(b.disk, i) /\ WithLinks(b, i, 1).disk[i].links = 1
          /\ WithLinks(b, i, 1).disk[i].type = b.disk[i].type
      BY <2>2, <3>1, LinksGood, ZenonT(60)
    <3> QED BY <2>5, <3>2
  <2>7. PICK u : u = [t EXCEPT !.cache[n].mask = mode]
    OBVIOUS
  <2>8. Good(u, Inc(H, n), pin) /\ u.disk = t.disk /\ u.cache[n].inode = t.cache[n].inode
    BY <2>2, <2>3, <2>6, <2>7, MaskGood
  <2>9. PICK v : v = CofsUpdateNode(u, n)
    OBVIOUS
  <2>10. Good(v, Inc(H, n), pin) /\ SameDirs(u.disk, v.disk) /\ v.cache = u.cache
    BY <2>2, <2>3, <2>8, <2>9, UpdateGood
  <2>11. Spare(u.disk, i)
    <3>1. b.cache[n].type # "none" /\ b.cache[n].type = b.disk[i].type
      BY <2>1, <2>2, <2>3, HeldNode DEF Holding
    <3> QED BY <2>2, <2>4, <2>6, <2>8, <3>1, SMTT(30) DEF Spare
  <2>12. Spare(v.disk, i)
    BY <2>8, <2>10, <2>11, SpareKept DEF Good
  <2>13. Done(CofsDirlink(v, d, name, i).s, Inc(H, n), pin)
    BY <2>3, <2>10, <2>12, DirlinkDone
  <2>14. CofsCreat(s, d, name, mode, type) = [s |-> CofsDirlink(v, d, name, i).s, n |-> n]
    <3>1. ~Stopped(b)
      BY <2>2 DEF Good, Stopped
    <3>2. [b EXCEPT !.disk[i].links = 1, !.cache[n].mask = mode] = u
      BY <2>5, <2>7 DEF WithLinks
    <3> QED BY <1>1, <2>1, <2>9, <3>1, <3>2 DEF CofsCreat, FirstName
  <2>15. PICK z : z = CofsDirlink(v, d, name, i).s
    OBVIOUS
  <2>16. IsCofs(z) /\ (~Stopped(z) => Good(z, Inc(H, n), pin))
    BY <2>13, <2>15, Zenon DEF Done
  <2>17. /\ CofsCreat(s, d, name, mode, type).s = z /\ CofsCreat(s, d, name, mode, type).n = n
    BY <2>14, <2>15
  <2>18. n # 0 /\ n \in {0} \cup Nodes
    BY <1>4, <2>1, <2>2
  <2> QED BY <2>16, <2>17, <2>18, Zenon DEF Found
<1> QED BY <1>3, <1>4

LEMMA IncHeld ==
  ASSUME NEW H, NEW pin, Holding(H, pin), NEW n \in Nodes
  PROVE  /\ Holding(Inc(H, n), pin) /\ Inc(H, n)[n] > 0
         /\ \A m \in Nodes : m = 1 \/ H[m] > 0 => m = 1 \/ Inc(H, n)[m] > 0
         /\ \A m \in Nodes : H[m] > 0 => Inc(H, n)[m] > 0
<1>1. Holding(Inc(H, n), pin) /\ Inc(H, n)[n] = H[n] + 1 /\ \A m \in Nodes \ {n} : Inc(H, n)[m] = H[m]
  BY IncHolding
<1>2. H[n] \in Nat
  BY DEF Holding, Holds
<1> QED BY <1>1, <1>2

(* cofs_unlink, when the name is found.                                     *)
EntryGone(b, d, k, i) == [b EXCEPT !.disk[d].ents[k] = Hole, !.disk[i].links = @ - 1]

(* cofs_unlink of a name that was found, and the updates of both inodes.    *)
LEMMA EntryUnlinked ==
  ASSUME NEW b, NEW H, NEW pin, Good(b, H, pin), Holding(H, pin), NEW dir \in Nodes, dir = 1 \/ H[dir] > 0,
         NEW n \in Nodes, n # 1, H[n] > 0, NEW k, k \in 1..Len(InodeOf(b, dir).ents),
         InodeOf(b, dir).ents[k].inode = b.cache[n].inode, NEW t,
         t = EntryGone(b, b.cache[dir].inode, k, b.cache[n].inode)
  PROVE  Good(CofsUpdateNode(CofsUpdateNode(t, dir), n), H, pin)
<1>1. PICK d, i, E, l : /\ d = b.cache[dir].inode /\ i = b.cache[n].inode
                        /\ E = b.disk[d].ents /\ l = b.disk[i].links
  OBVIOUS
<1>2. d \in Inodes /\ i \in Inodes \ {ROOT} /\ b.disk \in Disks /\ IsCofs(b) /\ DiskOk(b.disk)
  <2>1. i \in Inodes \ {ROOT}
    BY <1>1, HeldNode DEF Holding
  <2>2. d \in Inodes
    BY <1>1, HeldNode DEF Holding
  <2> QED BY <2>1, <2>2 DEF Good, DiskOk
<1>3. E \in Seq(Entry) /\ k \in 1..Len(E) /\ E[k].inode = i /\ Hole \in Entry /\ i # 0 /\ l \in Nat
  <2>1. E \in Seq(Entry) /\ l \in Nat
    BY <1>1, <1>2, LinksTyped
  <2>2. i # 0
    BY <1>2, EntryTyped
  <2> QED BY <1>1, <2>1, <2>2 DEF InodeOf, Entry
<1>4. l >= 1
  BY <1>1, <1>2, <1>3, NamedLinked
<1>5. PICK F, u : F = [E EXCEPT ![k] = Hole] /\ u = WithEnts(b, d, F)
  OBVIOUS
<1>6. F \in Seq(Entry) /\ Len(F) = Len(E) /\ \A m \in 1..Len(E) : F[m] = IF m = k THEN Hole ELSE E[m]
  BY <1>3, <1>5, ExceptSeq
<1>7. Inoded(b, u, d, F, b.disk[d].links)
  <2>1. Inoded(b, WithEnts(b, d, F), d, F, b.disk[d].links)
    BY <1>2, <1>6, EntsSet, Zenon
  <2> QED BY <1>5, <2>1
<1>8. PICK q \in Nat : q = l - 1
  BY <1>3, <1>4
<1>9. u.disk[i].links = l
  BY <1>1, <1>2, <1>7 DEF Inoded
<1>10. t = WithLinks(u, i, q)
  BY <1>1, <1>2, <1>5, <1>8, <1>9 DEF EntryGone, WithEnts, WithLinks
<1>11. Inoded(u, t, i, u.disk[i].ents, q)
  <2>1. IsCofs(u) /\ u.disk \in Disks /\ i \in Inodes
    BY <1>2, <1>7 DEF Inoded
  <2>2. Inoded(u, WithLinks(u, i, q), i, u.disk[i].ents, q)
    BY <2>1, LinksAre, Zenon
  <2> QED BY <1>10, <2>2
<1>12. /\ t.disk \in Disks /\ IsCofs(t) /\ t.cache = b.cache /\ t.halt = b.halt
       /\ \A j \in Inodes : t.disk[j].type = b.disk[j].type
       /\ \A j \in Inodes : t.disk[j].links = IF j = i THEN b.disk[j].links - 1 ELSE b.disk[j].links
       /\ t.disk[d].ents = F /\ \A j \in Inodes \ {d} : t.disk[j].ents = b.disk[j].ents
  <2>1. /\ IsCofs(t) /\ t.disk \in Disks /\ t.cache = b.cache /\ t.halt = b.halt
    BY <1>7, <1>11 DEF Inoded
  <2>2. ASSUME NEW j \in Inodes
        PROVE  /\ t.disk[j].type = b.disk[j].type
               /\ t.disk[j].links = IF j = i THEN b.disk[j].links - 1 ELSE b.disk[j].links
               /\ t.disk[j].ents = IF j = d THEN F ELSE b.disk[j].ents
    <3>1. /\ u.disk[j].type = b.disk[j].type /\ u.disk[j].links = b.disk[j].links
          /\ u.disk[j].ents = IF j = d THEN F ELSE b.disk[j].ents
      BY <1>7 DEF Inoded
    <3>2. /\ t.disk[j].type = u.disk[j].type /\ t.disk[j].ents = u.disk[j].ents
          /\ t.disk[j].links = IF j = i THEN q ELSE u.disk[j].links
      <4>1. /\ t.disk[i].type = u.disk[i].type /\ t.disk[i].ents = u.disk[i].ents
            /\ t.disk[i].links = q /\ \A m \in Inodes \ {i} : t.disk[m] = u.disk[m]
        BY <1>11 DEF Inoded
      <4>2. CASE j = i
        BY <4>1, <4>2
      <4>3. CASE j # i
        <5>1. t.disk[j] = u.disk[j]
          BY <4>1, <4>3
        <5> QED BY <4>3, <5>1
      <4> QED BY <4>2, <4>3
    <3> QED BY <1>1, <1>8, <3>1, <3>2
  <2> QED BY <1>2, <2>1, <2>2
<1>13. Written(b.disk, t.disk, d, k, Hole)
  BY <1>1, <1>3, <1>6, <1>12 DEF Written
<1>14. DiskOk(t.disk)
  <2>1. k \in 1..Len(b.disk[d].ents) /\ i = b.disk[d].ents[k].inode
    BY <1>1, <1>3
  <2>2. \A j \in Inodes : t.disk[j].links = IF j = i THEN b.disk[j].links - 1 ELSE b.disk[j].links
    BY <1>12
  <2> QED BY <1>2, <1>3, <1>13, <2>1, <2>2, EntryRemoved, ZenonT(60)
<1>15. Good(t, H, pin)
  BY <1>12, <1>14, DiskGood
<1>16. Good(CofsUpdateNode(t, dir), H, pin)
  BY <1>15, UpdateGood
<1> QED BY <1>16, UpdateGood

(* cofs_unlink, which gives the directory back.                             *)
LEMMA UnlinkDone ==
  ASSUME NEW s, NEW H, NEW pin, Holding(H, pin), NEW dir \in Nodes, Good(s, Inc(H, dir), pin), NEW name \in Names
  PROVE  Done(CofsUnlink(s, dir, name), H, pin)
<1>1. PICK f, G : f = FindDir(s, dir, name) /\ G = Inc(H, dir)
  OBVIOUS
<1>2. Holding(G, pin) /\ G[dir] > 0 /\ Good(s, G, pin)
  BY <1>1, IncHeld
<1>3. FoundIn(s, dir, name, f, G, pin)
  BY <1>1, <1>2, FindDirFound
<1>4. CofsUnlink(s, dir, name) = NameRemoved(f, dir, name) /\ IsCofs(f.s) /\ ~Stopped(s)
  BY <1>1, <1>2, <1>3 DEF CofsUnlink, FoundIn, Good, Stopped
<1>5. CASE Stopped(f.s)
  <2>1. NameRemoved(f, dir, name) = f.s
    BY <1>5 DEF NameRemoved
  <2> QED BY <1>4, <1>5, <2>1 DEF Done
<1>6. CASE ~Stopped(f.s) /\ f.n = 0
  <2>1. NameRemoved(f, dir, name) = Leak(s, dir)
    BY <1>3, <1>6 DEF NameRemoved, FoundIn
  <2>2. Done(s, Inc(H, dir), pin)
    BY DEF Done, Good
  <2> QED BY <1>4, <2>1, <2>2, LeakDone
<1>7. CASE ~Stopped(f.s) /\ f.n # 0
  <2>1. PICK b, n, k : b = f.s /\ n = f.n /\ k = Min(EntsNamed(b, dir, name))
    OBVIOUS
  <2>2. /\ n \in Nodes /\ n # 1 /\ Good(b, Inc(G, n), pin) /\ EntsNamed(b, dir, name) # {}
        /\ b.cache[n].inode = InodeOf(b, dir).ents[k].inode
    BY <1>3, <1>7, <2>1 DEF FoundIn
  <2>3. Holding(Inc(G, n), pin) /\ Inc(G, n)[n] > 0 /\ (dir = 1 \/ Inc(G, n)[dir] > 0)
    BY <1>2, <2>2, IncHeld
  <2>4. k \in 1..Len(InodeOf(b, dir).ents)
    <3>1. dir \in 1..Len(b.cache)
      BY <2>2, <2>3, HeldNode DEF Holding
    <3> QED BY <2>1, <2>2, <3>1, EntsNamedAre DEF InodeOf
  <2>5. PICK t : t = EntryGone(b, b.cache[dir].inode, k, b.cache[n].inode)
    OBVIOUS
  <2>6. PICK v : v = CofsUpdateNode(CofsUpdateNode(t, dir), n)
    OBVIOUS
  <2>7. Good(v, Inc(G, n), pin)
    BY <2>2, <2>3, <2>4, <2>5, <2>6, EntryUnlinked
  <2>8. Good(CofsPutNode(v, n), G, pin)
    BY <1>2, <2>2, <2>7, PutGood
  <2>9. Good(CofsPutNode(CofsPutNode(v, n), dir), H, pin)
    BY <1>1, <2>8, PutGood
  <2>10. NameRemoved(f, dir, name) = CofsPutNode(CofsPutNode(v, n), dir)
    BY <1>7, <2>1, <2>5, <2>6 DEF NameRemoved, EntryGone
  <2> QED BY <1>4, <2>9, <2>10 DEF Done, Good
<1> QED BY <1>5, <1>6, <1>7

-----------------------------------------------------------------------------
(* fs_namei: one name of the path.                                          *)
LEMMA StepWalked ==
  ASSUME NEW f, NEW H, NEW pin, Walked(f, H, pin), Holding(H, pin), NEW name \in Names
  PROVE  Walked(NameiStep(f, name), H, pin) /\ NameiStep(f, name).n # 1
<1>1. CASE f.n = 0
  BY <1>1 DEF NameiStep
<1>2. CASE f.n # 0
  <2>1. PICK n, b : n = f.n /\ b = f.s
    OBVIOUS
  <2>2. n \in Nodes /\ Good(b, Inc(H, n), pin)
    BY <1>2, <2>1 DEF Walked
  <2>3. Holding(Inc(H, n), pin) /\ Inc(H, n)[n] > 0 /\ \A m \in Nodes \ {n} : Inc(H, n)[m] = H[m]
    BY <2>2, IncHeld, IncHolding
  <2>4. n \in 1..Len(b.cache) /\ b.cache \in Seq(CofsNode) /\ b.cache[n].ref \in Nat /\ b.cache[n].ref > 0
    BY <2>2, <2>3, HeldNode DEF Holding
  <2>5. PICK u : u = IF b.cache[n].inode = ROOT THEN b ELSE [b EXCEPT !.cache[n].ref = @ - 1]
    OBVIOUS
  <2>6. Good(u, H, pin) /\ n \in 1..Len(u.cache)
    <3>1. CASE b.cache[n].inode = ROOT
      <4>1. n = 1
        BY <2>2, <2>4, <3>1 DEF Good, CacheOk
      <4>2. Good(b, H, pin)
        BY <2>2, <2>3, <4>1, RootFree
      <4> QED BY <2>4, <2>5, <3>1, <4>2
    <3>2. CASE b.cache[n].inode # ROOT
      <4>1. n # 1
        BY <2>2, <3>2 DEF Good, CacheOk
      <4>2. PICK c, r : c = b.cache[n] /\ r = c.ref - 1
        OBVIOUS
      <4>3. r \in Nat
        BY <2>4, <4>2
      <4>4. u = [b EXCEPT !.cache[n].ref = b.cache[n].ref - 1] /\ u = [b EXCEPT !.cache[n].ref = r]
        BY <2>5, <3>2, <4>2
      <4>5. Good(u, H, pin)
        BY <2>2, <4>1, <4>4, DropRef
      <4>6. Renoded(b, [b EXCEPT !.cache[n].ref = r], n, WithRef(b.cache[n], r))
        BY <2>2, <2>4, <4>3, RenodedBy, Zenon DEF Good
      <4>7. Len(u.cache) = Len(b.cache)
        BY <4>4, <4>6 DEF Renoded, NodeSet
      <4> QED BY <2>4, <4>5, <4>7
    <3> QED BY <3>1, <3>2
  <2>7. NameiStep(f, name) = FindDir(u, n, name)
    BY <1>2, <2>1, <2>5 DEF NameiStep
  <2>8. Walked(FindDir(u, n, name), H, pin) /\ FindDir(u, n, name).n # 1
    BY <2>6, FindDirWalked
  <2> QED BY <2>7, <2>8
<1> QED BY <1>1, <1>2

(* The walk is defined, and each of its steps ends at a node or nowhere.    *)
IsWalk(f, s, path, m) ==
    /\ f = [k \in 0..m |-> IF k = 0 THEN [s |-> s, n |-> 1] ELSE NameiStep(f[k - 1], path[k])]

(* There is such a function for every length.                               *)
LEMMA WalkIs ==
  ASSUME NEW s, NEW path, NEW m \in Nat
  PROVE  \E f : IsWalk(f, s, path, m)
<1> DEFINE S == {j \in Nat : \E f : IsWalk(f, s, path, j)}
<1>1. 0 \in S
  <2>1. IsWalk([k \in 0..0 |-> [s |-> s, n |-> 1]], s, path, 0)
    BY DEF IsWalk
  <2> QED BY <2>1
<1>2. ASSUME NEW j \in Nat, j \in S PROVE j + 1 \in S
  <2>1. PICK f : IsWalk(f, s, path, j)
    BY <1>2
  <2>2. PICK g : g = [k \in 0..(j + 1) |-> IF k <= j THEN f[k] ELSE NameiStep(f[j], path[k])]
    OBVIOUS
  <2>3. /\ \A k \in 0..j : k \in 0..(j + 1) /\ k <= j
        /\ \A k \in 0..(j + 1) : k = j + 1 \/ k \in 0..j
        /\ \A k \in 0..(j + 1) : k # 0 => k - 1 \in 0..j
        /\ ~(j + 1 <= j) /\ j + 1 # 0 /\ (j + 1) - 1 = j /\ j + 1 \in 0..(j + 1)
    OBVIOUS
  <2>4. \A k \in 0..j : f[k] = IF k = 0 THEN [s |-> s, n |-> 1] ELSE NameiStep(f[k - 1], path[k])
    BY <2>1 DEF IsWalk
  <2>5. (\A k \in 0..j : g[k] = f[k]) /\ g[j + 1] = NameiStep(f[j], path[j + 1])
    BY <2>2, <2>3
  <2>6. \A k \in 0..(j + 1) : g[k] = IF k = 0 THEN [s |-> s, n |-> 1] ELSE NameiStep(g[k - 1], path[k])
    <3> TAKE k \in 0..(j + 1)
    <3>1. CASE k \in 0..j
      <4>1. k # 0 => k - 1 \in 0..j
        BY <2>3
      <4> QED BY <2>4, <2>5, <3>1, <4>1
    <3>2. CASE k = j + 1
      BY <2>3, <2>5, <3>2
    <3> QED BY <2>3, <3>1, <3>2
  <2>7. g = [k \in 0..(j + 1) |-> g[k]]
    BY <2>2
  <2>8. IsWalk(g, s, path, j + 1)
    BY <2>6, <2>7 DEF IsWalk
  <2> QED BY <2>8
<1> HIDE DEF S
<1>3. \A j \in Nat : j \in S
  BY <1>1, <1>2, SetInduction
<1> QED BY <1>3 DEF S

(* fs_namei, whatever the path.                                             *)
LEMMA NameiWalked ==
  ASSUME NEW s, NEW H, NEW pin, Good(s, H, pin), Holding(H, pin), NEW path \in Seq(Names)
  PROVE  /\ Walked(FsNamei(s, path), H, pin)
         /\ path # <<>> => FsNamei(s, path).n # 1
         /\ path = <<>> => FsNamei(s, path).n = 1
<1>1. PICK m \in Nat : m = Len(path)
  OBVIOUS
<1>2. PICK f : IsWalk(f, s, path, m)
  BY WalkIs
<1>3. PICK g : g = CHOOSE walk : walk = [k \in 0..Len(path) |->
                      IF k = 0 THEN [s |-> s, n |-> 1] ELSE NameiStep(walk[k - 1], path[k])]
  OBVIOUS
<1>4. IsWalk(g, s, path, m)
  BY <1>1, <1>2, <1>3 DEF IsWalk
<1>5. FsNamei(s, path) = g[m]
  BY <1>1, <1>3 DEF FsNamei
<1> DEFINE S == {j \in Nat : j <= m => Walked(g[j], H, pin) /\ (j # 0 => g[j].n # 1)}
<1>6. \A k \in 0..m : g[k] = IF k = 0 THEN [s |-> s, n |-> 1] ELSE NameiStep(g[k - 1], path[k])
  BY <1>4 DEF IsWalk
<1>7. 0 \in S
  <2>1. g[0] = [s |-> s, n |-> 1]
    BY <1>6
  <2>2. Good(s, Inc(H, 1), pin)
    <3>1. \A k \in Nodes \ {1} : Inc(H, 1)[k] = H[k]
      BY IncHolding, Consts
    <3> QED BY <3>1, RootFree
  <2> QED BY <2>1, <2>2, Consts DEF Walked
<1>8. ASSUME NEW j \in Nat, j \in S PROVE j + 1 \in S
  <2> SUFFICES ASSUME j + 1 <= m PROVE Walked(g[j + 1], H, pin) /\ g[j + 1].n # 1
    OBVIOUS
  <2>1. Walked(g[j], H, pin) /\ j + 1 \in 0..m /\ j + 1 # 0 /\ (j + 1) - 1 = j /\ j + 1 \in 1..Len(path)
    BY <1>1, <1>8
  <2>2. g[j + 1] = NameiStep(g[j], path[j + 1])
    BY <1>6, <2>1
  <2>3. path[j + 1] \in Names
    BY <2>1, ElementOfSeq
  <2> QED BY <2>1, <2>2, <2>3, StepWalked
<1> HIDE DEF S
<1>9. \A j \in Nat : j \in S
  BY <1>7, <1>8, SetInduction
<1>10. (path # <<>> => m # 0) /\ (path = <<>> => m = 0)
  BY <1>1, EmptySeq
<1>11. g[0].n = 1
  BY <1>6
<1> QED BY <1>5, <1>9, <1>10, <1>11 DEF S

-----------------------------------------------------------------------------
(* The calls on names.  A node that was found is held until it is put; which of
   two was found first does not matter.                                     *)
LEMMA IncSwap ==
  ASSUME NEW H \in Holds, NEW n \in Nodes, NEW m \in Nodes
  PROVE  Inc(Inc(H, n), m) = Inc(Inc(H, m), n)
BY DEF Holds, Inc

LEMMA GoodDone ==
  ASSUME NEW s, NEW H, NEW pin
  PROVE  /\ Good(s, H, pin) => Done(s, H, pin) /\ ~Stopped(s)
         /\ Done(s, H, pin) /\ ~Stopped(s) => Good(s, H, pin)
         /\ IsCofs(s) /\ Stopped(s) => Done(s, H, pin)
BY DEF Good, Done, Stopped

LEMMA StopDone ==
  ASSUME NEW s, NEW H, NEW pin, Done(s, H, pin), NEW G, NEW how \in Halts
  PROVE  Done(Stop(s, how), G, pin) /\ Stopped(Stop(s, how))
<1>1. IsCofs(Stop(s, how)) /\ Stopped(Stop(s, how))
  BY StoppedStays DEF Done
<1> QED BY <1>1, GoodDone

LEMMA PathParts ==
  ASSUME NEW path \in FilePaths
  PROVE  /\ path \in Seq(Names)
         /\ path # <<>> => Front(path) \in FilePaths /\ Front(path) \in Seq(Names) /\ Last(path) \in Names
<1>1. FilePaths \subseteq Seq(Names) /\ \A p \in FilePaths \ {<<>>} : Front(p) \in FilePaths
  BY FilesAssumption, Zenon
<1>2. path \in Seq(Names)
  BY <1>1
<1>3. ASSUME path # <<>> PROVE Last(path) \in Names
  <2>1. Len(path) \in 1..Len(path)
    BY <1>2, <1>3, EmptySeq
  <2>2. path[Len(path)] \in Names
    BY <1>2, <2>1, ElementOfSeq
  <2> QED BY <2>2 DEF Last
<1> QED BY <1>1, <1>2, <1>3

(* fs_creat.                                                                *)
LEMMA FsCreatFound ==
  ASSUME NEW s, NEW H, NEW pin, Good(s, H, pin), Holding(H, pin), NEW path \in FilePaths, NEW mode \in Nat
  PROVE  Found(FsCreat(s, path, mode), H, pin)
<1>s. IsCofs(s) /\ ~Stopped(s)
  BY DEF Good, Stopped
<1>1. CASE path = <<>>
  <2>1. FsCreat(s, path, mode) = [s |-> s, n |-> 0]
    BY <1>1 DEF FsCreat
  <2> QED BY <1>s, <2>1 DEF Found
<1>2. CASE path # <<>>
  <2>1. PICK d, name : d = FsNamei(s, Front(path)) /\ name = Last(path)
    OBVIOUS
  <2>2. Walked(d, H, pin) /\ name \in Names
    BY <1>2, <2>1, PathParts, NameiWalked
  <2>3. FsCreat(s, path, mode) = CreatIn(d, name, mode)
    BY <1>2, <2>1 DEF FsCreat
  <2>4. CASE d.n = 0
    <3>1. CreatIn(d, name, mode) = d
      BY <2>4 DEF CreatIn
    <3> QED BY <2>2, <2>3, <2>4, <3>1 DEF Walked, Found, Done
  <2>5. CASE d.n # 0
    <3>1. PICK n, b : n = d.n /\ b = d.s
      OBVIOUS
    <3>2. n \in Nodes /\ Good(b, Inc(H, n), pin)
      BY <2>2, <2>5, <3>1 DEF Walked
    <3>3. Holding(Inc(H, n), pin) /\ Inc(H, n)[n] > 0 /\ H \in Holds
      BY <3>2, IncHeld DEF Holding
    <3>4. CASE ~IsDir(b, n)
      <4>1. CreatIn(d, name, mode) = [s |-> Stop(b, "panic"), n |-> 0]
        BY <2>5, <3>1, <3>4 DEF CreatIn
      <4>2. Done(Stop(b, "panic"), H, pin) /\ Stopped(Stop(b, "panic"))
        <5>1. "panic" \in Halts /\ Done(b, Inc(H, n), pin)
          BY <3>2, GoodDone DEF Halts
        <5> QED BY <5>1, StopDone
      <4> QED BY <2>3, <4>1, <4>2 DEF Found, Done
    <3>5. CASE IsDir(b, n)
      <4>1. PICK m : m = CofsCreat(b, n, name, mode, "file")
        OBVIOUS
      <4>2. Found(m, Inc(H, n), pin)
        BY <2>2, <3>2, <3>3, <4>1, CreatFound
      <4>3. CreatIn(d, name, mode) = [s |-> Leak(m.s, n), n |-> m.n]
        BY <2>5, <3>1, <3>5, <4>1 DEF CreatIn
      <4>4. CASE m.n = 0
        <5>1. Done(m.s, Inc(H, n), pin)
          BY <4>2, <4>4 DEF Found, Done
        <5>2. Done(Leak(m.s, n), H, pin)
          BY <3>2, <5>1, LeakDone
        <5> QED BY <2>3, <4>3, <4>4, <5>2 DEF Found, Done
      <4>5. CASE m.n # 0
        <5>1. PICK k : k = m.n
          OBVIOUS
        <5>2. k \in Nodes /\ Done(m.s, Inc(Inc(H, n), k), pin)
          BY <4>2, <4>5, <5>1 DEF Found, Done
        <5>3. Inc(Inc(H, n), k) = Inc(Inc(H, k), n) /\ Holding(Inc(H, k), pin)
          BY <3>2, <3>3, <5>2, IncSwap, IncHeld
        <5>4. Done(m.s, Inc(Inc(H, k), n), pin)
          BY <5>2, <5>3
        <5>5. Done(Leak(m.s, n), Inc(H, k), pin)
          BY <3>2, <5>3, <5>4, LeakDone
        <5> QED BY <2>3, <4>3, <4>5, <5>1, <5>2, <5>5 DEF Found, Done
      <4> QED BY <4>4, <4>5
    <3> QED BY <3>4, <3>5
  <2> QED BY <2>4, <2>5
<1> QED BY <1>1, <1>2

(* fs_unlink.                                                               *)
LEMMA FsUnlinkDone ==
  ASSUME NEW s, NEW H, NEW pin, Good(s, H, pin), Holding(H, pin), NEW path \in FilePaths
  PROVE  Done(FsUnlink(s, path), H, pin)
<1>1. CASE path = <<>>
  BY <1>1, GoodDone DEF FsUnlink
<1>2. CASE path # <<>>
  <2>1. PICK d, name : d = FsNamei(s, Front(path)) /\ name = Last(path)
    OBVIOUS
  <2>2. Walked(d, H, pin) /\ name \in Names
    BY <1>2, <2>1, PathParts, NameiWalked
  <2>3. FsUnlink(s, path) = UnlinkIn(d, name)
    BY <1>2, <2>1 DEF FsUnlink
  <2>4. CASE d.n = 0
    <3>1. Done(d.s, H, pin) /\ "wild" \in Halts
      BY <2>2, <2>4 DEF Walked, Halts
    <3>2. Done(Stop(d.s, "wild"), H, pin)
      BY <3>1, StopDone
    <3> QED BY <2>3, <2>4, <3>2 DEF UnlinkIn
  <2>5. CASE d.n # 0
    <3>1. PICK n, b, f : n = d.n /\ b = d.s /\ f = FindDir(b, n, name)
      OBVIOUS
    <3>2. n \in Nodes /\ Good(b, Inc(H, n), pin)
      BY <2>2, <2>5, <3>1 DEF Walked
    <3>3. Holding(Inc(H, n), pin) /\ Inc(H, n)[n] > 0
      BY <3>2, IncHeld
    <3>4. n \in 1..Len(b.cache)
      BY <3>2, <3>3, HeldNode DEF Holding
    <3>5. Walked(f, Inc(H, n), pin)
      BY <2>2, <3>1, <3>2, <3>3, <3>4, FindDirWalked
    <3>6. UnlinkIn(d, name) = UnlinkFound(f, n, name)
      BY <2>5, <3>1 DEF UnlinkIn
    <3>7. CASE f.n = 0
      <4>1. Done(f.s, Inc(H, n), pin)
        BY <3>5, <3>7 DEF Walked
      <4>2. CASE Stopped(f.s)
        BY <2>3, <3>6, <4>1, <4>2 DEF UnlinkFound, Done
      <4>3. CASE ~Stopped(f.s)
        <5>1. UnlinkFound(f, n, name) = Leak(f.s, n)
          BY <3>7, <4>3 DEF UnlinkFound
        <5>2. Done(Leak(f.s, n), H, pin)
          BY <3>2, <4>1, LeakDone
        <5> QED BY <2>3, <3>6, <5>1, <5>2
      <4> QED BY <4>2, <4>3
    <3>8. CASE f.n # 0
      <4>1. PICK k, c : k = f.n /\ c = f.s
        OBVIOUS
      <4>2. k \in Nodes /\ Good(c, Inc(Inc(H, n), k), pin) /\ ~Stopped(c)
        BY <3>5, <3>8, <4>1, GoodDone DEF Walked
      <4>3. CASE IsDir(c, k) /\ ~EmptyDir(c, k)
        <5>1. UnlinkFound(f, n, name) = Leak(Leak(c, k), n)
          BY <3>8, <4>1, <4>2, <4>3 DEF UnlinkFound
        <5>2. Done(c, Inc(Inc(H, n), k), pin)
          BY <4>2, GoodDone
        <5>3. Done(Leak(c, k), Inc(H, n), pin)
          BY <3>3, <4>2, <5>2, LeakDone
        <5>4. Done(Leak(Leak(c, k), n), H, pin)
          BY <3>2, <5>3, LeakDone
        <5> QED BY <2>3, <3>6, <5>1, <5>4
      <4>4. CASE ~(IsDir(c, k) /\ ~EmptyDir(c, k))
        <5>1. UnlinkFound(f, n, name) = CofsUnlink(CofsPutNode(c, k), n, name)
          BY <3>8, <4>1, <4>2, <4>4 DEF UnlinkFound
        <5>2. PICK u : u = CofsPutNode(c, k)
          OBVIOUS
        <5>3. Good(u, Inc(H, n), pin)
          BY <3>3, <4>2, <5>2, PutGood
        <5>4. Done(CofsUnlink(u, n, name), H, pin)
          BY <2>2, <3>2, <5>3, UnlinkDone
        <5> QED BY <2>3, <3>6, <5>1, <5>2, <5>4
      <4> QED BY <4>3, <4>4
    <3> QED BY <3>7, <3>8
  <2> QED BY <2>4, <2>5
<1> QED BY <1>1, <1>2

(* sys_stat, sys_chdir.                                                     *)
LEMMA PutWalked ==
  ASSUME NEW a, NEW H, NEW pin, Walked(a, H, pin), Holding(H, pin), a.n # 0
  PROVE  a.n \in Nodes /\ Good(CofsPutNode(a.s, a.n), H, pin) /\ Done(CofsPutNode(a.s, a.n), H, pin)
<1>1. PICK n, b : n = a.n /\ b = a.s
  OBVIOUS
<1>2. n \in Nodes /\ Good(b, Inc(H, n), pin)
  BY <1>1 DEF Walked
<1>3. Good(CofsPutNode(b, n), H, pin)
  BY <1>2, PutGood
<1> QED BY <1>1, <1>2, <1>3, GoodDone

(* sys_stat and sys_chdir.                                                  *)
LEMMA VisitedDone ==
  ASSUME NEW s, NEW H, NEW pin, Good(s, H, pin), Holding(H, pin), NEW path \in FilePaths
  PROVE  Done(Visited(s, path), H, pin)
<1>1. PICK a : a = FsOpen(s, path)
  OBVIOUS
<1>2. Walked(a, H, pin)
  BY <1>1, PathParts, NameiWalked DEF FsOpen
<1>3. CASE a.n = 0
  BY <1>1, <1>2, <1>3 DEF Visited, Walked
<1>4. CASE a.n # 0
  BY <1>1, <1>2, <1>4, PutWalked DEF Visited
<1> QED BY <1>3, <1>4

(* sys_unlink.                                                              *)
LEMMA SysUnlinkDone ==
  ASSUME NEW s, NEW H, NEW pin, Good(s, H, pin), Holding(H, pin), NEW path \in FilePaths
  PROVE  LET a == FsOpen(s, path) IN
         Done(IF a.n = 0 THEN a.s ELSE FsUnlink(CofsPutNode(a.s, a.n), path), H, pin)
<1>1. PICK a : a = FsOpen(s, path)
  OBVIOUS
<1>2. Walked(a, H, pin)
  BY <1>1, PathParts, NameiWalked DEF FsOpen
<1>3. CASE a.n = 0
  BY <1>1, <1>2, <1>3 DEF Walked
<1>4. CASE a.n # 0
  <2>1. PICK u : u = CofsPutNode(a.s, a.n)
    OBVIOUS
  <2>2. Good(u, H, pin)
    BY <1>2, <1>4, <2>1, PutWalked
  <2>3. Done(FsUnlink(u, path), H, pin)
    BY <2>2, FsUnlinkDone
  <2> QED BY <1>1, <1>4, <2>1, <2>3
<1> QED BY <1>3, <1>4

(* sys_mkdir.                                                               *)
LEMMA MkdirFoundDone ==
  ASSUME NEW f, NEW H, NEW pin, Holding(H, pin), NEW dir \in Nodes, Walked(f, Inc(H, dir), pin),
         NEW name \in Names, NEW mode \in Nat
  PROVE  Done(MkdirFound(f, dir, name, mode), H, pin)
<1>h. Holding(Inc(H, dir), pin) /\ Inc(H, dir)[dir] > 0 /\ H \in Holds
  BY IncHeld DEF Holding
<1>1. CASE Stopped(f.s)
  <2>1. IsCofs(f.s)
    BY DEF Walked, Done, Good
  <2> QED BY <1>1, <2>1, GoodDone DEF MkdirFound
<1>2. CASE ~Stopped(f.s) /\ f.n # 0
  <2>1. PICK n, b : n = f.n /\ b = f.s
    OBVIOUS
  <2>2. n \in Nodes /\ Good(b, Inc(Inc(H, dir), n), pin)
    BY <1>2, <2>1 DEF Walked
  <2>3. Inc(Inc(H, dir), n) = Inc(Inc(H, n), dir) /\ Holding(Inc(H, n), pin)
    BY <1>h, <2>2, IncSwap, IncHeld
  <2>4. Good(b, Inc(Inc(H, n), dir), pin)
    BY <2>2, <2>3
  <2>5. Good(CofsPutNode(b, dir), Inc(H, n), pin)
    BY <2>3, <2>4, PutGood
  <2>6. Good(CofsPutNode(CofsPutNode(b, dir), n), H, pin)
    BY <2>2, <2>5, PutGood
  <2>7. MkdirFound(f, dir, name, mode) = CofsPutNode(CofsPutNode(b, dir), n)
    BY <1>2, <2>1 DEF MkdirFound
  <2> QED BY <2>6, <2>7, GoodDone
<1>3. CASE ~Stopped(f.s) /\ f.n = 0
  <2>1. PICK b : b = f.s
    OBVIOUS
  <2>2. Good(b, Inc(H, dir), pin)
    BY <1>3, <2>1, GoodDone DEF Walked
  <2>3. CASE ~IsDir(b, dir)
    <3>1. MkdirFound(f, dir, name, mode) = CofsPutNode(b, dir)
      BY <1>3, <2>1, <2>3 DEF MkdirFound
    <3>2. Good(CofsPutNode(b, dir), H, pin)
      BY <2>2, PutGood
    <3> QED BY <3>1, <3>2, GoodDone
  <2>4. CASE IsDir(b, dir)
    <3>1. PICK m : m = CofsCreat(b, dir, name, mode, "dir")
      OBVIOUS
    <3>2. Found(m, Inc(H, dir), pin) /\ (m.n = 0 => Stopped(m.s))
      BY <1>h, <2>2, <3>1, CreatFound
    <3>3. MkdirFound(f, dir, name, mode) = CofsPutNode(CofsPutNode(m.s, m.n), dir)
      BY <1>3, <2>1, <2>4, <3>1 DEF MkdirFound
    <3>4. CASE m.n = 0
      <4>1. CofsPutNode(CofsPutNode(m.s, m.n), dir) = m.s
        BY <3>2, <3>4 DEF CofsPutNode
      <4>2. IsCofs(m.s) /\ Stopped(m.s)
        BY <3>2, <3>4 DEF Found
      <4> QED BY <3>3, <4>1, <4>2, GoodDone
    <3>5. CASE m.n # 0
      <4>1. PICK n : n = m.n
        OBVIOUS
      <4>2. n \in Nodes /\ Done(m.s, Inc(Inc(H, dir), n), pin)
        BY <3>2, <3>5, <4>1 DEF Found, Done
      <4>3. Done(CofsPutNode(m.s, n), Inc(H, dir), pin)
        BY <1>h, <4>2, PutDone
      <4>4. Done(CofsPutNode(CofsPutNode(m.s, n), dir), H, pin)
        BY <4>3, PutDone
      <4> QED BY <3>3, <4>1, <4>4
    <3> QED BY <3>4, <3>5
  <2> QED BY <2>3, <2>4
<1> QED BY <1>1, <1>2, <1>3

(* sys_mkdir, of any path and current directory.                            *)
LEMMA MkdirDone ==
  ASSUME NEW s, NEW H, NEW pin, Good(s, H, pin), Holding(H, pin), NEW path \in FilePaths, path # <<>>,
         NEW cwd \in FilePaths, NEW mode \in Nat
  PROVE  Done(MkdirResult(s, path, cwd, mode), H, pin)
<1>1. PICK d, name : d = FsOpen(s, MkdirParent(path, cwd)) /\ name = Last(path)
  OBVIOUS
<1>2. MkdirParent(path, cwd) \in Seq(Names) /\ name \in Names
  BY <1>1, PathParts DEF MkdirParent
<1>3. Walked(d, H, pin)
  BY <1>1, <1>2, NameiWalked DEF FsOpen
<1>4. MkdirResult(s, path, cwd, mode) = MkdirIn(d, name, mode)
  BY <1>1 DEF MkdirResult
<1>5. CASE d.n = 0 \/ Stopped(d.s)
  <2>1. Done(d.s, H, pin)
    BY <1>3, <1>5, GoodDone DEF Walked
  <2> QED BY <1>4, <1>5, <2>1 DEF MkdirIn
<1>6. CASE d.n # 0 /\ ~Stopped(d.s)
  <2>1. PICK n, b, f : n = d.n /\ b = d.s /\ f = FindDir(b, n, name)
    OBVIOUS
  <2>2. n \in Nodes /\ Good(b, Inc(H, n), pin)
    BY <1>3, <1>6, <2>1 DEF Walked
  <2>3. Holding(Inc(H, n), pin) /\ Inc(H, n)[n] > 0
    BY <2>2, IncHeld
  <2>4. n \in 1..Len(b.cache)
    BY <2>2, <2>3, HeldNode DEF Holding
  <2>5. Walked(f, Inc(H, n), pin)
    BY <1>2, <2>1, <2>2, <2>3, <2>4, FindDirWalked
  <2>6. Done(MkdirFound(f, n, name, mode), H, pin)
    BY <1>2, <2>2, <2>5, MkdirFoundDone
  <2> QED BY <1>4, <1>6, <2>1, <2>6 DEF MkdirIn
<1> QED BY <1>5, <1>6

(* sys_link.                                                                *)
LEMMA LinkIntoDone ==
  ASSUME NEW c, NEW H, NEW pin, Holding(H, pin), NEW n \in Nodes, n # 1, Walked(c, Inc(H, n), pin),
         NEW name \in Names
  PROVE  Done(LinkInto(c, n, name), H, pin)
<1>h. Holding(Inc(H, n), pin) /\ Inc(H, n)[n] > 0
  BY IncHeld
<1>1. CASE c.n = 0
  <2>1. Done(c.s, Inc(H, n), pin)
    BY <1>1 DEF Walked
  <2>2. Done(CofsPutNode(c.s, n), H, pin)
    BY <2>1, PutDone
  <2> QED BY <1>1, <2>2 DEF LinkInto
<1>2. CASE c.n # 0
  <2>1. PICK k, b : k = c.n /\ b = c.s
    OBVIOUS
  <2>2. k \in Nodes /\ Good(b, Inc(Inc(H, n), k), pin)
    BY <1>2, <2>1 DEF Walked
  <2>3. Holding(Inc(Inc(H, n), k), pin) /\ Inc(Inc(H, n), k)[k] > 0 /\ Inc(Inc(H, n), k)[n] > 0
    BY <1>h, <2>2, IncHeld
  <2>4. Done(b, Inc(Inc(H, n), k), pin)
    BY <2>2, GoodDone
  <2>5. PICK u : u = CofsLink(b, k, n, name).s
    OBVIOUS
  <2>6. Done(u, Inc(Inc(H, n), k), pin)
    BY <2>2, <2>3, <2>4, <2>5, LinkDone
  <2>7. PICK v \in {b, u} : LinkInto(c, n, name) = CofsPutNode(CofsPutNode(v, k), n)
    <3>1. CASE IsDir(b, k)
      BY <1>2, <2>1, <2>5, <3>1 DEF LinkInto
    <3>2. CASE ~IsDir(b, k)
      BY <1>2, <2>1, <2>5, <3>2 DEF LinkInto
    <3> QED BY <3>1, <3>2
  <2>8. Done(v, Inc(Inc(H, n), k), pin)
    BY <2>4, <2>6
  <2>9. Done(CofsPutNode(v, k), Inc(H, n), pin)
    BY <1>h, <2>2, <2>8, PutDone
  <2>10. Done(CofsPutNode(CofsPutNode(v, k), n), H, pin)
    BY <2>9, PutDone
  <2> QED BY <2>7, <2>10
<1> QED BY <1>1, <1>2

LEMMA LinkOldDone ==
  ASSUME NEW s, NEW H, NEW pin, Holding(H, pin), NEW dir \in {0} \cup Nodes,
         Good(s, IF dir = 0 THEN H ELSE Inc(H, dir), pin),
         NEW old \in FilePaths, old # <<>>, NEW new \in FilePaths, new = <<>> => dir # 0
  PROVE  Done(LinkOld(FsOpen(s, old), dir # 0, dir, old, new).s, H, pin)
<1>1. PICK b, G : b = FsOpen(s, old) /\ G = IF dir = 0 THEN H ELSE Inc(H, dir)
  OBVIOUS
<1>2. Holding(G, pin) /\ H \in Holds /\ G \in Holds /\ Good(s, G, pin)
  BY <1>1, IncHeld DEF Holding
<1>3. Walked(b, G, pin) /\ b.n # 1
  BY <1>1, <1>2, PathParts, NameiWalked DEF FsOpen
<1>4. CASE b.n = 0
  <2>1. Done(b.s, G, pin)
    BY <1>3, <1>4 DEF Walked
  <2>2. CASE dir = 0
    BY <1>1, <1>4, <2>1, <2>2 DEF LinkOld
  <2>3. CASE dir # 0
    <3>1. dir \in Nodes /\ Done(b.s, Inc(H, dir), pin)
      BY <1>1, <2>1, <2>3
    <3>2. Done(Leak(b.s, dir), H, pin)
      BY <3>1, LeakDone
    <3> QED BY <1>1, <1>4, <2>3, <3>2 DEF LinkOld
  <2> QED BY <2>2, <2>3
<1>5. CASE b.n # 0
  <2>1. PICK n, u, name : n = b.n /\ u = b.s /\ name = IF dir # 0 THEN Last(old) ELSE Last(new)
    OBVIOUS
  <2>2. n \in Nodes /\ n # 1 /\ Good(u, Inc(G, n), pin) /\ name \in Names
    <3>1. name \in Names
      BY <2>1, PathParts
    <3> QED BY <1>3, <1>5, <2>1, <3>1 DEF Walked
  <2>3. PICK c : c = IF dir # 0 THEN [s |-> u, n |-> dir] ELSE FsOpen(u, Front(new))
    OBVIOUS
  <2>4. Walked(c, Inc(H, n), pin)
    <3>1. CASE dir = 0
      <4>1. Good(u, Inc(H, n), pin) /\ Holding(Inc(H, n), pin)
        BY <1>1, <2>2, <3>1, IncHeld
      <4>2. c = FsNamei(u, Front(new)) /\ Front(new) \in Seq(Names)
        BY <2>3, <3>1, PathParts DEF FsOpen
      <4> QED BY <4>1, <4>2, NameiWalked
    <3>2. CASE dir # 0
      <4>1. dir \in Nodes /\ Good(u, Inc(Inc(H, dir), n), pin)
        BY <1>1, <2>2, <3>2
      <4>2. Inc(Inc(H, dir), n) = Inc(Inc(H, n), dir)
        BY <1>2, <2>2, <4>1, IncSwap
      <4>3. Good(u, Inc(Inc(H, n), dir), pin)
        BY <4>1, <4>2
      <4> QED BY <2>3, <3>2, <4>1, <4>3 DEF Walked
    <3> QED BY <3>1, <3>2
  <2>5. Done(LinkInto(c, n, name), H, pin)
    BY <2>2, <2>4, LinkIntoDone
  <2>6. LinkOld(b, dir # 0, dir, old, new).s = LinkInto(c, n, name)
    <3>1. CASE dir = 0
      BY <1>5, <2>1, <2>3, <3>1 DEF LinkOld
    <3>2. CASE dir # 0
      BY <1>5, <2>1, <2>3, <3>2 DEF LinkOld
    <3> QED BY <3>1, <3>2
  <2> QED BY <1>1, <2>5, <2>6
<1> QED BY <1>4, <1>5

(* sys_link.                                                                *)
LEMMA LinkResultDone ==
  ASSUME NEW s, NEW H, NEW pin, Good(s, H, pin), Holding(H, pin),
         NEW old \in FilePaths, old # <<>>, NEW new \in FilePaths
  PROVE  Done(LinkResult(s, old, new).s, H, pin)
<1>1. PICK a : a = FsOpen(s, new)
  OBVIOUS
<1>2. Walked(a, H, pin) /\ (new = <<>> => a.n # 0)
  BY <1>1, PathParts, NameiWalked DEF FsOpen
<1>3. LinkResult(s, old, new) = LinkNew(a, old, new)
  BY <1>1 DEF LinkResult
<1>4. CASE Stopped(a.s)
  <2>1. IsCofs(a.s)
    BY <1>2 DEF Walked, Done, Good
  <2>2. Done(a.s, H, pin)
    BY <1>4, <2>1, GoodDone
  <2> QED BY <1>3, <1>4, <2>2 DEF LinkNew
<1>5. CASE ~Stopped(a.s) /\ a.n # 0 /\ ~IsDir(a.s, a.n)
  <2>1. Done(CofsPutNode(a.s, a.n), H, pin)
    BY <1>2, <1>5, PutWalked
  <2> QED BY <1>3, <1>5, <2>1 DEF LinkNew
<1>6. CASE ~Stopped(a.s) /\ ~(a.n # 0 /\ ~IsDir(a.s, a.n))
  <2>1. PICK dir, b : dir = a.n /\ b = a.s
    OBVIOUS
  <2>2. dir \in {0} \cup Nodes /\ Good(b, IF dir = 0 THEN H ELSE Inc(H, dir), pin) /\ (new = <<>> => dir # 0)
    BY <1>2, <1>6, <2>1, GoodDone DEF Walked
  <2>3. Done(LinkOld(FsOpen(b, old), dir # 0, dir, old, new).s, H, pin)
    BY <2>2, LinkOldDone
  <2>4. LinkResult(s, old, new) = LinkOld(FsOpen(b, old), dir # 0, dir, old, new)
    BY <1>3, <1>6, <2>1 DEF LinkNew
  <2> QED BY <2>3, <2>4
<1> QED BY <1>4, <1>5, <1>6

(* sys_rename.                                                              *)
LEMMA RepairedDone ==
  ASSUME NEW s, NEW H, NEW pin, Holding(H, pin), NEW n \in Nodes, NEW p \in Nodes, NEW t \in Nodes,
         Done(s, Inc(Inc(Inc(H, n), p), t), pin)
  PROVE  Done(Repaired(s, n, p, t), H, pin)
<1>h. Holding(Inc(H, n), pin) /\ Inc(H, n) \in Holds
  BY IncHeld DEF Holding
<1>1. CASE Stopped(s)
  <2>1. IsCofs(s)
    BY DEF Done
  <2> QED BY <1>1, <2>1, GoodDone DEF Repaired
<1>2. CASE ~Stopped(s)
  <2>1. Inc(Inc(Inc(H, n), p), t) = Inc(Inc(Inc(H, n), t), p) /\ Holding(Inc(Inc(H, n), t), pin)
    BY <1>h, IncSwap, IncHeld
  <2>2. Done(s, Inc(Inc(Inc(H, n), t), p), pin)
    BY <2>1
  <2>3. Done(Leak(s, p), Inc(Inc(H, n), t), pin)
    BY <2>1, <2>2, LeakDone
  <2>4. Done(Leak(Leak(s, p), t), Inc(H, n), pin)
    BY <1>h, <2>3, LeakDone
  <2>5. Done(CofsPutNode(Leak(Leak(s, p), t), n), H, pin)
    BY <2>4, PutDone
  <2> QED BY <1>2, <2>5 DEF Repaired
<1> QED BY <1>1, <1>2

(* The end of sys_rename: the new name was linked or was not.               *)
LEMMA RenameEndDone ==
  ASSUME NEW l, NEW H, NEW pin, Holding(H, pin), NEW n \in Nodes, NEW p \in Nodes, NEW t \in {0} \cup Nodes,
         t # 1, NEW G, G = IF t = 0 THEN Inc(Inc(H, n), p) ELSE Inc(Inc(Inc(H, n), p), t),
         Done(l.s, G, pin), NEW old \in FilePaths, NEW new \in FilePaths, new # <<>>
  PROVE  Done(RenameEnd(l, n, p, t, old, new), H, pin)
<1>h. Holding(Inc(H, n), pin) /\ Holding(Inc(Inc(H, n), p), pin) /\ Inc(Inc(H, n), p)[p] > 0
  BY IncHeld
<1>g. Holding(G, pin) /\ G[p] > 0 /\ (t # 0 => t \in Nodes /\ G[t] > 0 /\ G = Inc(Inc(Inc(H, n), p), t))
  <2>1. CASE t = 0
    BY <1>h, <2>1
  <2>2. CASE t # 0
    <3>1. t \in Nodes /\ G = Inc(Inc(Inc(H, n), p), t)
      BY <2>2
    <3>2. /\ Holding(Inc(Inc(Inc(H, n), p), t), pin) /\ Inc(Inc(Inc(H, n), p), t)[t] > 0
          /\ Inc(Inc(Inc(H, n), p), t)[p] > 0
      BY <1>h, <3>1, IncHeld
    <3> QED BY <3>1, <3>2
  <2> QED BY <2>1, <2>2
<1>1. CASE Stopped(l.s)
  <2>1. IsCofs(l.s)
    BY DEF Done
  <2> QED BY <1>1, <2>1, GoodDone DEF RenameEnd
<1>2. CASE ~Stopped(l.s) /\ ~l.ok
  <2>1. PICK x : x = CofsLink(l.s, p, t, Last(new)).s
    OBVIOUS
  <2>2. Last(new) \in Names
    BY PathParts
  <2>3. Done(x, G, pin)
    BY <1>g, <2>1, <2>2, LinkDone
  <2>4. RenameEnd(l, n, p, t, old, new) = Repaired(x, n, p, t)
    BY <1>2, <2>1 DEF RenameEnd
  <2>5. CASE t = 0
    <3>1. x = Stop(l.s, "panic") /\ "panic" \in Halts
      BY <1>2, <2>1, <2>5 DEF CofsLink, Halts
    <3>2. Done(x, H, pin) /\ Stopped(x)
      BY <3>1, StopDone
    <3> QED BY <2>4, <3>2 DEF Repaired
  <2>6. CASE t # 0
    BY <1>g, <2>3, <2>4, <2>6, RepairedDone
  <2> QED BY <2>5, <2>6
<1>3. CASE ~Stopped(l.s) /\ l.ok
  <2>1. PICK u : u = FsUnlink(l.s, old)
    OBVIOUS
  <2>2. Good(l.s, G, pin)
    BY <1>3, GoodDone
  <2>3. Done(u, G, pin)
    BY <1>g, <2>1, <2>2, FsUnlinkDone
  <2>4. PICK v : v = IF t # 0 THEN CofsPutNode(u, t) ELSE u
    OBVIOUS
  <2>5. Done(v, Inc(Inc(H, n), p), pin)
    <3>1. CASE t = 0
      BY <2>3, <2>4, <3>1
    <3>2. CASE t # 0
      <4>1. Done(CofsPutNode(u, t), Inc(Inc(H, n), p), pin)
        BY <1>g, <1>h, <2>3, <3>2, PutDone
      <4> QED BY <2>4, <3>2, <4>1
    <3> QED BY <3>1, <3>2
  <2>6. Done(CofsPutNode(v, p), Inc(H, n), pin)
    BY <1>h, <2>5, PutDone
  <2>7. Done(CofsPutNode(CofsPutNode(v, p), n), H, pin)
    BY <2>6, PutDone
  <2>8. RenameEnd(l, n, p, t, old, new) = CofsPutNode(CofsPutNode(v, p), n)
    BY <1>3, <2>1, <2>4 DEF RenameEnd
  <2> QED BY <2>7, <2>8
<1> QED BY <1>1, <1>2, <1>3

(* The middle of sys_rename.                                                *)
LEMMA RenameLinkDone ==
  ASSUME NEW a, NEW H, NEW pin, Holding(H, pin), NEW n \in Nodes, n # 1, NEW p \in Nodes,
         Walked(a, Inc(Inc(H, n), p), pin), a.n # 1,
         NEW old \in FilePaths, NEW new \in FilePaths, new # <<>>
  PROVE  Done(RenameLink(a, n, p, old, new), H, pin)
<1> DEFINE J == Inc(Inc(H, n), p)
<1>h. /\ Holding(Inc(H, n), pin) /\ Inc(H, n)[n] > 0 /\ Holding(J, pin) /\ J[p] > 0 /\ J[n] > 0
      /\ Last(new) \in Names
  <2>1. Holding(Inc(H, n), pin) /\ Inc(H, n)[n] > 0
    BY IncHeld
  <2>2. Holding(J, pin) /\ J[p] > 0 /\ J[n] > 0
    BY <2>1, IncHeld
  <2> QED BY <2>1, <2>2, PathParts
<1> HIDE DEF J
<1>1. CASE a.n = 0
  <2>1. PICK l : l = CofsLink(a.s, p, n, Last(new))
    OBVIOUS
  <2>2. Done(a.s, J, pin)
    BY <1>1 DEF Walked, J
  <2>3. Done(l.s, J, pin)
    BY <1>h, <2>1, <2>2, LinkDone
  <2>4. RenameLink(a, n, p, old, new) = RenameEnd(l, n, p, 0, old, new)
    BY <1>1, <2>1 DEF RenameLink
  <2>5. J = IF 0 = 0 THEN Inc(Inc(H, n), p) ELSE Inc(Inc(Inc(H, n), p), 0)
    BY DEF J
  <2>6. 0 \in {0} \cup Nodes /\ 0 # 1
    OBVIOUS
  <2> QED BY <2>3, <2>4, <2>5, <2>6, RenameEndDone
<1>2. CASE a.n # 0
  <2>1. PICK t, u, l : t = a.n /\ u = FsUnlink(a.s, new) /\ l = CofsLink(u, p, n, Last(new))
    OBVIOUS
  <2>2. t \in Nodes /\ Good(a.s, Inc(J, t), pin)
    BY <1>2, <2>1 DEF Walked, J
  <2>3. Holding(Inc(J, t), pin) /\ Inc(J, t)[p] > 0 /\ Inc(J, t)[n] > 0
    BY <1>h, <2>2, IncHeld
  <2>4. Done(u, Inc(J, t), pin)
    BY <2>1, <2>2, <2>3, FsUnlinkDone
  <2>5. Done(l.s, Inc(J, t), pin)
    BY <1>h, <2>1, <2>3, <2>4, LinkDone
  <2>6. RenameLink(a, n, p, old, new) = RenameEnd(l, n, p, t, old, new)
    BY <1>2, <2>1 DEF RenameLink, RenameSteps
  <2>7. /\ Inc(J, t) = IF t = 0 THEN Inc(Inc(H, n), p) ELSE Inc(Inc(Inc(H, n), p), t)
        /\ t \in {0} \cup Nodes /\ t # 1
    BY <1>2, <2>1, <2>2 DEF J
  <2> QED BY <2>5, <2>6, <2>7, RenameEndDone
<1> QED BY <1>1, <1>2

(* sys_rename.                                                              *)
LEMMA RenameResultDone ==
  ASSUME NEW s, NEW H, NEW pin, Good(s, H, pin), Holding(H, pin),
         NEW old \in FilePaths, old # <<>>, NEW new \in FilePaths, new # <<>>
  PROVE  Done(RenameResult(s, old, new), H, pin)
<1>1. PICK a : a = FsOpen(s, old)
  OBVIOUS
<1>2. Walked(a, H, pin) /\ a.n # 1
  BY <1>1, PathParts, NameiWalked DEF FsOpen
<1>3. RenameResult(s, old, new) = RenameFrom(a, old, new)
  BY <1>1 DEF RenameResult
<1>4. CASE a.n = 0
  BY <1>2, <1>3, <1>4 DEF RenameFrom, Walked
<1>5. CASE a.n # 0
  <2>1. PICK n, p : n = a.n /\ p = FsOpen(a.s, Front(new))
    OBVIOUS
  <2>2. n \in Nodes /\ n # 1 /\ Good(a.s, Inc(H, n), pin)
    BY <1>2, <1>5, <2>1 DEF Walked
  <2>3. Holding(Inc(H, n), pin)
    BY <2>2, IncHeld
  <2>4. Walked(p, Inc(H, n), pin)
    BY <2>1, <2>2, <2>3, PathParts, NameiWalked DEF FsOpen
  <2>5. RenameResult(s, old, new) = RenameIn(p, n, old, new)
    BY <1>3, <1>5, <2>1 DEF RenameFrom
  <2>6. CASE p.n = 0
    <3>1. Done(p.s, Inc(H, n), pin)
      BY <2>4, <2>6 DEF Walked
    <3>2. Done(CofsPutNode(p.s, n), H, pin)
      BY <2>2, <3>1, PutDone
    <3> QED BY <2>5, <2>6, <3>2 DEF RenameIn
  <2>7. CASE p.n # 0
    <3>1. PICK k, b, t : k = p.n /\ b = p.s /\ t = FsOpen(b, new)
      OBVIOUS
    <3>2. k \in Nodes /\ Good(b, Inc(Inc(H, n), k), pin)
      BY <2>4, <2>7, <3>1 DEF Walked
    <3>3. Holding(Inc(Inc(H, n), k), pin)
      BY <2>3, <3>2, IncHeld
    <3>4. Walked(t, Inc(Inc(H, n), k), pin) /\ t.n # 1
      BY <3>1, <3>2, <3>3, PathParts, NameiWalked DEF FsOpen
    <3>5. RenameIn(p, n, old, new) = RenameLink(t, n, k, old, new)
      BY <2>7, <3>1 DEF RenameIn
    <3>6. Done(RenameLink(t, n, k, old, new), H, pin)
      BY <2>2, <3>2, <3>4, RenameLinkDone
    <3> QED BY <2>5, <3>5, <3>6
  <2> QED BY <2>6, <2>7
<1> QED BY <1>4, <1>5

-----------------------------------------------------------------------------
(* Descriptors: what a table of them refers to.                             *)
FileRec == [node : 0..MAX_CACHED_NODES, inode : Nat, dup_cnt : Nat]
Entries == {0} \cup FileIds

FdsOf(tab) == {k \in 1..Len(tab) : tab[k] # 0}
UsesOf(tab, f) == {k \in FdsOf(tab) : tab[k] = f}
OnNode(tab, files, n) == {k \in FdsOf(tab) : files[tab[k]].node = n}
HoldsOf(tab, files) == [n \in Nodes |-> Cardinality(OnNode(tab, files, n))]

TableTyped(tab) == tab \in Seq(Entries) /\ Len(tab) \in 1..MAX_OPEN_FILES

TableOk(tab, files) ==
    /\ TableTyped(tab) /\ files \in [FileIds -> FileRec]
    /\ \A f \in FileIds :
           Cardinality(UsesOf(tab, f)) = IF files[f].node = 0 THEN 0 ELSE files[f].dup_cnt + 1

(* A descriptor leads to the inode that was opened.                         *)
NodesOk(s, tab, files) ==
    \A k \in FdsOf(tab) : s.cache[files[tab[k]].node].inode = files[tab[k]].inode

(* What a call must leave: a state in which exactly the descriptors hold nodes. *)
Opened(s, tab, files) ==
    Good(s, HoldsOf(tab, files), <<>>) /\ TableOk(tab, files) /\ NodesOk(s, tab, files)

(* The nodes that descriptors hold, with the inodes they have.              *)
PinsOf(s, H) == [n \in {m \in Nodes : H[m] > 0} |-> s.cache[n].inode]

LEMMA TableConsts ==
  /\ MAX_OPEN_FILES \in Nat /\ MAX_OPEN_FILES >= 1 /\ TASK_INITIAL_NUM_FILES \in 1..MAX_OPEN_FILES
  /\ FileIds = 1..(MAX_OPEN_FILES + 1) /\ \A f \in FileIds : f # 0
<1>1. MAX_OPEN_FILES \in Nat /\ TASK_INITIAL_NUM_FILES \in 1..MAX_OPEN_FILES
  BY FilesAssumption, Zenon
<1> QED BY <1>1, Consts DEF FileIds

LEMMA TableFacts ==
  ASSUME NEW tab, TableTyped(tab)
  PROVE  /\ IsFiniteSet(FdsOf(tab)) /\ FdsOf(tab) \in SUBSET (1..MAX_OPEN_FILES)
         /\ \A f : IsFiniteSet(UsesOf(tab, f))
         /\ \A files, n : IsFiniteSet(OnNode(tab, files, n))
         /\ \A k \in FdsOf(tab) : tab[k] \in FileIds /\ k \in 1..Len(tab)
<1>1. Len(tab) \in 1..MAX_OPEN_FILES /\ MAX_OPEN_FILES \in Nat
  BY TableConsts DEF TableTyped
<1>2. FdsOf(tab) \in SUBSET (1..MAX_OPEN_FILES)
  BY <1>1 DEF FdsOf
<1>3. IsFiniteSet(1..MAX_OPEN_FILES)
  <2>1. 1 \in Int /\ MAX_OPEN_FILES \in Int
    BY <1>1
  <2> QED BY <2>1, FS_Interval
<1>4. \A T : T \subseteq FdsOf(tab) => IsFiniteSet(T)
  <2> TAKE T
  <2>1. T \subseteq FdsOf(tab) => T \in SUBSET (1..MAX_OPEN_FILES)
    BY <1>2
  <2> QED BY <1>3, <2>1, FS_Subset, Zenon
<1>5. \A f : UsesOf(tab, f) \subseteq FdsOf(tab)
  BY DEF UsesOf
<1>6. \A files, n : OnNode(tab, files, n) \subseteq FdsOf(tab)
  BY DEF OnNode
<1>7. \A k \in FdsOf(tab) : tab[k] \in FileIds /\ k \in 1..Len(tab)
  <2> TAKE k \in FdsOf(tab)
  <2>1. k \in 1..Len(tab) /\ tab[k] # 0
    BY DEF FdsOf
  <2>2. tab[k] \in Entries
    BY <2>1, ElementOfSeq DEF TableTyped
  <2> QED BY <2>1, <2>2 DEF Entries
<1> QED BY <1>2, <1>4, <1>5, <1>6, <1>7, Zenon

LEMMA RecFields ==
  ASSUME NEW r \in FileRec
  PROVE  /\ r.node \in {0} \cup Nodes /\ r.dup_cnt \in Nat /\ r.inode \in Nat
<1>1. r.node \in 0..MAX_CACHED_NODES /\ r.dup_cnt \in Nat /\ r.inode \in Nat
  BY DEF FileRec
<1>2. 0..MAX_CACHED_NODES = {0} \cup Nodes
  BY Consts DEF Nodes
<1> QED BY <1>1, <1>2

(* What descriptors hold, by node.                                          *)
LEMMA HoldsAre ==
  ASSUME NEW tab, NEW files, TableTyped(tab)
  PROVE  /\ HoldsOf(tab, files) \in Holds
         /\ \A n \in Nodes : HoldsOf(tab, files)[n] = Cardinality(OnNode(tab, files, n))
         /\ \A n \in Nodes : HoldsOf(tab, files)[n] > 0 <=> OnNode(tab, files, n) # {}
<1>1. \A n \in Nodes : /\ Cardinality(OnNode(tab, files, n)) \in Nat
                       /\ Cardinality(OnNode(tab, files, n)) = 0 <=> OnNode(tab, files, n) = {}
  BY TableFacts, FS_CardinalityType, FS_EmptySet
<1> QED BY <1>1 DEF HoldsOf, Holds

(* A descriptor's file has a node, which it holds.                          *)
LEMMA FdNode ==
  ASSUME NEW tab, NEW files, TableOk(tab, files), NEW k \in FdsOf(tab)
  PROVE  /\ tab[k] \in FileIds /\ files[tab[k]] \in FileRec /\ files[tab[k]].node \in Nodes
         /\ files[tab[k]].dup_cnt \in Nat
         /\ k \in OnNode(tab, files, files[tab[k]].node)
         /\ HoldsOf(tab, files)[files[tab[k]].node] > 0
<1>1. PICK f : f = tab[k]
  OBVIOUS
<1>2. TableTyped(tab) /\ f \in FileIds /\ files[f] \in FileRec
  BY <1>1, TableFacts DEF TableOk
<1>3. k \in UsesOf(tab, f) /\ IsFiniteSet(UsesOf(tab, f))
  BY <1>1, <1>2, TableFacts DEF UsesOf
<1>4. Cardinality(UsesOf(tab, f)) # 0
  BY <1>3, FS_EmptySet
<1>5. files[f].node # 0
  BY <1>2, <1>4 DEF TableOk
<1>6. files[f].node \in Nodes /\ files[f].dup_cnt \in Nat
  BY <1>2, <1>5, RecFields
<1>7. k \in OnNode(tab, files, files[tab[k]].node)
  BY DEF OnNode
<1> QED BY <1>1, <1>2, <1>6, <1>7, HoldsAre

(* What descriptors hold can be pinned for a call.                          *)
LEMMA PinsHold ==
  ASSUME NEW s, NEW H \in Holds
  PROVE  Holding(H, PinsOf(s, H)) /\ (Good(s, H, <<>>) => Good(s, H, PinsOf(s, H)))
<1>1. Holding(H, PinsOf(s, H))
  BY DEF Holding, PinsOf
<1>2. HoldOk(s.cache, H, <<>>) => HoldOk(s.cache, H, PinsOf(s, H))
  BY DEF HoldOk, PinsOf
<1> QED BY <1>1, <1>2 DEF Good

LEMMA PinsFree ==
  ASSUME NEW s, NEW H, NEW pin, Good(s, H, pin)
  PROVE  Good(s, H, <<>>)
<1>1. DOMAIN <<>> = {}
  OBVIOUS
<1>2. HoldOk(s.cache, H, <<>>)
  BY <1>1 DEF Good, HoldOk
<1> QED BY <1>2 DEF Good

(* A call that leaves the descriptors alone.                                *)
LEMMA CallOpened ==
  ASSUME NEW s, NEW tab, NEW files, Opened(s, tab, files), NEW t,
         Done(t, HoldsOf(tab, files), PinsOf(s, HoldsOf(tab, files))), ~Stopped(t)
  PROVE  Opened(t, tab, files)
<1>1. PICK H : H = HoldsOf(tab, files)
  OBVIOUS
<1>2. Good(t, H, PinsOf(s, H))
  BY <1>1, GoodDone
<1>3. Good(t, H, <<>>)
  BY <1>2, PinsFree
<1>4. NodesOk(t, tab, files)
  <2> SUFFICES ASSUME NEW k \in FdsOf(tab)
               PROVE  t.cache[files[tab[k]].node].inode = files[tab[k]].inode
    BY DEF NodesOk
  <2>1. files[tab[k]].node \in Nodes /\ H[files[tab[k]].node] > 0
    BY <1>1, FdNode DEF Opened
  <2>2. t.cache[files[tab[k]].node].inode = s.cache[files[tab[k]].node].inode
    BY <1>2, <2>1 DEF Good, HoldOk, PinsOf
  <2> QED BY <2>2 DEF Opened, NodesOk
<1> QED BY <1>1, <1>3, <1>4 DEF Opened

-----------------------------------------------------------------------------
(* A table that grew, and a place in it.                                    *)
Grows(tab, T) ==
    /\ TableTyped(T) /\ Len(tab) <= Len(T)
    /\ \A k \in 1..Len(T) : T[k] = IF k <= Len(tab) THEN tab[k] ELSE 0

LEMMA ZerosAre ==
  ASSUME NEW n \in Nat
  PROVE  [k \in 1..n |-> 0] \in Seq(Entries) /\ Len([k \in 1..n |-> 0]) = n
<1>1. [k \in 1..n |-> 0] \in [1..n -> Entries]
  BY DEF Entries
<1>2. [k \in 1..n |-> 0] \in Seq(Entries)
  BY <1>1, SeqDef
<1>3. DOMAIN [k \in 1..n |-> 0] = 1..n
  OBVIOUS
<1>4. PICK z : z = [k \in 1..n |-> 0]
  OBVIOUS
<1>5. Len(z) \in Nat /\ DOMAIN z = 1..Len(z) /\ DOMAIN z = 1..n
  BY <1>2, <1>3, <1>4, LenProperties
<1>6. Len(z) = n
  <2>1. PICK m \in Nat : m = Len(z)
    BY <1>5
  <2>2. 1..m = 1..n
    BY <1>5, <2>1
  <2>3. CASE m > n
    <3>1. m \in 1..m /\ m \notin 1..n
      BY <2>3
    <3> QED BY <2>2, <3>1
  <2>4. CASE n > m
    <3>1. n \in 1..n /\ n \notin 1..m
      BY <2>4
    <3> QED BY <2>2, <3>1
  <2> QED BY <2>1, <2>3, <2>4
<1> QED BY <1>2, <1>4, <1>6

(* fd_alloc finds a place, in a table that may grow, or one behind it.      *)
LEMMA AllocGrows ==
  ASSUME TableTyped(fdTable)
  PROVE  /\ Grows(fdTable, FdAlloc.table)
         /\ FdAlloc.fd > Len(FdAlloc.table) \/ (FdAlloc.fd \in 1..Len(FdAlloc.table) /\ FdAlloc.table[FdAlloc.fd] = 0)
<1> DEFINE free == {k \in 1..Len(fdTable) : fdTable[k] = 0}
           n == Len(fdTable)
<1>n. n \in 1..MAX_OPEN_FILES /\ n \in Nat /\ fdTable \in Seq(Entries) /\ MAX_OPEN_FILES \in Nat
  BY TableConsts DEF TableTyped
<1>1. CASE free # {}
  <2>1. Min(free) \in free
    BY <1>1, <1>n, MinPlace
  <2>2. FdAlloc = [fd |-> Min(free), table |-> fdTable]
    BY <1>1 DEF FdAlloc
  <2>3. PICK k : k = Min(free)
    OBVIOUS
  <2>4. k \in 1..Len(fdTable) /\ fdTable[k] = 0
    BY <2>1, <2>3
  <2> HIDE DEF free
  <2>5. Grows(fdTable, fdTable)
    BY <1>n DEF Grows
  <2> QED BY <2>2, <2>3, <2>4, <2>5
<1>2. CASE free = {}
  <2>1. FdAlloc = [fd |-> n + 1, table |-> fdTable \o [k \in 1..(Grown(n) - n) |-> 0]]
    BY <1>2 DEF FdAlloc
  <2>2. Grown(n) \in n..MAX_OPEN_FILES
    BY <1>n DEF Grown
  <2>3. PICK g \in Nat : g = Grown(n) - n
    BY <1>n, <2>2
  <2>4. PICK z : z = [k \in 1..g |-> 0]
    OBVIOUS
  <2>5. z \in Seq(Entries) /\ Len(z) = g /\ \A k \in 1..g : z[k] = 0
    BY <2>4, ZerosAre
  <2>6. PICK T : T = fdTable \o z
    OBVIOUS
  <2>7. /\ T \in Seq(Entries) /\ Len(T) = n + g
        /\ \A k \in 1..(n + g) : T[k] = IF k <= n THEN fdTable[k] ELSE z[k - n]
    BY <1>n, <2>5, <2>6, ConcatProperties
  <2>8. \A k \in 1..(n + g) : ~(k <= n) => k - n \in 1..g
    BY <1>n
  <2>9. n + g \in 1..MAX_OPEN_FILES /\ n <= n + g
    BY <1>n, <2>2, <2>3
  <2>10. Grows(fdTable, T)
    BY <2>5, <2>7, <2>8, <2>9 DEF Grows, TableTyped
  <2>11. n + 1 > Len(T) \/ (n + 1 \in 1..Len(T) /\ T[n + 1] = 0)
    BY <1>n, <2>5, <2>7, <2>8, <2>9
  <2>12. FdAlloc = [fd |-> n + 1, table |-> T]
    BY <2>1, <2>3, <2>4, <2>6
  <2> QED BY <2>10, <2>11, <2>12
<1> QED BY <1>1, <1>2

LEMMA GrownSame ==
  ASSUME NEW tab, TableTyped(tab), NEW T, Grows(tab, T)
  PROVE  FdsOf(T) = FdsOf(tab) /\ \A k \in FdsOf(tab) : T[k] = tab[k]
<1>1. Len(tab) \in Nat /\ Len(T) \in Nat /\ Len(tab) <= Len(T)
  BY TableConsts DEF TableTyped, Grows
<1>2. \A k \in 1..Len(tab) : k \in 1..Len(T) /\ k <= Len(tab)
  BY <1>1
<1>3. \A k \in 1..Len(T) : k <= Len(tab) => k \in 1..Len(tab)
  BY <1>1
<1> QED BY <1>2, <1>3 DEF Grows, FdsOf

LEMMA SameFds ==
  ASSUME NEW s, NEW tab, NEW files, Opened(s, tab, files), NEW T, Grows(tab, T)
  PROVE  Opened(s, T, files)
<1>1. FdsOf(T) = FdsOf(tab) /\ (\A k \in FdsOf(tab) : T[k] = tab[k]) /\ TableTyped(T)
  BY GrownSame DEF Opened, TableOk, Grows
<1>2. \A f : UsesOf(T, f) = UsesOf(tab, f)
  BY <1>1 DEF UsesOf
<1>3. \A n : OnNode(T, files, n) = OnNode(tab, files, n)
  BY <1>1 DEF OnNode
<1>4. HoldsOf(T, files) = HoldsOf(tab, files)
  BY <1>3 DEF HoldsOf
<1>5. TableOk(T, files)
  BY <1>1, <1>2 DEF Opened, TableOk
<1>6. NodesOk(s, T, files)
  BY <1>1 DEF Opened, NodesOk
<1> QED BY <1>4, <1>5, <1>6 DEF Opened

(* A descriptor more.                                                       *)
FdAdded(tab, U, k, f) ==
    /\ TableTyped(U) /\ FdsOf(U) = FdsOf(tab) \cup {k} /\ k \notin FdsOf(tab)
    /\ U[k] = f /\ \A j \in FdsOf(tab) : U[j] = tab[j]

LEMMA PlaceTaken ==
  ASSUME NEW tab, TableTyped(tab), NEW T, Grows(tab, T), NEW k \in 1..Len(T), T[k] = 0, NEW f \in FileIds
  PROVE  FdAdded(tab, [T EXCEPT ![k] = f], k, f)
<1>1. PICK U : U = [T EXCEPT ![k] = f]
  OBVIOUS
<1>2. T \in Seq(Entries) /\ f \in Entries /\ f # 0
  BY TableConsts DEF Grows, TableTyped, Entries
<1>3. U \in Seq(Entries) /\ Len(U) = Len(T) /\ \A j \in 1..Len(T) : U[j] = IF j = k THEN f ELSE T[j]
  BY <1>1, <1>2, ExceptSeq
<1>4. FdsOf(T) = FdsOf(tab) /\ \A j \in FdsOf(tab) : T[j] = tab[j]
  BY GrownSame
<1>5. k \notin FdsOf(T)
  BY DEF FdsOf
<1>6. FdsOf(U) = FdsOf(T) \cup {k}
  BY <1>2, <1>3 DEF FdsOf
<1>7. \A j \in FdsOf(T) : j \in 1..Len(T) /\ j # k
  BY <1>5 DEF FdsOf
<1>8. TableTyped(U)
  BY <1>3 DEF Grows, TableTyped
<1> QED BY <1>1, <1>3, <1>4, <1>5, <1>6, <1>7, <1>8 DEF FdAdded

LEMMA AddedCounts ==
  ASSUME NEW tab, TableTyped(tab), NEW U, NEW k, NEW f, FdAdded(tab, U, k, f), NEW files, NEW F,
         \A j \in FdsOf(tab) : F[tab[j]].node = files[tab[j]].node
  PROVE  /\ \A g : Cardinality(UsesOf(U, g)) = IF g = f THEN Cardinality(UsesOf(tab, g)) + 1
                                               ELSE Cardinality(UsesOf(tab, g))
         /\ F[f].node \in Nodes => HoldsOf(U, F) = Inc(HoldsOf(tab, files), F[f].node)
<1>0. /\ FdsOf(U) = FdsOf(tab) \cup {k} /\ k \notin FdsOf(tab)
      /\ U[k] = f /\ \A j \in FdsOf(tab) : U[j] = tab[j]
  BY DEF FdAdded
<1>1. \A g : UsesOf(U, g) = (IF g = f THEN UsesOf(tab, g) \cup {k} ELSE UsesOf(tab, g)) /\ k \notin UsesOf(tab, g)
  BY <1>0 DEF UsesOf
<1>2. \A n : /\ OnNode(U, F, n) = IF n = F[f].node THEN OnNode(tab, files, n) \cup {k} ELSE OnNode(tab, files, n)
             /\ k \notin OnNode(tab, files, n)
  BY <1>0 DEF OnNode
<1>3. ASSUME NEW g
      PROVE  Cardinality(UsesOf(U, g)) = IF g = f THEN Cardinality(UsesOf(tab, g)) + 1
                                         ELSE Cardinality(UsesOf(tab, g))
  <2>1. IsFiniteSet(UsesOf(tab, g)) /\ k \notin UsesOf(tab, g)
    BY <1>1, TableFacts
  <2>2. Cardinality(UsesOf(tab, g) \cup {k}) = Cardinality(UsesOf(tab, g)) + 1
    BY <2>1, FS_AddElement, Zenon
  <2> QED BY <1>1, <2>2
<1>4. ASSUME F[f].node \in Nodes
      PROVE  HoldsOf(U, F) = Inc(HoldsOf(tab, files), F[f].node)
  <2>1. PICK m, H : m = F[f].node /\ H = HoldsOf(tab, files)
    OBVIOUS
  <2>2. H \in Holds /\ \A n \in Nodes : H[n] = Cardinality(OnNode(tab, files, n))
    BY <2>1, HoldsAre
  <2>3. \A n \in Nodes : Cardinality(OnNode(U, F, n)) = IF n = m THEN H[n] + 1 ELSE H[n]
    <3> TAKE n \in Nodes
    <3>1. IsFiniteSet(OnNode(tab, files, n)) /\ k \notin OnNode(tab, files, n)
      BY <1>2, TableFacts
    <3>2. Cardinality(OnNode(tab, files, n) \cup {k}) = Cardinality(OnNode(tab, files, n)) + 1
      BY <3>1, FS_AddElement, Zenon
    <3> QED BY <1>2, <2>1, <2>2, <3>2
  <2>4. HoldsOf(U, F) = Inc(H, m)
    BY <1>4, <2>1, <2>2, <2>3 DEF HoldsOf, Holds, Inc
  <2> QED BY <2>1, <2>4
<1> QED BY <1>3, <1>4

(* The descriptors that were there lead where they led.                     *)
LEMMA Followed ==
  ASSUME NEW s, NEW tab, NEW files, Opened(s, tab, files), NEW t, NEW H, NEW G,
         Good(t, G, PinsOf(s, H)), NEW k \in FdsOf(tab), H[files[tab[k]].node] > 0
  PROVE  t.cache[files[tab[k]].node].inode = files[tab[k]].inode
<1>1. files[tab[k]].node \in Nodes
  BY FdNode DEF Opened
<1>2. t.cache[files[tab[k]].node].inode = s.cache[files[tab[k]].node].inode
  BY <1>1 DEF Good, HoldOk, PinsOf
<1> QED BY <1>2 DEF Opened, NodesOk

(* A descriptor more, and a reference more to the node it leads to.         *)
LEMMA AddedOpened ==
  ASSUME NEW s, NEW tab, NEW files, Opened(s, tab, files), NEW U, NEW k, NEW f \in FileIds,
         FdAdded(tab, U, k, f), NEW F \in [FileIds -> FileRec], NEW n \in Nodes, F[f].node = n,
         \A j \in FdsOf(tab) : F[tab[j]].node = files[tab[j]].node /\ F[tab[j]].inode = files[tab[j]].inode,
         NEW t, Good(t, Inc(HoldsOf(tab, files), n), PinsOf(s, HoldsOf(tab, files))),
         t.cache[n].inode = F[f].inode,
         \A g \in FileIds \ {f} : F[g] = files[g],
         F[f].dup_cnt = Cardinality(UsesOf(tab, f))
  PROVE  Opened(t, U, F)
<1>1. TableTyped(tab) /\ TableOk(tab, files)
  BY DEF Opened, TableOk
<1>2. HoldsOf(U, F) = Inc(HoldsOf(tab, files), n)
  BY <1>1, AddedCounts
<1>3. Good(t, HoldsOf(U, F), <<>>)
  BY <1>2, PinsFree
<1>4. TableOk(U, F)
  <2>1. ASSUME NEW g \in FileIds
        PROVE  Cardinality(UsesOf(U, g)) = IF F[g].node = 0 THEN 0 ELSE F[g].dup_cnt + 1
    <3>1. CASE g = f
      <4>1. F[g].node # 0
        BY <3>1 DEF Nodes
      <4>2. Cardinality(UsesOf(U, g)) = Cardinality(UsesOf(tab, g)) + 1
        BY <1>1, <3>1, AddedCounts
      <4> QED BY <3>1, <4>1, <4>2
    <3>2. CASE g # f
      <4>1. Cardinality(UsesOf(U, g)) = Cardinality(UsesOf(tab, g))
        BY <1>1, <3>2, AddedCounts
      <4>2. F[g] = files[g]
        BY <3>2
      <4> QED BY <1>1, <4>1, <4>2 DEF TableOk
    <3> QED BY <3>1, <3>2
  <2> QED BY <2>1 DEF TableOk, FdAdded
<1>5. NodesOk(t, U, F)
  <2> SUFFICES ASSUME NEW j \in FdsOf(U)
               PROVE  t.cache[F[U[j]].node].inode = F[U[j]].inode
    BY DEF NodesOk
  <2>1. CASE j = k
    BY <2>1 DEF FdAdded
  <2>2. CASE j # k
    <3>1. j \in FdsOf(tab) /\ U[j] = tab[j]
      BY <2>2 DEF FdAdded
    <3>2. HoldsOf(tab, files)[files[tab[j]].node] > 0
      BY <1>1, <3>1, FdNode
    <3>3. t.cache[files[tab[j]].node].inode = files[tab[j]].inode
      BY <3>1, <3>2, Followed
    <3> QED BY <3>1, <3>3
  <2> QED BY <2>1, <2>2
<1> QED BY <1>3, <1>4, <1>5 DEF Opened

(* sys_open takes a struct that is free.                                    *)
LEMMA OpenOpened ==
  ASSUME NEW s, NEW tab, NEW files, Opened(s, tab, files), NEW T, Grows(tab, T), NEW k \in 1..Len(T),
         T[k] = 0, NEW f \in FileIds, files[f].node = 0, NEW n \in Nodes, NEW t,
         Good(t, Inc(HoldsOf(tab, files), n), PinsOf(s, HoldsOf(tab, files)))
  PROVE  Opened(t, [T EXCEPT ![k] = f],
                [files EXCEPT ![f] = [node |-> n, inode |-> t.cache[n].inode, dup_cnt |-> 0]])
<1>1. PICK r, F, U, i : /\ i = t.cache[n].inode /\ r = [node |-> n, inode |-> i, dup_cnt |-> 0]
                        /\ F = [files EXCEPT ![f] = r] /\ U = [T EXCEPT ![k] = f]
  OBVIOUS
<1>2. TableOk(tab, files) /\ TableTyped(tab) /\ files \in [FileIds -> FileRec]
  BY DEF Opened, TableOk
<1>3. FdAdded(tab, U, k, f)
  BY <1>1, <1>2, PlaceTaken
<1>4. i \in Nat
  <2>1. HoldsOf(tab, files) \in Holds
    BY <1>2, HoldsAre
  <2>2. Holding(Inc(HoldsOf(tab, files), n), PinsOf(s, HoldsOf(tab, files))) /\ Inc(HoldsOf(tab, files), n)[n] > 0
    BY <2>1, PinsHold, IncHeld
  <2>3. i \in Inodes
    BY <1>1, <2>2, HeldNode DEF Holding
  <2> QED BY <2>3, Consts DEF Inodes
<1>5. r \in FileRec
  <2>1. n \in 0..MAX_CACHED_NODES
    BY Consts DEF Nodes
  <2> QED BY <1>1, <1>4, <2>1 DEF FileRec
<1>6. F \in [FileIds -> FileRec] /\ F[f] = r /\ \A g \in FileIds \ {f} : F[g] = files[g]
  BY <1>1, <1>2, <1>5
<1>7. \A j \in FdsOf(tab) : tab[j] \in FileIds \ {f}
  <2> TAKE j \in FdsOf(tab)
  <2>1. tab[j] \in FileIds /\ files[tab[j]].node \in Nodes
    BY <1>2, FdNode
  <2>2. 0 \notin Nodes
    BY DEF Nodes
  <2> QED BY <2>1, <2>2
<1>8. \A j \in FdsOf(tab) : F[tab[j]].node = files[tab[j]].node /\ F[tab[j]].inode = files[tab[j]].inode
  BY <1>6, <1>7
<1>9. Cardinality(UsesOf(tab, f)) = 0
  BY <1>2 DEF TableOk
<1>10. F[f].node = n /\ t.cache[n].inode = F[f].inode /\ F[f].dup_cnt = Cardinality(UsesOf(tab, f))
  BY <1>1, <1>6, <1>9
<1>11. Opened(t, U, F)
  BY <1>3, <1>6, <1>8, <1>10, AddedOpened
<1> QED BY <1>1, <1>11

(* sys_dup shares one.                                                      *)
LEMMA DupOpened ==
  ASSUME NEW s, NEW tab, NEW files, Opened(s, tab, files), NEW T, Grows(tab, T), NEW k \in 1..Len(T),
         T[k] = 0, NEW j \in FdsOf(tab), NEW n, n = files[tab[j]].node, NEW t,
         Good(t, Inc(HoldsOf(tab, files), n), PinsOf(s, HoldsOf(tab, files)))
  PROVE  Opened(t, [T EXCEPT ![k] = tab[j]], [files EXCEPT ![tab[j]].dup_cnt = @ + 1])
<1>1. PICK f, r, F, U : /\ f = tab[j] /\ r = [files[f] EXCEPT !.dup_cnt = files[f].dup_cnt + 1]
                        /\ F = [files EXCEPT ![f] = r] /\ U = [T EXCEPT ![k] = f]
  OBVIOUS
<1>2. TableOk(tab, files) /\ TableTyped(tab) /\ files \in [FileIds -> FileRec]
  BY DEF Opened, TableOk
<1>3. f \in FileIds /\ files[f] \in FileRec /\ n \in Nodes /\ HoldsOf(tab, files)[n] > 0
  BY <1>1, <1>2, FdNode
<1>4. FdAdded(tab, U, k, f)
  BY <1>1, <1>2, <1>3, PlaceTaken
<1>5. /\ r \in FileRec /\ r.node = files[f].node /\ r.inode = files[f].inode
      /\ r.dup_cnt = files[f].dup_cnt + 1
  BY <1>1, <1>3 DEF FileRec
<1>6. F \in [FileIds -> FileRec] /\ F[f] = r /\ \A g \in FileIds \ {f} : F[g] = files[g]
  BY <1>1, <1>2, <1>3, <1>5
<1>7. \A m \in FdsOf(tab) : F[tab[m]].node = files[tab[m]].node /\ F[tab[m]].inode = files[tab[m]].inode
  <2> TAKE m \in FdsOf(tab)
  <2>1. tab[m] \in FileIds
    BY <1>2, FdNode
  <2> QED BY <1>5, <1>6, <2>1
<1>8. F[f].node = n /\ files[f].node # 0
  <2>1. n # 0
    BY <1>3 DEF Nodes
  <2> QED BY <1>1, <1>5, <1>6, <2>1
<1>9. Cardinality(UsesOf(tab, f)) = files[f].dup_cnt + 1
  BY <1>2, <1>3, <1>8 DEF TableOk
<1>10. t.cache[n].inode = F[f].inode
  <2>1. t.cache[files[tab[j]].node].inode = files[tab[j]].inode
    BY <1>3, Followed
  <2> QED BY <1>1, <1>5, <1>6, <2>1
<1>11. F[f].dup_cnt = Cardinality(UsesOf(tab, f))
  BY <1>5, <1>6, <1>9
<1>12. Opened(t, U, F)
  BY <1>3, <1>4, <1>6, <1>7, <1>8, <1>10, <1>11, AddedOpened
<1>13. [files EXCEPT ![tab[j]].dup_cnt = @ + 1] = F
  BY <1>1
<1> QED BY <1>1, <1>12, <1>13

SameNodes(tab, files, F) == \A j \in FdsOf(tab) : F[tab[j]].node = files[tab[j]].node

LEMMA AddedHolds ==
  ASSUME NEW tab, TableTyped(tab), NEW U, NEW k, NEW f, FdAdded(tab, U, k, f), NEW files, NEW F,
         SameNodes(tab, files, F), F[f].node \in Nodes
  PROVE  HoldsOf(U, F) = Inc(HoldsOf(tab, files), F[f].node)
BY AddedCounts DEF SameNodes

(* A descriptor is closed: its file loses a user, or is freed with its last, and
   its node a reference.                                                    *)
LEMMA PlaceFreed ==
  ASSUME NEW tab, TableTyped(tab), NEW k \in FdsOf(tab)
  PROVE  FdAdded([tab EXCEPT ![k] = 0], tab, k, tab[k]) /\ TableTyped([tab EXCEPT ![k] = 0])
<1>1. PICK U : U = [tab EXCEPT ![k] = 0]
  OBVIOUS
<1>2. tab \in Seq(Entries) /\ k \in 1..Len(tab) /\ 0 \in Entries /\ tab[k] # 0
  BY DEF TableTyped, Entries, FdsOf
<1>3. U \in Seq(Entries) /\ Len(U) = Len(tab) /\ \A j \in 1..Len(tab) : U[j] = IF j = k THEN 0 ELSE tab[j]
  BY <1>1, <1>2, ExceptSeq
<1>4. TableTyped(U)
  BY <1>3 DEF TableTyped
<1>5. FdsOf(tab) = FdsOf(U) \cup {k} /\ k \notin FdsOf(U)
  BY <1>2, <1>3 DEF FdsOf
<1>6. \A j \in FdsOf(U) : tab[j] = U[j]
  BY <1>3, <1>5 DEF FdsOf
<1> QED BY <1>1, <1>4, <1>5, <1>6 DEF FdAdded

Closed(tab, files, k, U, F) ==
    U = [tab EXCEPT ![k] = 0] /\ F = [files EXCEPT ![tab[k]] = CloseStruct(files[tab[k]])]

LEMMA ClosedFiles ==
  ASSUME NEW tab, NEW files, TableOk(tab, files), NEW k \in FdsOf(tab), NEW U, NEW F, Closed(tab, files, k, U, F)
  PROVE  /\ TableOk(U, F) /\ HoldsOf(tab, files) = Inc(HoldsOf(U, F), files[tab[k]].node)
         /\ \A j \in FdsOf(U) : /\ j \in FdsOf(tab) /\ U[j] = tab[j]
                                /\ F[U[j]].node = files[tab[j]].node /\ F[U[j]].inode = files[tab[j]].inode
<1>0. PICK f : f = tab[k]
  OBVIOUS
<1>e. U = [tab EXCEPT ![k] = 0] /\ F = [files EXCEPT ![f] = CloseStruct(files[f])]
  BY <1>0 DEF Closed
<1>1. TableTyped(tab) /\ files \in [FileIds -> FileRec]
  BY DEF TableOk
<1>2. FdAdded(U, tab, k, f) /\ TableTyped(U)
  BY <1>0, <1>e, <1>1, PlaceFreed
<1>3. f \in FileIds /\ files[f] \in FileRec /\ files[f].node \in Nodes /\ files[f].dup_cnt \in Nat
  BY <1>0, <1>1, FdNode
<1>4. files[f].node # 0
  BY <1>3 DEF Nodes
<1>5. PICK c : c = files[f].dup_cnt
  OBVIOUS
<1>6. \A g : Cardinality(UsesOf(tab, g)) = IF g = f THEN Cardinality(UsesOf(U, g)) + 1
                                           ELSE Cardinality(UsesOf(U, g))
  BY <1>2, AddedCounts
<1>7. \A g : IsFiniteSet(UsesOf(U, g)) /\ Cardinality(UsesOf(U, g)) \in Nat
             /\ (Cardinality(UsesOf(U, g)) = 0 <=> UsesOf(U, g) = {})
  BY <1>2, TableFacts, FS_CardinalityType, FS_EmptySet
<1>8. Cardinality(UsesOf(U, f)) = c
  <2>1. Cardinality(UsesOf(tab, f)) = c + 1
    BY <1>3, <1>4, <1>5 DEF TableOk
  <2>2. Cardinality(UsesOf(tab, f)) = Cardinality(UsesOf(U, f)) + 1
    BY <1>6
  <2>3. Cardinality(UsesOf(U, f)) \in Nat /\ c \in Nat
    BY <1>3, <1>5, <1>7
  <2> QED BY <2>1, <2>2, <2>3
<1>9. PICK r : r = CloseStruct(files[f])
  OBVIOUS
<1>10. r = IF c = 0 THEN NoFile ELSE [files[f] EXCEPT !.dup_cnt = c - 1]
  BY <1>5, <1>9 DEF CloseStruct
<1>11. /\ r \in FileRec
       /\ c = 0 => r.node = 0
       /\ c # 0 => r.node = files[f].node /\ r.inode = files[f].inode /\ r.dup_cnt = c - 1
  <2>1. NoFile \in FileRec /\ NoFile.node = 0
    BY Consts DEF FileRec, NoFile
  <2>2. c # 0 => c - 1 \in Nat
    BY <1>3, <1>5
  <2>3. c # 0 => LET z == [files[f] EXCEPT !.dup_cnt = c - 1] IN
                 z \in FileRec /\ z.node = files[f].node /\ z.inode = files[f].inode /\ z.dup_cnt = c - 1
    BY <1>3, <2>2 DEF FileRec
  <2> QED BY <1>10, <2>1, <2>3
<1>12. F \in [FileIds -> FileRec] /\ F[f] = r /\ \A g \in FileIds \ {f} : F[g] = files[g]
  BY <1>e, <1>1, <1>3, <1>9, <1>11
<1>13. ASSUME NEW j \in FdsOf(U)
       PROVE  /\ j \in FdsOf(tab) /\ U[j] = tab[j]
              /\ F[U[j]].node = files[tab[j]].node /\ F[U[j]].inode = files[tab[j]].inode
  <2>1. j \in FdsOf(tab) /\ U[j] = tab[j]
    BY <1>2 DEF FdAdded
  <2>2. tab[j] \in FileIds
    BY <1>1, <2>1, TableFacts
  <2>3. CASE tab[j] = f
    <3>1. j \in UsesOf(U, f)
      BY <2>1, <2>3 DEF UsesOf
    <3>2. c # 0
      BY <1>7, <1>8, <3>1
    <3> QED BY <1>11, <1>12, <2>1, <2>3, <3>2
  <2>4. CASE tab[j] # f
    BY <1>12, <2>1, <2>2, <2>4
  <2> QED BY <2>1, <2>3, <2>4
<1>14. HoldsOf(tab, files) = Inc(HoldsOf(U, F), files[f].node)
  <2>1. SameNodes(U, F, files)
    BY <1>13 DEF SameNodes
  <2>2. FdAdded(U, tab, k, f)
    BY <1>2
  <2>3. TableTyped(U) /\ files[f].node \in Nodes
    BY <1>2, <1>3
  <2> QED BY <2>1, <2>2, <2>3, AddedHolds
<1>15. ASSUME NEW g \in FileIds
       PROVE  Cardinality(UsesOf(U, g)) = IF F[g].node = 0 THEN 0 ELSE F[g].dup_cnt + 1
  <2>1. CASE g = f
    BY <1>3, <1>4, <1>5, <1>8, <1>11, <1>12, <2>1
  <2>2. CASE g # f
    <3>1. F[g] = files[g] /\ Cardinality(UsesOf(U, g)) = Cardinality(UsesOf(tab, g))
      BY <1>6, <1>12, <2>2
    <3> QED BY <3>1 DEF TableOk
  <2> QED BY <2>1, <2>2
<1>16. TableOk(U, F)
  BY <1>2, <1>12, <1>15 DEF TableOk
<1> QED BY <1>0, <1>13, <1>14, <1>16

(* sys_close puts the node.                                                 *)
LEMMA CloseOpened ==
  ASSUME NEW s, NEW tab, NEW files, Opened(s, tab, files), NEW k \in FdsOf(tab), NEW U, NEW F,
         Closed(tab, files, k, U, F)
  PROVE  Opened(CofsPutNode(s, files[tab[k]].node), U, F)
<1>1. PICK n, t : n = files[tab[k]].node /\ t = CofsPutNode(s, n)
  OBVIOUS
<1>2. TableOk(tab, files) /\ TableTyped(tab)
  BY DEF Opened, TableOk
<1>3. /\ TableOk(U, F) /\ HoldsOf(tab, files) = Inc(HoldsOf(U, F), n)
      /\ \A j \in FdsOf(U) : /\ j \in FdsOf(tab) /\ U[j] = tab[j]
                             /\ F[U[j]].node = files[tab[j]].node /\ F[U[j]].inode = files[tab[j]].inode
  BY <1>1, <1>2, ClosedFiles
<1>4. PICK G : G = HoldsOf(U, F)
  OBVIOUS
<1>5. G \in Holds /\ n \in Nodes
  BY <1>1, <1>2, <1>3, <1>4, HoldsAre, FdNode DEF TableOk
<1>6. PICK pin : pin = PinsOf(s, G)
  OBVIOUS
<1>7. Holding(G, pin)
  BY <1>5, <1>6, PinsHold
<1>8. Good(s, Inc(G, n), <<>>)
  BY <1>3, <1>4 DEF Opened
<1>9. Good(s, Inc(G, n), pin)
  <2>1. HoldOk(s.cache, Inc(G, n), <<>>) => HoldOk(s.cache, Inc(G, n), pin)
    BY <1>6 DEF HoldOk, PinsOf
  <2> QED BY <1>8, <2>1 DEF Good
<1>10. Good(t, G, pin)
  BY <1>1, <1>5, <1>7, <1>9, PutGood
<1>11. Good(t, G, <<>>)
  BY <1>10, PinsFree
<1>12. NodesOk(t, U, F)
  <2> SUFFICES ASSUME NEW j \in FdsOf(U)
               PROVE  t.cache[F[U[j]].node].inode = F[U[j]].inode
    BY DEF NodesOk
  <2>1. F[U[j]].node \in Nodes /\ G[F[U[j]].node] > 0
    BY <1>3, <1>4, FdNode
  <2>2. t.cache[F[U[j]].node].inode = s.cache[F[U[j]].node].inode
    BY <1>6, <1>10, <2>1 DEF Good, HoldOk, PinsOf
  <2> QED BY <1>3, <2>2 DEF Opened, NodesOk
<1> QED BY <1>1, <1>3, <1>4, <1>11, <1>12 DEF Opened

(* There is a struct for every descriptor, and one more.                    *)
LEMMA FileFree ==
  ASSUME TableOk(fdTable, openFiles)
  PROVE  FreeFile \in FileIds /\ openFiles[FreeFile].node = 0
<1> DEFINE free == {f \in FileIds : openFiles[f].node = 0}
           used == [f \in FileIds |-> CHOOSE k \in FdsOf(fdTable) : fdTable[k] = f]
<1>1. TableTyped(fdTable) /\ MAX_OPEN_FILES \in Nat /\ FileIds = 1..(MAX_OPEN_FILES + 1)
  BY TableConsts DEF TableOk
<1>2. free # {}
  <2> SUFFICES ASSUME \A f \in FileIds : openFiles[f].node # 0
               PROVE  FALSE
    OBVIOUS
  <2>1. \A f \in FileIds : \E k \in FdsOf(fdTable) : fdTable[k] = f
    <3> TAKE f \in FileIds
    <3>1. openFiles[f] \in FileRec
      BY DEF TableOk
    <3>2. openFiles[f].dup_cnt \in Nat
      BY <3>1, RecFields
    <3>3. Cardinality(UsesOf(fdTable, f)) # 0 /\ IsFiniteSet(UsesOf(fdTable, f))
      BY <1>1, <3>2, TableFacts DEF TableOk
    <3>4. UsesOf(fdTable, f) # {}
      BY <3>3, FS_EmptySet
    <3> QED BY <3>4 DEF UsesOf
  <2>2. \A f \in FileIds : used[f] \in FdsOf(fdTable) /\ fdTable[used[f]] = f
    BY <2>1
  <2>3. FdsOf(fdTable) \in SUBSET (1..MAX_OPEN_FILES)
    BY <1>1, TableFacts
  <2>4. used \in [FileIds -> 1..MAX_OPEN_FILES]
    BY <2>2, <2>3
  <2> HIDE DEF used
  <2>5. IsFiniteSet(1..MAX_OPEN_FILES) /\ Cardinality(1..MAX_OPEN_FILES) = MAX_OPEN_FILES
    <3>1. 1 \in Int /\ MAX_OPEN_FILES \in Int
      BY <1>1
    <3>2. /\ IsFiniteSet(1..MAX_OPEN_FILES)
          /\ Cardinality(1..MAX_OPEN_FILES) = IF 1 > MAX_OPEN_FILES THEN 0 ELSE MAX_OPEN_FILES - 1 + 1
      BY <3>1, FS_Interval
    <3> QED BY <1>1, <3>2, TableConsts
  <2>6. IsFiniteSet(FileIds) /\ Cardinality(FileIds) = MAX_OPEN_FILES + 1
    <3>1. 1 \in Int /\ MAX_OPEN_FILES + 1 \in Int
      BY <1>1
    <3>2. PICK m \in Nat : m = MAX_OPEN_FILES + 1
      BY <1>1
    <3>3. IsFiniteSet(1..m) /\ Cardinality(1..m) = IF 1 > m THEN 0 ELSE m - 1 + 1
      BY <3>1, <3>2, FS_Interval
    <3> QED BY <1>1, <3>2, <3>3
  <2>7. Cardinality(1..MAX_OPEN_FILES) < Cardinality(FileIds)
    BY <1>1, <2>5, <2>6
  <2>8. \E x, y \in FileIds : x # y /\ used[x] = used[y]
    BY <2>4, <2>5, <2>6, <2>7, FS_PigeonHole, Zenon
  <2> QED BY <2>2, <2>8
<1>3. MAX_OPEN_FILES + 1 \in Nat /\ free \in SUBSET (1..(MAX_OPEN_FILES + 1))
  BY <1>1
<1> HIDE DEF free
<1>4. Min(free) \in free
  BY <1>2, <1>3, MinPlace
<1>5. FreeFile = Min(free)
  BY DEF FreeFile, free
<1> QED BY <1>4, <1>5 DEF free

-----------------------------------------------------------------------------
(* The inductive invariant: while the kernel runs, exactly the descriptors hold
   nodes; when it stopped, nothing is left.                                 *)
FilesInv ==
    /\ fileMode \in Modes
    /\ ~Stopped(cofs) => Opened(cofs, fdTable, openFiles)
    /\ Stopped(cofs) => /\ cofs = [CofsInit EXCEPT !.halt = cofs.halt] /\ cofs.halt \in Halts
                        /\ fdTable = <<>> /\ openFiles = [f \in FileIds |-> NoFile]

(* The disk and the cache that cofs_init leaves.                            *)
LEMMA InitParts ==
  /\ IsCofs(CofsInit) /\ CofsInit.halt = "no"
  /\ DiskOk(CofsInit.disk) /\ CacheOk(CofsInit.disk, CofsInit.cache)
  /\ Len(CofsInit.cache) = 1
<1> DEFINE disk == [i \in Inodes |-> IF i = ROOT THEN [FreeInode EXCEPT !.type = "dir", !.links = 1]
                                     ELSE FreeInode]
           r == [inode |-> ROOT, ref |-> 1, type |-> "dir", mask |-> 0, leak |-> 0]
<1>1. IsCofs(CofsInit) /\ CofsInit.halt = "no" /\ CofsInit.disk = disk /\ CofsInit.cache = <<r>>
  BY DEF CofsInit, IsCofs
<1>2. FreeInode \in DiskInode /\ [FreeInode EXCEPT !.type = "dir", !.links = 1] \in DiskInode
  <2>1. <<>> \in Seq(Entry)
    BY EmptySeq
  <2> QED BY <2>1 DEF FreeInode, DiskInode
<1>3. /\ disk \in Disks /\ disk[ROOT].type = "dir" /\ disk[ROOT].links = 1
      /\ \A i \in Inodes : disk[i].ents = <<>> /\ disk[i].links \in Nat
  BY <1>2, Consts DEF Disks, FreeInode
<1> HIDE DEF disk
<1>4. \A i : Refs(disk, i) = {}
  <2> TAKE i
  <2>1. \A p \in Refs(disk, i) : p[1] \in Inodes /\ p[2] \in 1..Len(disk[p[1]].ents)
    BY RefsAre
  <2> QED BY <1>3, <2>1
<1>5. DiskOk(disk)
  <2>1. IsFiniteSet({}) /\ Cardinality({}) = 0
    BY FS_EmptySet
  <2>2. \A i \in Inodes : Linked(disk, i)
    <3> TAKE i \in Inodes
    <3>1. PICK R : R = Refs(disk, i)
      OBVIOUS
    <3>2. R = {} /\ IsFiniteSet(R) /\ Cardinality(R) = 0
      BY <1>4, <2>1, <3>1
    <3>3. disk[i].links \in Nat
      BY <1>3
    <3> QED BY <3>1, <3>2, <3>3 DEF Linked
  <2>3. disk \in Disks /\ disk[ROOT].type = "dir" /\ disk[ROOT].links >= 1
    BY <1>3
  <2> QED BY <2>2, <2>3, Zenon DEF DiskOk
<1>6. CacheOk(disk, <<r>>)
  <2>1. r \in CofsNode /\ r.inode = ROOT /\ r.ref = 1 /\ r.type = "dir"
    BY Consts DEF CofsNode
  <2> HIDE DEF r
  <2>2. <<r>> \in Seq(CofsNode) /\ Len(<<r>>) = 1 /\ <<r>>[1] = r
    BY <2>1
  <2>3. 1 \in 1..MAX_CACHED_NODES
    BY Consts DEF Nodes
  <2>4. Typed(disk, r)
    BY <1>3, <2>1 DEF Typed
  <2> QED BY <2>1, <2>2, <2>3, <2>4 DEF CacheOk
<1> QED BY <1>1, <1>5, <1>6

LEMMA InitOpened ==
  Opened(CofsInit, [k \in 1..TASK_INITIAL_NUM_FILES |-> 0], [f \in FileIds |-> NoFile])
<1>1. PICK tab, files : tab = [k \in 1..TASK_INITIAL_NUM_FILES |-> 0] /\ files = [f \in FileIds |-> NoFile]
  OBVIOUS
<1>2. TASK_INITIAL_NUM_FILES \in Nat /\ TASK_INITIAL_NUM_FILES \in 1..MAX_OPEN_FILES
  BY TableConsts
<1>3. tab \in Seq(Entries) /\ Len(tab) = TASK_INITIAL_NUM_FILES
  BY <1>1, <1>2, ZerosAre
<1>4. TableTyped(tab)
  BY <1>2, <1>3 DEF TableTyped
<1>5. FdsOf(tab) = {}
  BY <1>1, <1>2, <1>3 DEF FdsOf
<1>6. (\A f : UsesOf(tab, f) = {}) /\ \A n : OnNode(tab, files, n) = {}
  BY <1>5 DEF UsesOf, OnNode
<1>7. Cardinality({}) = 0
  BY FS_EmptySet
<1>8. NoFile \in FileRec /\ NoFile.node = 0
  BY Consts DEF NoFile, FileRec
<1>9. TableOk(tab, files)
  BY <1>1, <1>4, <1>6, <1>7, <1>8 DEF TableOk
<1>10. NodesOk(CofsInit, tab, files)
  BY <1>5 DEF NodesOk
<1>11. \A n \in Nodes : HoldsOf(tab, files)[n] = 0
  BY <1>6, <1>7 DEF HoldsOf
<1>12. HoldOk(CofsInit.cache, HoldsOf(tab, files), <<>>)
  BY <1>11, InitParts DEF HoldOk
<1> QED BY <1>1, <1>9, <1>10, <1>12, InitParts DEF Opened, Good

LEMMA HaltSet ==
  ASSUME NEW h
  PROVE  LET t == [CofsInit EXCEPT !.halt = h] IN
         /\ t.halt = h /\ t = [CofsInit EXCEPT !.halt = t.halt]
         /\ t.disk = CofsInit.disk /\ t.cache = CofsInit.cache
BY DEF CofsInit

(* A call that returns such a state, or stops, keeps the invariant.         *)
LEMMA ReturnsInv ==
  ASSUME FilesInv, NEW s, NEW tab, NEW files, Returns(s, tab, files), IsCofs(s),
         ~Stopped(s) => Opened(s, tab, files)
  PROVE  FilesInv'
<1>1. fileMode' \in Modes
  BY DEF FilesInv, Returns
<1>2. CASE Stopped(s)
  <2>1. s.halt \in Halts
    BY <1>2 DEF IsCofs, Stopped
  <2>2. cofs' = [CofsInit EXCEPT !.halt = s.halt] /\ fdTable' = <<>> /\ openFiles' = [f \in FileIds |-> NoFile]
    BY <1>2 DEF Returns
  <2>3. cofs'.halt = s.halt /\ cofs' = [CofsInit EXCEPT !.halt = cofs'.halt]
    BY <2>2, HaltSet
  <2>4. cofs'.halt # "no"
    BY <1>2, <2>3 DEF Stopped
  <2> QED BY <1>1, <2>1, <2>2, <2>3, <2>4 DEF FilesInv, Stopped
<1>3. CASE ~Stopped(s)
  <2>1. cofs' = s /\ fdTable' = tab /\ openFiles' = files
    BY <1>3 DEF Returns
  <2>2. Opened(cofs', fdTable', openFiles')
    BY <1>3, <2>1
  <2>3. ~Stopped(cofs')
    BY <1>3, <2>1
  <2> QED BY <1>1, <2>2, <2>3 DEF FilesInv, Stopped, Opened, Good, TableOk, NodesOk, HoldsOf, OnNode, FdsOf, UsesOf, TableTyped
<1> QED BY <1>2, <1>3

(* What the descriptors hold when a call begins.                            *)
FdHolds == HoldsOf(fdTable, openFiles)
FdPins == PinsOf(cofs, FdHolds)

LEMMA CallBegins ==
  ASSUME FilesInv, Alive
  PROVE  /\ Opened(cofs, fdTable, openFiles) /\ TableTyped(fdTable) /\ TableOk(fdTable, openFiles)
         /\ FdHolds \in Holds /\ Holding(FdHolds, FdPins) /\ Good(cofs, FdHolds, FdPins)
         /\ fileMode \in Nat
<1>1. Opened(cofs, fdTable, openFiles)
  BY DEF FilesInv, Alive, Stopped
<1>2. TableTyped(fdTable) /\ TableOk(fdTable, openFiles)
  BY <1>1 DEF Opened, TableOk
<1>3. FdHolds \in Holds /\ Good(cofs, FdHolds, <<>>)
  BY <1>1, <1>2, HoldsAre DEF Opened, FdHolds
<1>4. Holding(FdHolds, FdPins) /\ Good(cofs, FdHolds, FdPins)
  BY <1>3, PinsHold DEF FdPins
<1>5. Modes \subseteq Nat
  BY FilesAssumption, Zenon
<1> QED BY <1>1, <1>2, <1>3, <1>4, <1>5 DEF FilesInv

(* A call on names.                                                         *)
LEMMA NamesCall ==
  ASSUME FilesInv, Alive, NEW s, ReturnsCofs(s), Done(s, FdHolds, FdPins)
  PROVE  FilesInv'
<1>1. Opened(cofs, fdTable, openFiles)
  BY CallBegins
<1>2. Done(s, HoldsOf(fdTable, openFiles), PinsOf(cofs, HoldsOf(fdTable, openFiles)))
  BY DEF FdHolds, FdPins
<1>3. ~Stopped(s) => Opened(s, fdTable, openFiles)
  BY <1>1, <1>2, CallOpened
<1>4. IsCofs(s)
  BY DEF Done
<1> QED BY <1>3, <1>4, ReturnsInv DEF ReturnsCofs

LEMMA UpdateStopped ==
  ASSUME NEW s, IsCofs(s), Stopped(s), NEW n
  PROVE  IsCofs(CofsUpdateNode(s, n)) /\ Stopped(CofsUpdateNode(s, n))
<1>1. PICK d : d = [s.disk EXCEPT ![s.cache[n].inode].type = s.cache[n].type, ![s.cache[n].inode].mask = s.cache[n].mask]
  OBVIOUS
<1>2. CofsUpdateNode(s, n) = [s EXCEPT !.disk = d]
  BY <1>1 DEF CofsUpdateNode, IsCofs
<1>3. DiskSet(s, CofsUpdateNode(s, n), d)
  BY <1>2, PartsSet
<1> QED BY <1>3 DEF DiskSet, Stopped

(* The name that sys_open opens or creates.                                 *)
LEMMA OpenFound ==
  ASSUME FilesInv, Alive, NEW path \in FilePaths, NEW creat \in BOOLEAN
  PROVE  Found(OpenOrCreat(FsNamei(cofs, path), path, creat), FdHolds, FdPins)
<1>1. PICK a : a = FsNamei(cofs, path)
  OBVIOUS
<1>2. Holding(FdHolds, FdPins) /\ Good(cofs, FdHolds, FdPins) /\ fileMode \in Nat
  BY CallBegins
<1>3. Walked(a, FdHolds, FdPins)
  BY <1>1, <1>2, PathParts, NameiWalked
<1>4. CASE a.n = 0 /\ creat /\ ~Stopped(a.s)
  <2>1. Good(a.s, FdHolds, FdPins)
    BY <1>3, <1>4 DEF Walked, Done
  <2>2. Found(FsCreat(a.s, path, fileMode), FdHolds, FdPins)
    BY <1>2, <2>1, FsCreatFound
  <2> QED BY <1>1, <1>4, <2>2 DEF OpenOrCreat
<1>5. CASE ~(a.n = 0 /\ creat /\ ~Stopped(a.s))
  <2>1. Found(a, FdHolds, FdPins)
    BY <1>3 DEF Walked, Found, Done, Good
  <2> QED BY <1>1, <1>5, <2>1 DEF OpenOrCreat
<1> QED BY <1>4, <1>5

LEMMA StopReturns ==
  ASSUME FilesInv, NEW s, IsCofs(s), NEW how \in Halts, NEW tab, NEW files, Returns(Stop(s, how), tab, files)
  PROVE  FilesInv'
<1>1. IsCofs(Stop(s, how)) /\ Stopped(Stop(s, how))
  BY StoppedStays
<1> QED BY <1>1, ReturnsInv

(* sys_open, with O_CREAT and O_TRUNC or without.                           *)
LEMMA OpenStep ==
  ASSUME FilesInv, NEW path \in FilePaths, NEW creat \in BOOLEAN, NEW trunc \in BOOLEAN,
         SysOpen(path, creat, trunc)
  PROVE  FilesInv'
<1>a. Alive
  BY DEF SysOpen
<1>1. PICK o, d : o = OpenOrCreat(FsNamei(cofs, path), path, creat) /\ d = FdAlloc
  OBVIOUS
<1>2. OpenedAt(o, d, trunc)
  BY <1>1 DEF SysOpen
<1>3. Found(o, FdHolds, FdPins)
  BY <1>a, <1>1, OpenFound
<1>4. IsCofs(o.s) /\ o.n \in {0} \cup Nodes
  BY <1>3 DEF Found
<1>5. /\ Opened(cofs, fdTable, openFiles) /\ TableTyped(fdTable) /\ TableOk(fdTable, openFiles)
      /\ Holding(FdHolds, FdPins)
  BY <1>a, CallBegins
<1>6. /\ Grows(fdTable, d.table)
      /\ d.fd > Len(d.table) \/ (d.fd \in 1..Len(d.table) /\ d.table[d.fd] = 0)
  BY <1>1, <1>5, AllocGrows
<1>p. "panic" \in Halts /\ "wild" \in Halts
  BY DEF Halts
<1>7. CASE o.n = 0 /\ trunc
  <2>1. Returns(Stop(o.s, "panic"), fdTable, openFiles)
    BY <1>2, <1>7 DEF OpenedAt
  <2> QED BY <1>4, <1>p, <2>1, StopReturns
<1>8. CASE ~(o.n = 0 /\ trunc) /\ d.fd > Len(d.table)
  <2>1. Returns(Stop(o.s, "wild"), fdTable, openFiles)
    BY <1>2, <1>8 DEF OpenedAt
  <2> QED BY <1>4, <1>p, <2>1, StopReturns
<1>9. CASE ~trunc /\ o.n = 0 /\ ~(d.fd > Len(d.table))
  <2>1. Returns(o.s, d.table, openFiles)
    BY <1>2, <1>9 DEF OpenedAt
  <2>2. Done(o.s, FdHolds, FdPins)
    BY <1>3, <1>9 DEF Found, Done
  <2>3. Done(o.s, HoldsOf(fdTable, openFiles), PinsOf(cofs, HoldsOf(fdTable, openFiles)))
    BY <2>2 DEF FdHolds, FdPins
  <2>4. ~Stopped(o.s) => Opened(o.s, fdTable, openFiles)
    BY <1>5, <2>3, CallOpened
  <2>5. ~Stopped(o.s) => Opened(o.s, d.table, openFiles)
    BY <1>6, <2>4, SameFds
  <2> QED BY <1>4, <2>1, <2>5, ReturnsInv
<1>10. CASE o.n # 0 /\ ~(d.fd > Len(d.table))
  <2>1. PICK n, x, f : n = o.n /\ x = (IF trunc THEN CofsUpdateNode(o.s, o.n) ELSE o.s) /\ f = FreeFile
    OBVIOUS
  <2>2. PICK U, F : /\ U = [d.table EXCEPT ![d.fd] = f]
                    /\ F = [openFiles EXCEPT ![f] = [node |-> n, inode |-> o.s.cache[n].inode, dup_cnt |-> 0]]
    OBVIOUS
  <2>3. Returns(x, U, F)
    BY <1>2, <1>10, <2>1, <2>2 DEF OpenedAt
  <2>4. n \in Nodes
    BY <1>4, <1>10, <2>1
  <2>5. CASE Stopped(o.s)
    <3>1. IsCofs(x) /\ Stopped(x)
      BY <1>4, <2>1, <2>5, UpdateStopped
    <3> QED BY <2>3, <3>1, ReturnsInv
  <2>6. CASE ~Stopped(o.s)
    <3>1. Good(o.s, Inc(FdHolds, n), FdPins)
      BY <1>3, <1>10, <2>1, <2>6 DEF Found
    <3>2. Holding(Inc(FdHolds, n), FdPins) /\ Inc(FdHolds, n)[n] > 0
      BY <1>5, <2>4, IncHeld
    <3>3. Good(x, Inc(FdHolds, n), FdPins) /\ x.cache = o.s.cache
      BY <2>1, <2>4, <3>1, <3>2, UpdateGood
    <3>4. Good(x, Inc(HoldsOf(fdTable, openFiles), n), PinsOf(cofs, HoldsOf(fdTable, openFiles)))
      BY <3>3 DEF FdHolds, FdPins
    <3>5. f \in FileIds /\ openFiles[f].node = 0
      BY <1>5, <2>1, FileFree
    <3>6. d.fd \in 1..Len(d.table) /\ d.table[d.fd] = 0
      BY <1>6, <1>10
    <3>7. Opened(x, [d.table EXCEPT ![d.fd] = f],
                 [openFiles EXCEPT ![f] = [node |-> n, inode |-> x.cache[n].inode, dup_cnt |-> 0]])
      BY <1>5, <1>6, <2>4, <3>4, <3>5, <3>6, OpenOpened, Zenon
    <3>8. Opened(x, U, F)
      BY <2>2, <3>3, <3>7
    <3>9. IsCofs(x)
      BY <3>3 DEF Good
    <3> QED BY <2>3, <3>8, <3>9, ReturnsInv
  <2> QED BY <2>5, <2>6
<1> QED BY <1>7, <1>8, <1>9, <1>10

(* A descriptor behind the table, and one of the table.                     *)
LEMMA BehindStep ==
  ASSUME FilesInv, Alive, Returns(Stop(cofs, "wild"), fdTable, openFiles)
  PROVE  FilesInv'
<1>1. IsCofs(cofs) /\ "wild" \in Halts
  BY CallBegins DEF Opened, Good, Halts
<1> QED BY <1>1, StopReturns

LEMMA ValidFdsAre ==
  ASSUME NEW fd \in ValidFds
  PROVE  /\ fd # Behind => fd \in Fds
         /\ Fds = FdsOf(fdTable)
BY DEF ValidFds, Fds, FdsOf

LEMMA CloseStep ==
  ASSUME FilesInv, NEW fd, SysClose(fd)
  PROVE  FilesInv'
<1>a. Alive /\ fd \in ValidFds
  BY DEF SysClose
<1>b. CASE fd = Behind
  BY <1>a, <1>b, BehindStep DEF SysClose
<1>c. CASE fd # Behind
  <2>1. Alive /\ fd \in Fds /\ Fds = FdsOf(fdTable)
    BY <1>a, <1>c, ValidFdsAre
  <2>2. Opened(cofs, fdTable, openFiles)
    BY <2>1, CallBegins
  <2>3. PICK U, F : /\ U = [fdTable EXCEPT ![fd] = 0]
                    /\ F = [openFiles EXCEPT ![fdTable[fd]] = CloseStruct(openFiles[fdTable[fd]])]
    OBVIOUS
  <2>4. Returns(CofsPutNode(cofs, openFiles[fdTable[fd]].node), U, F)
    BY <1>c, <2>3 DEF SysClose, FileAt
  <2>5. Closed(fdTable, openFiles, fd, U, F)
    BY <2>3 DEF Closed
  <2>6. Opened(CofsPutNode(cofs, openFiles[fdTable[fd]].node), U, F)
    BY <2>1, <2>2, <2>5, CloseOpened
  <2>7. IsCofs(CofsPutNode(cofs, openFiles[fdTable[fd]].node))
    BY <2>6 DEF Opened, Good
  <2> QED BY <2>4, <2>6, <2>7, ReturnsInv
<1> QED BY <1>b, <1>c

LEMMA DupStep ==
  ASSUME FilesInv, NEW fd, SysDup(fd)
  PROVE  FilesInv'
<1>a. Alive /\ fd \in ValidFds
  BY DEF SysDup
<1>b. CASE fd = Behind
  BY <1>a, <1>b, BehindStep DEF SysDup
<1>c. SUFFICES ASSUME fd # Behind PROVE FilesInv'
  BY <1>b
<1>1. Alive /\ fd \in Fds /\ Fds = FdsOf(fdTable)
  BY <1>a, <1>c, ValidFdsAre
<1>2. PICK d, n : d = FdAlloc /\ n = openFiles[fdTable[fd]].node
  OBVIOUS
<1>3. /\ Opened(cofs, fdTable, openFiles) /\ TableTyped(fdTable) /\ TableOk(fdTable, openFiles)
      /\ Holding(FdHolds, FdPins) /\ Good(cofs, FdHolds, FdPins)
  BY <1>1, CallBegins
<1>4. /\ Grows(fdTable, d.table)
      /\ d.fd > Len(d.table) \/ (d.fd \in 1..Len(d.table) /\ d.table[d.fd] = 0)
  BY <1>2, <1>3, AllocGrows
<1>5. CASE d.fd > Len(d.table)
  <2>1. Returns(Stop(cofs, "wild"), fdTable, openFiles)
    BY <1>2, <1>5, <1>c DEF SysDup
  <2>2. IsCofs(cofs) /\ "wild" \in Halts
    BY <1>3 DEF Good, Halts
  <2> QED BY <2>1, <2>2, StopReturns
<1>6. CASE ~(d.fd > Len(d.table))
  <2>1. PICK U, F, t : /\ U = [d.table EXCEPT ![d.fd] = fdTable[fd]]
                       /\ F = [openFiles EXCEPT ![fdTable[fd]].dup_cnt = openFiles[fdTable[fd]].dup_cnt + 1]
                       /\ t = [cofs EXCEPT !.cache[n].ref = cofs.cache[n].ref + 1]
    OBVIOUS
  <2>2. Returns(t, U, F)
    BY <1>2, <1>6, <1>c, <2>1 DEF SysDup, FsDup, FileAt
  <2>3. n \in Nodes /\ FdHolds[n] > 0
    BY <1>1, <1>2, <1>3, FdNode DEF FdHolds
  <2>4. Good(t, Inc(FdHolds, n), FdPins)
    BY <1>3, <2>1, <2>3, AddRef
  <2>5. Good(t, Inc(HoldsOf(fdTable, openFiles), n), PinsOf(cofs, HoldsOf(fdTable, openFiles)))
    BY <2>4 DEF FdHolds, FdPins
  <2>6. d.fd \in 1..Len(d.table) /\ d.table[d.fd] = 0
    BY <1>4, <1>6
  <2>7. Opened(t, [d.table EXCEPT ![d.fd] = fdTable[fd]],
               [openFiles EXCEPT ![fdTable[fd]].dup_cnt = openFiles[fdTable[fd]].dup_cnt + 1])
    BY <1>1, <1>2, <1>3, <1>4, <2>5, <2>6, DupOpened
  <2>8. Opened(t, U, F)
    BY <2>1, <2>7
  <2>9. IsCofs(t)
    BY <2>4 DEF Good
  <2> QED BY <2>2, <2>8, <2>9, ReturnsInv
<1> QED BY <1>5, <1>6

(* sys_chroot and sys_chmod, with a node of the path or without.            *)
LEMMA ChrootStep ==
  ASSUME FilesInv, NEW path \in FilePaths, SysChroot(path)
  PROVE  FilesInv'
<1>1. Alive
  BY DEF SysChroot
<1>2. PICK a, s : /\ a = FsOpen(cofs, path)
                  /\ s = IF a.n = 0 \/ Stopped(a.s) THEN a.s
                         ELSE IF IsDir(a.s, a.n) THEN Leak(a.s, a.n) ELSE CofsPutNode(a.s, a.n)
  OBVIOUS
<1>3. ReturnsCofs(s)
  BY <1>2 DEF SysChroot
<1>4. Holding(FdHolds, FdPins) /\ Good(cofs, FdHolds, FdPins)
  BY <1>1, CallBegins
<1>5. Walked(a, FdHolds, FdPins)
  BY <1>2, <1>4, PathParts, NameiWalked DEF FsOpen
<1>6. Done(s, FdHolds, FdPins)
  <2>1. CASE a.n = 0
    BY <1>2, <1>5, <2>1 DEF Walked
  <2>2. CASE a.n # 0
    <3>1. PICK n, b : n = a.n /\ b = a.s
      OBVIOUS
    <3>2. n \in Nodes /\ Good(b, Inc(FdHolds, n), FdPins)
      BY <1>5, <2>2, <3>1 DEF Walked
    <3>3. ~Stopped(b)
      BY <3>2, GoodDone
    <3>4. Good(Leak(b, n), FdHolds, FdPins) /\ Good(CofsPutNode(b, n), FdHolds, FdPins)
      BY <1>4, <3>2, LeakGood, PutGood
    <3>5. s = Leak(b, n) \/ s = CofsPutNode(b, n)
      BY <1>2, <2>2, <3>1, <3>3
    <3> QED BY <3>4, <3>5, GoodDone
  <2> QED BY <2>1, <2>2
<1> QED BY <1>1, <1>3, <1>6, NamesCall

LEMMA ChmodStep ==
  ASSUME FilesInv, NEW path \in FilePaths, SysChmod(path)
  PROVE  FilesInv'
<1>1. Alive
  BY DEF SysChmod
<1>2. PICK a, s : /\ a = FsOpen(cofs, path)
                  /\ s = IF a.n = 0 \/ Stopped(a.s) THEN a.s
                         ELSE CofsPutNode([a.s EXCEPT !.cache[a.n].mask = fileMode], a.n)
  OBVIOUS
<1>3. ReturnsCofs(s)
  BY <1>2 DEF SysChmod
<1>4. Holding(FdHolds, FdPins) /\ Good(cofs, FdHolds, FdPins) /\ fileMode \in Nat
  BY <1>1, CallBegins
<1>5. Walked(a, FdHolds, FdPins)
  BY <1>2, <1>4, PathParts, NameiWalked DEF FsOpen
<1>6. Done(s, FdHolds, FdPins)
  <2>1. CASE a.n = 0
    BY <1>2, <1>5, <2>1 DEF Walked
  <2>2. CASE a.n # 0
    <3>1. PICK n, b, t : n = a.n /\ b = a.s /\ t = [b EXCEPT !.cache[n].mask = fileMode]
      OBVIOUS
    <3>2. n \in Nodes /\ Good(b, Inc(FdHolds, n), FdPins)
      BY <1>5, <2>2, <3>1 DEF Walked
    <3>3. ~Stopped(b)
      BY <3>2, GoodDone
    <3>4. Holding(Inc(FdHolds, n), FdPins) /\ Inc(FdHolds, n)[n] > 0
      BY <1>4, <3>2, IncHeld
    <3>5. Good(t, Inc(FdHolds, n), FdPins)
      BY <1>4, <3>1, <3>2, <3>4, MaskGood
    <3>6. Good(CofsPutNode(t, n), FdHolds, FdPins)
      BY <1>4, <3>2, <3>5, PutGood
    <3>7. s = CofsPutNode(t, n)
      BY <1>2, <2>2, <3>1, <3>3
    <3> QED BY <3>6, <3>7, GoodDone
  <2> QED BY <2>1, <2>2
<1> QED BY <1>1, <1>3, <1>6, NamesCall

(* Calls on names, one by one.                                              *)
LEMMA NameSteps ==
  ASSUME FilesInv, NEW path \in FilePaths
  PROVE  /\ SysStat(path) \/ SysChdir(path) => FilesInv'
         /\ SysUnlink(path) => FilesInv'
         /\ \A cwd \in FileCwds : SysMkdir(path, cwd) => FilesInv'
         /\ \A new \in FilePaths : SysLink(path, new) \/ SysRename(path, new) => FilesInv'
<1>a. Alive => Holding(FdHolds, FdPins) /\ Good(cofs, FdHolds, FdPins) /\ fileMode \in Nat
  BY CallBegins
<1>1. ASSUME SysStat(path) \/ SysChdir(path) PROVE FilesInv'
  <2>1. Alive /\ ReturnsCofs(Visited(cofs, path))
    BY <1>1 DEF SysStat, SysChdir
  <2>2. Done(Visited(cofs, path), FdHolds, FdPins)
    BY <1>a, <2>1, VisitedDone
  <2> QED BY <2>1, <2>2, NamesCall
<1>2. ASSUME SysUnlink(path) PROVE FilesInv'
  <2>1. PICK a, s : /\ a = FsOpen(cofs, path)
                    /\ s = IF a.n = 0 THEN a.s ELSE FsUnlink(CofsPutNode(a.s, a.n), path)
    OBVIOUS
  <2>2. Alive /\ ReturnsCofs(s)
    BY <1>2, <2>1 DEF SysUnlink
  <2>3. Done(s, FdHolds, FdPins)
    BY <1>a, <2>1, <2>2, SysUnlinkDone
  <2> QED BY <2>2, <2>3, NamesCall
<1>3. ASSUME NEW cwd \in FileCwds, SysMkdir(path, cwd) PROVE FilesInv'
  <2>1. Alive /\ path # <<>> /\ ReturnsCofs(MkdirResult(cofs, path, cwd, fileMode))
    BY <1>3 DEF SysMkdir
  <2>2. FileCwds \subseteq FilePaths
    BY FilesAssumption, Zenon
  <2>3. Done(MkdirResult(cofs, path, cwd, fileMode), FdHolds, FdPins)
    BY <1>a, <2>1, <2>2, MkdirDone
  <2> QED BY <2>1, <2>3, NamesCall
<1>4. ASSUME NEW new \in FilePaths, SysLink(path, new) PROVE FilesInv'
  <2>1. PICK r : r = LinkResult(cofs, path, new)
    OBVIOUS
  <2>2. Alive /\ path # <<>> /\ (ReturnsCofs(r.s) \/ ReturnsCofs(Stop(cofs, "wild")))
    BY <1>4, <2>1 DEF SysLink
  <2>3. Done(r.s, FdHolds, FdPins)
    BY <1>a, <2>1, <2>2, LinkResultDone
  <2>4. Done(Stop(cofs, "wild"), FdHolds, FdPins)
    <3>1. Done(cofs, FdHolds, FdPins) /\ "wild" \in Halts
      BY <1>a, <2>2, GoodDone DEF Halts
    <3> QED BY <3>1, StopDone
  <2> QED BY <2>2, <2>3, <2>4, NamesCall
<1>5. ASSUME NEW new \in FilePaths, SysRename(path, new) PROVE FilesInv'
  <2>1. Alive /\ path # <<>> /\ new # <<>> /\ ReturnsCofs(RenameResult(cofs, path, new))
    BY <1>5 DEF SysRename
  <2>2. Done(RenameResult(cofs, path, new), FdHolds, FdPins)
    BY <1>a, <2>1, RenameResultDone
  <2> QED BY <2>1, <2>2, NamesCall
<1> QED BY <1>1, <1>2, <1>3, <1>4, <1>5

(* No call breaks the invariant.                                            *)
LEMMA FilesStep == FilesInv /\ [FilesNext]_fileVars => FilesInv'
<1> SUFFICES ASSUME FilesInv, [FilesNext]_fileVars PROVE FilesInv'
  OBVIOUS
<1>1. CASE UNCHANGED fileVars
  BY <1>1 DEF FilesInv, fileVars, Stopped, Opened, Good, TableOk, NodesOk, HoldsOf, OnNode, FdsOf, UsesOf, TableTyped
<1>2. CASE \E path \in FilePaths : \E creat, trunc \in BOOLEAN : SysOpen(path, creat, trunc)
  BY <1>2, OpenStep
<1>3. CASE \E path \in FilePaths : SysChroot(path)
  BY <1>3, ChrootStep
<1>4. CASE \E path \in FilePaths : SysChmod(path)
  BY <1>4, ChmodStep
<1>5. CASE \E path \in FilePaths : \/ SysStat(path) \/ SysChdir(path) \/ SysUnlink(path)
                                   \/ \E cwd \in FileCwds : SysMkdir(path, cwd)
                                   \/ \E new \in FilePaths : SysLink(path, new) \/ SysRename(path, new)
  BY <1>5, NameSteps
<1>6. CASE \E fd \in ValidFds : SysClose(fd)
  BY <1>6, CloseStep
<1>7. CASE \E fd \in ValidFds : SysDup(fd)
  BY <1>7, DupStep
<1> QED BY <1>1, <1>2, <1>3, <1>4, <1>5, <1>6, <1>7, Zenon DEF FilesNext

(* What the invariant says.                                                 *)
LEMMA FilesPartsRight ==
  ASSUME NEW s, IsCofs(s), DiskOk(s.disk), CacheOk(s.disk, s.cache)
  PROVE  /\ \A i \in Inodes :
                /\ s.disk[i].type \in {"none", "file", "dir"} /\ s.disk[i].links \in Nat
                /\ \A k \in 1..Len(s.disk[i].ents) : s.disk[i].ents[k].inode \in {0} \cup Inodes
         /\ s.cache \in Seq(CofsNode) /\ Len(s.cache) <= MAX_CACHED_NODES
         /\ s.halt \in {"no", "panic", "hang", "wild"}
         /\ \A i \in Inodes : Cardinality({n \in 1..Len(s.cache) : s.cache[n].inode = i}) <= 1
<1>1. ASSUME NEW i \in Inodes
      PROVE  /\ s.disk[i].type \in {"none", "file", "dir"} /\ s.disk[i].links \in Nat
             /\ \A k \in 1..Len(s.disk[i].ents) : s.disk[i].ents[k].inode \in {0} \cup Inodes
             /\ Cardinality({n \in 1..Len(s.cache) : s.cache[n].inode = i}) <= 1
  <2>1. /\ s.disk[i].type \in {"none", "file", "dir"} /\ s.disk[i].links \in Nat
        /\ s.disk[i].ents \in Seq(Entry)
    BY LinksTyped DEF DiskOk
  <2>2. \A k \in 1..Len(s.disk[i].ents) : s.disk[i].ents[k] \in Entry
    BY <2>1, ElementOfSeq
  <2>3. \A k \in 1..Len(s.disk[i].ents) : s.disk[i].ents[k].inode \in {0} \cup Inodes
    BY <2>2, EntryTyped
  <2>4. PICK T : T = {n \in 1..Len(s.cache) : s.cache[n].inode = i}
    OBVIOUS
  <2>5. \A x, y \in T : x = y
    BY <2>4 DEF CacheOk
  <2>6. Cardinality(T) <= 1
    BY <2>5, AtMostOne
  <2> QED BY <2>1, <2>3, <2>4, <2>6
<1>2. s.cache \in Seq(CofsNode) /\ Len(s.cache) <= MAX_CACHED_NODES
  BY Consts DEF CacheOk
<1>3. s.halt \in {"no", "panic", "hang", "wild"}
  BY DEF IsCofs, Halts
<1> QED BY <1>1, <1>2, <1>3

LEMMA FilesInvRight == FilesInv => ReferencesSafety
<1> SUFFICES ASSUME FilesInv PROVE ReferencesSafety
  OBVIOUS
<1>m. fileMode \in Modes
  BY DEF FilesInv
<1>1. CASE Stopped(cofs)
  <2>1. /\ cofs.disk = CofsInit.disk /\ cofs.cache = CofsInit.cache /\ cofs.halt \in Halts
        /\ fdTable = <<>> /\ openFiles = [f \in FileIds |-> NoFile]
    <3>1. PICK h : cofs = [CofsInit EXCEPT !.halt = h]
      BY <1>1 DEF FilesInv
    <3>2. cofs.disk = CofsInit.disk /\ cofs.cache = CofsInit.cache
      BY <3>1, HaltSet
    <3> QED BY <1>1, <3>2 DEF FilesInv
  <2>2. IsCofs(cofs)
    <3>1. PICK h : cofs = [CofsInit EXCEPT !.halt = h]
      BY <1>1 DEF FilesInv
    <3> QED BY <2>1, <3>1 DEF IsCofs, CofsInit
  <2>3. DiskOk(cofs.disk) /\ CacheOk(cofs.disk, cofs.cache)
    BY <2>1, InitParts
  <2>4. Len(<<>>) = 0 /\ Range(<<>>) = {}
    BY DEF Range
  <2>5. \A f \in FileIds : openFiles[f].dup_cnt \in Nat
    BY <2>1 DEF NoFile
  <2>6. 0 <= MAX_OPEN_FILES
    BY TableConsts
  <2>7. FilesTypeOK
    <3>1. Len(fdTable) <= MAX_OPEN_FILES /\ Range(fdTable) \subseteq {0} \cup FileIds
      BY <2>1, <2>4, <2>6
    <3> QED BY <1>m, <2>2, <2>3, <2>5, <3>1, FilesPartsRight DEF FilesTypeOK
  <2>8. ~Alive
    BY <1>1 DEF Alive, Stopped
  <2> QED BY <2>7, <2>8 DEF ReferencesSafety, FileRefsExact, FileNodesRight, FileStructsRight
<1>2. CASE ~Stopped(cofs)
  <2>1. PICK H : H = FdHolds
    OBVIOUS
  <2>2. /\ Opened(cofs, fdTable, openFiles) /\ TableTyped(fdTable) /\ TableOk(fdTable, openFiles)
        /\ H \in Holds /\ Good(cofs, H, FdPins)
    BY <1>2, <2>1, CallBegins DEF Alive, Stopped
  <2>3. IsCofs(cofs) /\ DiskOk(cofs.disk) /\ CacheOk(cofs.disk, cofs.cache) /\ HoldOk(cofs.cache, H, FdPins)
    BY <2>2 DEF Good
  <2>4. Fds = FdsOf(fdTable)
    BY DEF Fds, FdsOf
  <2>5. FilesTypeOK
    <3>1. \A f \in FileIds : openFiles[f].dup_cnt \in Nat
      <4> TAKE f \in FileIds
      <4>1. openFiles[f] \in FileRec
        BY <2>2 DEF TableOk
      <4> QED BY <4>1, RecFields
    <3>2. Len(fdTable) <= MAX_OPEN_FILES /\ fdTable \in Seq(Entries)
      BY <2>2, TableConsts DEF TableTyped
    <3>3. Range(fdTable) \subseteq {0} \cup FileIds
      <4>1. \A k \in DOMAIN fdTable : fdTable[k] \in Entries
        BY <3>2
      <4> QED BY <4>1 DEF Range, Entries
    <3> QED BY <1>m, <2>3, <3>1, <3>2, <3>3, FilesPartsRight DEF FilesTypeOK
  <2>6. \A n : FdsOn(n) = OnNode(fdTable, openFiles, n)
    BY <2>4 DEF FdsOn, OnNode, FileAt
  <2>7. FileRefsExact
    <3> SUFFICES ASSUME NEW n \in 2..Len(cofs.cache)
                 PROVE  cofs.cache[n].ref = Cardinality(FdsOn(n)) + cofs.cache[n].leak
      BY DEF FileRefsExact
    <3>1. Len(cofs.cache) \in 1..MAX_CACHED_NODES /\ MAX_CACHED_NODES \in Nat
      BY <2>3, Consts DEF CacheOk
    <3>2. n \in Nodes
      BY <3>1 DEF Nodes
    <3>3. H[n] = Cardinality(FdsOn(n))
      BY <2>1, <2>2, <2>6, <3>2, HoldsAre DEF FdHolds
    <3> QED BY <2>3, <3>3 DEF HoldOk
  <2>8. ASSUME NEW fd \in Fds
        PROVE  LET f == FileAt(fd) IN
               /\ cofs.cache[f.node].inode = f.inode
               /\ cofs.disk[f.inode].type # "none"
               /\ cofs.cache[f.node].type = cofs.disk[f.inode].type
    <3>1. PICK f, n : f = openFiles[fdTable[fd]] /\ n = f.node
      OBVIOUS
    <3>2. n \in Nodes /\ H[n] > 0
      BY <2>1, <2>2, <2>4, <3>1, FdNode DEF FdHolds
    <3>3. cofs.cache[n].inode = f.inode
      BY <2>2, <2>4, <3>1 DEF Opened, NodesOk
    <3>4. cofs.cache[n].type # "none" /\ cofs.cache[n].type = cofs.disk[cofs.cache[n].inode].type
      BY <2>2, <3>2, HeldNode
    <3> QED BY <3>1, <3>3, <3>4 DEF FileAt
  <2>9. FileNodesRight
    <3>1. \A i \in Inodes : Cardinality(NodesOf(i)) <= 1
      BY <2>3, FilesPartsRight DEF NodesOf
    <3> QED BY <2>8, <3>1 DEF FileNodesRight
  <2>10. FileStructsRight
    <3>1. \A f : {fd \in Fds : fdTable[fd] = f} = UsesOf(fdTable, f)
      BY <2>4 DEF UsesOf
    <3> QED BY <2>2, <3>1 DEF FileStructsRight, TableOk
  <2> QED BY <2>5, <2>7, <2>9, <2>10 DEF ReferencesSafety
<1> QED BY <1>1, <1>2

(* From every state that calls reach by whatever paths, names and descriptors: a
   node has one reference for each descriptor that uses it and each one that was
   not given back, a descriptor leads to the inode that was opened, whose type
   it still has, no inode has two nodes, and a struct file lives exactly as long
   as descriptors refer to it (sysfile.c, vfs.c and cofs.c); until a call stops the
   kernel, as one with the descriptor behind the table may (sysfile.c:95).  *)
THEOREM ReferencesAlwaysCounted == FilesSpec => []ReferencesSafety
<1>1. FilesInit => FilesInv
  <2> SUFFICES ASSUME FilesInit PROVE FilesInv
    OBVIOUS
  <2>1. Opened(cofs, fdTable, openFiles) /\ fileMode \in Modes
    BY InitOpened DEF FilesInit
  <2>2. ~Stopped(cofs)
    BY <2>1 DEF Opened, Good, Stopped
  <2> QED BY <2>1, <2>2 DEF FilesInv
<1>2. FilesInv /\ [FilesNext]_fileVars => FilesInv'
  BY FilesStep
<1>3. FilesInv => ReferencesSafety
  BY FilesInvRight
<1> QED BY <1>1, <1>2, <1>3, PTL DEF FilesSpec
=============================================================================
