---------------------------- MODULE FileOffsets ----------------------------
(***************************************************************************)
(* Where programs read and write a file (sysfile.c): offsets of the struct *)
(* files that are open on one file of cofs, and its size.  Descriptors got *)
(* by dup share a struct and so its offset; a file that is opened twice,   *)
(* or inherited by fork, has two.  Offsets and counts are unsigned words.  *)
(***************************************************************************)
EXTENDS Naturals

CONSTANTS
    OpenStructs,        \* struct files
    Word,               \* 2^32
    BlockBytes,         \* BLOCK_SIZE
    MaxFileBytes,       \* MAX_FILE_SIZE * BLOCK_SIZE, as the macro without parentheses gives it
    MappedBytes,        \* bytes in the blocks that block_map knows
    Counts              \* arguments of read, write, lseek and ftruncate

ASSUME FileOffsetsAssumption ==
    /\ Word \in Nat /\ BlockBytes \in Nat \ {0} /\ MaxFileBytes \in 1..MappedBytes
    /\ MappedBytes \in 1..(Word - 1)
    /\ Counts \subseteq 0..(Word - 1)

VARIABLES
    offs,       \* file->offs
    size,       \* node->size
    behind,     \* structs whose offset is behind the end because the file was cut
                \* since, or SEEK_END took it there
    offsHalt    \* an assertion of cofs_truncate failed, or a call came to a block
                \* that block_map does not know, and did not return

offsVars == <<offs, size, behind, offsHalt>>

Add(a, b) == (a + b) % Word

OffsetsInit ==
    /\ offs = [f \in OpenStructs |-> 0]
    /\ size = 0
    /\ behind = {}
    /\ offsHalt = FALSE

(* A new open of the file, by sys_open: at the end with O_APPEND.           *)
OpenAt(f, append) ==
    /\ ~offsHalt
    /\ offs' = [offs EXCEPT ![f] = IF append THEN size ELSE 0]
    /\ behind' = behind \ {f}
    /\ UNCHANGED <<size, offsHalt>>

(* The loops of cofs_read and cofs_write go from block to block, to a panic in
   block_map when they come to one that a file cannot have, if the disk has room
   for it and the program memory.                                           *)
LeavesFile(at, n) == at + n > MappedBytes

OffsetsStop == offsHalt' = TRUE /\ UNCHANGED <<offs, size, behind>>

(* cofs_read: up to the end, if the sum does not wrap.                      *)
ReadBytes(at, count) ==
    IF at >= size THEN 0 ELSE IF Add(at, count) > size THEN size - at ELSE count

(* sys_read.                                                                *)
SysReadAt(f, count) ==
    /\ ~offsHalt
    /\ LET n == ReadBytes(offs[f], count) IN
       IF n > 0 /\ LeavesFile(offs[f], n) THEN OffsetsStop
       ELSE /\ offs' = [offs EXCEPT ![f] = IF n = 0 THEN @ ELSE Add(@, n)]
            /\ UNCHANGED <<size, behind, offsHalt>>

(* cofs_write: nothing behind the end or past the largest file, if the sum does
   not wrap.                                                                *)
WriteBytes(at, count) ==
    IF at > size \/ Add(at, count) > MaxFileBytes THEN 0 ELSE count

SysWriteAt(f, count) ==
    /\ ~offsHalt
    /\ LET n == WriteBytes(offs[f], count) IN
       IF n > 0 /\ LeavesFile(offs[f], n) THEN OffsetsStop
       ELSE /\ offs' = [offs EXCEPT ![f] = Add(@, n)]
            /\ size' = IF n > 0 /\ Add(offs[f], n) > size THEN Add(offs[f], n) ELSE size
            /\ behind' = {g \in behind : offs'[g] > size'}
            /\ UNCHANGED offsHalt

(* Faulty variant: the sum is not looked at.                                *)
SeekCurAny(at, offset) == Add(at, offset)

(* SEEK_CUR: an offset back is a large word.                                *)
SeekCur(at, offset) == IF Add(offset, at) > size THEN at ELSE Add(at, offset)

(* sys_lseek.  SEEK_END counts from the beginning, and without a limit.     *)
SysLseek(f, offset, whence) ==
    /\ ~offsHalt
    /\ offs' = [offs EXCEPT ![f] =
                   IF whence = "SEEK_SET" THEN (IF offset > size THEN @ ELSE offset)
                   ELSE IF whence = "SEEK_CUR" THEN SeekCur(@, offset)
                   ELSE offset]
    /\ behind' = IF offs'[f] <= size THEN behind \ {f}
                 ELSE IF whence = "SEEK_END" THEN behind \cup {f} ELSE behind
    /\ UNCHANGED <<size, offsHalt>>

(* sys_ftruncate and cofs_truncate: only to whole blocks, and only shorter. *)
SysFtruncate(len) ==
    /\ ~offsHalt
    /\ IF len > size \/ len % BlockBytes # 0
       THEN offsHalt' = TRUE /\ UNCHANGED <<offs, size, behind>>
       ELSE /\ size' = len
            /\ behind' = behind \cup {f \in OpenStructs : offs[f] > len}
            /\ UNCHANGED <<offs, offsHalt>>

OffsetsNext ==
    \/ \E f \in OpenStructs :
           \/ \E append \in BOOLEAN : OpenAt(f, append)
           \/ \E n \in Counts :
                  \/ SysReadAt(f, n) \/ SysWriteAt(f, n)
                  \/ \E whence \in {"SEEK_SET", "SEEK_CUR", "SEEK_END"} : SysLseek(f, n, whence)
    \/ \E n \in Counts : SysFtruncate(n)

OffsetsSpec == OffsetsInit /\ [][OffsetsNext]_offsVars

-----------------------------------------------------------------------------
(* No read, write or seek that returns, through whichever struct, takes an offset
   behind the end of the file, where cofs_write would refuse to extend it, or makes
   it larger than the largest; only a cut by another user of the file does the
   first, and SEEK_END.  Counts that wrap the sums pass their tests (cofs.c:473
   and 499): such a call never returns.                                     *)
OffsetsRight ==
    /\ size <= MaxFileBytes
    /\ \A f \in OpenStructs : offs[f] <= size \/ f \in behind

=============================================================================
