-------------------------------- MODULE Lists --------------------------------
(***************************************************************************)
(* The kernel's doubly linked lists (list.c) and bitmaps (bmap.c).         *)
(*                                                                         *)
(* A list is compared with the sequence of items that its callers mean, a  *)
(* bitmap with the numbers that they hold.  A list takes no lock: its      *)
(* callers do.                                                             *)
(***************************************************************************)
EXTENDS Naturals, Integers, Sequences, FiniteSets, SequencesExt, FiniteSetsExt

CONSTANTS
    ListNodes,  \* the nodes that malloc can give
    WordBits,   \* bits of a word of a bitmap (32)
    BmapSize    \* bits of the bitmap

ASSUME ListsAssumption ==
    0 \notin ListNodes /\ WordBits \in Nat \ {0} /\ BmapSize \in Nat

VARIABLES
    listHead, listTail, listNum,    \* list_t
    listNext, listPrev,             \* the links of the nodes
    listMeant,                      \* the nodes, as the callers mean them
    bmapBits, bmapLast, bmapHeld,   \* the bits that are set, the last one used, the numbers that were given
    bmapFailed                      \* did the last bmap_get_free find none?

lkVars == <<listHead, listTail, listNum, listNext, listPrev, listMeant>>
bmapVars == <<bmapBits, bmapLast, bmapHeld, bmapFailed>>
listVars == <<lkVars, bmapVars>>

Null == 0

(* list_open and bmap_alloc.                                                *)
ListsInit ==
    /\ listHead = Null /\ listTail = Null /\ listNum = 0
    /\ listNext = [n \in ListNodes |-> Null] /\ listPrev = listNext
    /\ listMeant = <<>>
    /\ bmapBits = {} /\ bmapLast = 0 /\ bmapHeld = <<>> /\ bmapFailed = FALSE

FreshNodes == ListNodes \ Range(listMeant)

PlaceIn(x, seq) == CHOOSE i \in 1..Len(seq) : seq[i] = x
Without(x, seq) == RemoveAt(seq, PlaceIn(x, seq))

(* list_add.                                                                *)
ListAdd(n) ==
    /\ IF listHead = Null
       THEN listHead' = n /\ listNext' = [listNext EXCEPT ![n] = Null] /\ listPrev' = [listPrev EXCEPT ![n] = Null]
       ELSE /\ listNext' = [listNext EXCEPT ![n] = Null, ![listTail] = n]
            /\ listPrev' = [listPrev EXCEPT ![n] = listTail]
            /\ UNCHANGED listHead
    /\ listTail' = n /\ listNum' = listNum + 1
    /\ listMeant' = Append(listMeant, n)

(* Faulty variant: the node behind keeps its link.                          *)
PrevInsertedKept(n, node) == [listPrev EXCEPT ![n] = listPrev[node]]

PrevInserted(n, node) == [listPrev EXCEPT ![n] = listPrev[node], ![node] = n]

(* list_insert_before (without a node it is list_add).                      *)
ListInsertBefore(n, node) ==
    /\ listHead' = IF listPrev[node] = Null THEN n ELSE listHead
    /\ listNext' = [m \in ListNodes |-> IF m = n THEN node
                                        ELSE IF listPrev[node] # Null /\ m = listPrev[node] THEN n ELSE listNext[m]]
    /\ listPrev' = PrevInserted(n, node)
    /\ listNum' = listNum + 1 /\ UNCHANGED listTail
    /\ listMeant' = InsertAt(listMeant, PlaceIn(node, listMeant), n)

(* list_del.                                                                *)
ListDel(node) ==
    LET prev == listPrev[node]
        next == listNext[node]
    IN /\ listHead' = IF prev = Null THEN next ELSE listHead
       /\ listTail' = IF next = Null THEN prev ELSE listTail
       /\ listNext' = [m \in ListNodes |-> IF prev # Null /\ m = prev THEN next ELSE listNext[m]]
       /\ listPrev' = [m \in ListNodes |-> IF next # Null /\ m = next THEN prev ELSE listPrev[m]]
       /\ listNum' = listNum - 1
       /\ listMeant' = Without(node, listMeant)

(* list_close, and list_open of another list.  It goes from node to node by the
   links of nodes it has freed.                                             *)
ListClose ==
    /\ listHead' = Null /\ listTail' = Null /\ listNum' = 0 /\ listMeant' = <<>>
    /\ UNCHANGED <<listNext, listPrev>>

(* list_for_each and list_find visit these nodes, from the head on.         *)
Visits(seq) ==
    /\ listHead = IF seq = <<>> THEN Null ELSE seq[1]
    /\ \A i \in 1..Len(seq) : listNext[seq[i]] = IF i = Len(seq) THEN Null ELSE seq[i + 1]

-----------------------------------------------------------------------------
(* bmap_scan_range: the first clear bit of the words from that of lo up to, and
   without, that of hi.                                                     *)
ScanRange(lo, hi) ==
    {b \in ((lo \div WordBits) * WordBits)..((hi \div WordBits) * WordBits - 1) : b \notin bmapBits}

FreeBits == IF ScanRange(bmapLast, BmapSize) # {} THEN ScanRange(bmapLast, BmapSize) ELSE ScanRange(0, bmapLast)

(* bmap_get_free.                                                           *)
BmapGetFree ==
    /\ bmapFailed' = (FreeBits = {})
    /\ IF FreeBits = {} THEN UNCHANGED <<bmapBits, bmapLast, bmapHeld>>
       ELSE LET b == Min(FreeBits) IN
            bmapBits' = bmapBits \cup {b} /\ bmapLast' = b /\ bmapHeld' = Append(bmapHeld, b)
    /\ UNCHANGED lkVars

(* bmap_free.                                                               *)
BmapFree(b) ==
    /\ bmapBits' = bmapBits \ {b} /\ bmapLast' = b
    /\ bmapHeld' = Without(b, bmapHeld)
    /\ bmapFailed' = FALSE /\ UNCHANGED lkVars

ListsNext ==
    \/ /\ \/ \E n \in FreshNodes : ListAdd(n) \/ \E node \in Range(listMeant) : ListInsertBefore(n, node)
          \/ \E node \in Range(listMeant) : ListDel(node)
          \/ ListClose
       /\ UNCHANGED bmapVars
    \/ BmapGetFree \/ \E b \in Range(bmapHeld) : BmapFree(b)

ListsSpec == ListsInit /\ [][ListsNext]_listVars

-----------------------------------------------------------------------------
(* The links, followed from the head or back from the tail, give the nodes that
   are meant to be in the list, in their order, and num_items counts them.  *)
ListLinked ==
    /\ Visits(listMeant) /\ listNum = Len(listMeant)
    /\ listTail = IF listMeant = <<>> THEN Null ELSE listMeant[Len(listMeant)]
    /\ \A i \in 1..Len(listMeant) : listPrev[listMeant[i]] = IF i = 1 THEN Null ELSE listMeant[i - 1]

(* A bit is given to one caller at a time, and bmap_get_free fails only when all
   the bits of the whole words of the bitmap are taken.                     *)
BitsGivenOnce ==
    /\ IsInjective(bmapHeld) /\ Range(bmapHeld) = bmapBits
    /\ bmapFailed => bmapBits = 0..((BmapSize \div WordBits) * WordBits - 1)

(* Lists stay linked both ways under any sequence of calls, and a bit is given to
   one owner. *)
ListsSafety ==
    /\ ListLinked
    /\ BitsGivenOnce
=============================================================================
